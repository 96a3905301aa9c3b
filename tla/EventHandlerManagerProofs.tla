---------------------- MODULE EventHandlerManagerProofs ----------------------
(***************************************************************************)
(* What the search of EventHandlerManager::add() finds, for every size of  *)
(* the key space, every set of keys in use and every cursor.               *)
(***************************************************************************)
EXTENDS EventHandlerManager, WellFoundedInduction, TLAPS

Less == {pair \in Nat \X Nat : pair[1] < pair[2]}

\* The induction of this module: a set of numbers has a least one.
LEMMA LeastElement ==
    ASSUME NEW S \in SUBSET Nat, S # {}
    PROVE  \E n \in S : \A m \in S : n <= m
<1>1. IsWellFoundedOn(Less, Nat)
    BY NatLessThanWellFounded DEF OpToRel, Less
<1>2. \E x \in S : \A y \in S : ~(<<y, x>> \in Less)
    BY <1>1, WFMin
<1>3. PICK x \in S : \A y \in S : ~(<<y, x>> \in Less)
    BY <1>2
<1>4. ASSUME NEW y \in S PROVE x <= y
  <2>1. x \in Nat /\ y \in Nat
    OBVIOUS
  <2>2. <<y, x>>[1] = y /\ <<y, x>>[2] = x /\ <<y, x>> \in Nat \X Nat
    BY <2>1
  <2>3. ~(<<y, x>>[1] < <<y, x>>[2])
    BY <1>3, <2>2 DEF Less
  <2> QED BY <2>1, <2>2, <2>3
<1> QED BY <1>4

-----------------------------------------------------------------------------
\* The n-th key the search looks at.
KeyAt(last, n) == (last + n) % KeySpace

\* ++lastKey wraps around once.
LEMMA KeyAtValue ==
    ASSUME NEW last \in Keys, NEW n \in 0..KeySpace
    PROVE  /\ KeyAt(last, n) \in Keys
           /\ KeyAt(last, n) = IF last + n < KeySpace THEN last + n ELSE last + n - KeySpace
<1>1. KeySpace \in Nat \ {0} /\ last \in Nat /\ last < KeySpace /\ n \in Nat /\ n <= KeySpace
    BY KeySpaceAssumption DEF Keys
<1>2. CASE last + n < KeySpace
    BY <1>1, <1>2 DEF KeyAt, Keys
<1>3. CASE last + n >= KeySpace
    BY <1>1, <1>3 DEF KeyAt, Keys
<1> QED BY <1>1, <1>2, <1>3

\* The search as a function of its step, written out.
Search(used, last, try) ==
    [n \in 1..KeySpace |->
        IF KeyAt(last, n) \notin used THEN KeyAt(last, n)
        ELSE IF KeyAt(last, n) = last THEN NoKey ELSE try[n + 1]]

\* Step m is the first from step n on that meets a free key.
FirstFree(used, last, n, m) ==
    /\ m \in n..KeySpace /\ KeyAt(last, m) \notin used
    /\ \A j \in n..m - 1 : KeyAt(last, j) \in used

\* There is such a step whenever a free key is ahead.
LEMMA FirstExists ==
    ASSUME NEW used, NEW last \in Keys, NEW n \in 1..KeySpace,
           NEW i \in n..KeySpace, KeyAt(last, i) \notin used
    PROVE  \E m \in n..KeySpace : FirstFree(used, last, n, m)
<1> DEFINE S == {m \in n..KeySpace : KeyAt(last, m) \notin used}
<1>1. KeySpace \in Nat /\ S \in SUBSET Nat /\ i \in S
    BY KeySpaceAssumption
<1>2. PICK m \in S : \A j \in S : m <= j
    BY <1>1, LeastElement
<1>3. \A j \in n..m - 1 : KeyAt(last, j) \in used
    BY <1>1, <1>2
<1> QED BY <1>2, <1>3 DEF FirstFree

\* A function that satisfies the equation of the loop finds the first free key.
LEMMA SearchFinds ==
    ASSUME NEW used, NEW last \in Keys, NEW try, try = Search(used, last, try)
    PROVE  \A n \in 1..KeySpace :
             /\ \A m \in n..KeySpace : FirstFree(used, last, n, m) => try[n] = KeyAt(last, m)
             /\ (\A m \in n..KeySpace : KeyAt(last, m) \in used) => try[n] = NoKey
<1> DEFINE Good(n) ==
             /\ \A m \in n..KeySpace : FirstFree(used, last, n, m) => try[n] = KeyAt(last, m)
             /\ (\A m \in n..KeySpace : KeyAt(last, m) \in used) => try[n] = NoKey
           S == {d \in 0..KeySpace - 1 : ~Good(KeySpace - d)}
<1>1. KeySpace \in Nat \ {0}
    BY KeySpaceAssumption
<1>2. SUFFICES ASSUME S # {} PROVE FALSE
  <2>1. \A n \in 1..KeySpace : KeySpace - n \in 0..KeySpace - 1 /\ KeySpace - (KeySpace - n) = n
    BY <1>1
  <2> QED BY <2>1
<1>3. PICK d \in S : \A e \in S : d <= e
  <2>1. S \in SUBSET Nat
    BY <1>1
  <2> HIDE DEF S
  <2> QED BY <1>2, <2>1, LeastElement
<1> DEFINE n == KeySpace - d
<1>4. n \in 1..KeySpace /\ d \in 0..KeySpace - 1 /\ ~Good(n)
    BY <1>1, <1>3
<1> HIDE DEF S, Good, n
<1>5. try[n] = IF KeyAt(last, n) \notin used THEN KeyAt(last, n)
               ELSE IF KeyAt(last, n) = last THEN NoKey ELSE try[n + 1]
    BY <1>4 DEF Search
<1>6. CASE KeyAt(last, n) \notin used
  <2>1. \A m \in n..KeySpace : FirstFree(used, last, n, m) => m = n
    BY <1>1, <1>4, <1>6 DEF FirstFree
  <2> QED BY <1>1, <1>4, <1>5, <1>6, <2>1 DEF Good
<1>7. CASE KeyAt(last, n) \in used /\ n = KeySpace
  <2>1. KeyAt(last, n) = last
    BY <1>1, <1>4, <1>7, KeyAtValue DEF Keys
  <2>2. \A m \in n..KeySpace : m = n
    BY <1>1, <1>4, <1>7
  <2> QED BY <1>4, <1>5, <1>7, <2>1, <2>2 DEF Good, FirstFree
<1>8. CASE KeyAt(last, n) \in used /\ n < KeySpace
  <2>1. KeyAt(last, n) # last
    <3>1. n \in 0..KeySpace /\ n \in Nat /\ n > 0 /\ last \in Nat /\ last < KeySpace
      BY <1>1, <1>4 DEF Keys
    <3>2. KeyAt(last, n) = IF last + n < KeySpace THEN last + n ELSE last + n - KeySpace
      BY <3>1, KeyAtValue
    <3> QED BY <1>1, <1>8, <3>1, <3>2
  <2>2. try[n] = try[n + 1]
    BY <1>5, <1>8, <2>1
  <2>3. d - 1 \in 0..KeySpace - 1 /\ KeySpace - (d - 1) = n + 1
    BY <1>1, <1>4, <1>8 DEF n
  <2>4. Good(n + 1)
    BY <1>1, <1>3, <2>3 DEF S
  <2>5. \A m \in n..KeySpace : FirstFree(used, last, n, m)
                                => m \in n + 1..KeySpace /\ FirstFree(used, last, n + 1, m)
    BY <1>1, <1>4, <1>8 DEF FirstFree
  <2>6. \A m \in n + 1..KeySpace : m \in n..KeySpace
    BY <1>1, <1>4
  <2> QED BY <1>4, <2>2, <2>4, <2>5, <2>6 DEF Good
<1> QED BY <1>1, <1>4, <1>6, <1>7, <1>8

\* The loop ends: there is a function that satisfies its equation.
LEMMA SearchExists ==
    ASSUME NEW used, NEW last \in Keys
    PROVE  \E try : try = Search(used, last, try)
<1> DEFINE First(n) == CHOOSE m \in n..KeySpace : FirstFree(used, last, n, m)
           Free(n) == \E m \in n..KeySpace : KeyAt(last, m) \notin used
           try == [n \in 1..KeySpace |-> IF Free(n) THEN KeyAt(last, First(n)) ELSE NoKey]
<1>1. KeySpace \in Nat \ {0}
    BY KeySpaceAssumption
<1>2. ASSUME NEW n \in 1..KeySpace, Free(n)
      PROVE  First(n) \in n..KeySpace /\ FirstFree(used, last, n, First(n))
  <2>1. \E m \in n..KeySpace : FirstFree(used, last, n, m)
    BY <1>2, FirstExists
  <2> QED BY <2>1
<1>3. ASSUME NEW n \in 1..KeySpace
      PROVE  try[n] = IF KeyAt(last, n) \notin used THEN KeyAt(last, n)
                      ELSE IF KeyAt(last, n) = last THEN NoKey ELSE try[n + 1]
  <2>1. try[n] = IF Free(n) THEN KeyAt(last, First(n)) ELSE NoKey
    OBVIOUS
  <2>2. n + 1 \in 1..KeySpace => try[n + 1] = IF Free(n + 1) THEN KeyAt(last, First(n + 1)) ELSE NoKey
    OBVIOUS
  <2>3. n \in n..KeySpace /\ n \in Nat
    BY <1>1
  <2>4. Free(n) => First(n) \in n..KeySpace /\ FirstFree(used, last, n, First(n))
    BY <1>2
  <2>5. n + 1 \in 1..KeySpace /\ Free(n + 1)
        => First(n + 1) \in n + 1..KeySpace /\ FirstFree(used, last, n + 1, First(n + 1))
    BY <1>2
  <2>6. KeyAt(last, n) \notin used => Free(n)
    BY <2>3
  <2>7. KeyAt(last, n) \in used => (Free(n) <=> n + 1 \in 1..KeySpace /\ Free(n + 1))
    BY <1>1, <2>3
  <2> HIDE DEF try, First, Free
  <2>8. CASE KeyAt(last, n) \notin used
    BY <1>1, <2>1, <2>3, <2>4, <2>6, <2>8 DEF FirstFree
  <2>9. CASE KeyAt(last, n) \in used /\ n = KeySpace
    <3>1. KeyAt(last, n) = last
      BY <1>1, <2>9, KeyAtValue DEF Keys
    <3> QED BY <1>1, <2>1, <2>7, <2>9, <3>1
  <2>10. CASE KeyAt(last, n) \in used /\ n < KeySpace
    <3>1. last \in Nat /\ last < KeySpace /\ n \in 0..KeySpace /\ n > 0 /\ n + 1 \in 1..KeySpace
      BY <1>1, <2>3, <2>10 DEF Keys
    <3>2. KeyAt(last, n) = IF last + n < KeySpace THEN last + n ELSE last + n - KeySpace
      BY <3>1, KeyAtValue
    <3>3. KeyAt(last, n) # last
      BY <1>1, <2>3, <2>10, <3>1, <3>2
    <3>4. CASE Free(n)
      <4>1. First(n) = First(n + 1)
        BY <1>1, <2>3, <2>4, <2>5, <2>7, <2>10, <3>1, <3>4 DEF FirstFree
      <4> QED BY <2>1, <2>2, <2>7, <2>10, <3>1, <3>3, <3>4, <4>1
    <3> QED BY <2>1, <2>2, <2>7, <2>10, <3>1, <3>3, <3>4
  <2> QED BY <1>1, <2>3, <2>8, <2>9, <2>10
<1>4. try = Search(used, last, try)
  <2> HIDE DEF try
  <2>1. try = [n \in 1..KeySpace |-> try[n]]
    BY DEF try
  <2> QED BY <1>3, <2>1 DEF Search
<1> QED BY <1>4

\* The search meets every key.
LEMMA EveryKeyIsMet ==
    ASSUME NEW last \in Keys, NEW k \in Keys
    PROVE  \E i \in 1..KeySpace : KeyAt(last, i) = k
<1>1. KeySpace \in Nat \ {0} /\ k \in Nat /\ k < KeySpace /\ last \in Nat /\ last < KeySpace
  BY KeySpaceAssumption DEF Keys
<1>2. CASE k > last
  <2>1. k - last \in 0..KeySpace /\ k - last \in 1..KeySpace /\ last + (k - last) = k
    BY <1>1, <1>2
  <2>2. KeyAt(last, k - last) = k
    BY <1>1, <2>1, KeyAtValue
  <2> QED BY <2>1, <2>2
<1>3. CASE k <= last
  <2> DEFINE i == k + KeySpace - last
  <2>1. i \in 0..KeySpace /\ i \in 1..KeySpace /\ last + i = k + KeySpace
    BY <1>1, <1>3
  <2> HIDE DEF i
  <2>2. KeyAt(last, i) = IF last + i < KeySpace THEN last + i ELSE last + i - KeySpace
    BY <2>1, KeyAtValue
  <2>3. KeyAt(last, i) = k
    BY <1>1, <2>1, <2>2
  <2> QED BY <2>1, <2>3
<1> QED BY <1>1, <1>2, <1>3

\* add() throws only when every key is in use, and otherwise takes the first
\* free key that ++lastKey meets.
THEOREM AddKeyFindsFirstFree ==
    ASSUME NEW used, NEW last \in Keys
    PROVE  /\ Keys \subseteq used => AddKey(used, last) = NoKey
           /\ ~(Keys \subseteq used) =>
                \E m \in 1..KeySpace : /\ FirstFree(used, last, 1, m)
                                       /\ AddKey(used, last) = KeyAt(last, m)
<1> DEFINE try == CHOOSE f : f = Search(used, last, f)
<1>1. KeySpace \in Nat \ {0} /\ 1 \in 1..KeySpace
    BY KeySpaceAssumption
<1>2. AddKey(used, last) = try[1]
    BY DEF AddKey, Search, KeyAt
<1>3. try = Search(used, last, try)
    BY SearchExists
<1> HIDE DEF try
<1>4. CASE Keys \subseteq used
  <2>1. \A m \in 1..KeySpace : m \in 0..KeySpace
    BY <1>1
  <2>2. \A m \in 1..KeySpace : KeyAt(last, m) \in used
    BY <1>4, <2>1, KeyAtValue
  <2> QED BY <1>1, <1>2, <1>3, <1>4, <2>2, SearchFinds
<1>5. CASE ~(Keys \subseteq used)
  <2>1. PICK k \in Keys : k \notin used
    BY <1>5
  <2>2. PICK i \in 1..KeySpace : KeyAt(last, i) = k
    BY EveryKeyIsMet
  <2>3. PICK m \in 1..KeySpace : FirstFree(used, last, 1, m)
    BY <1>1, <2>1, <2>2, FirstExists
  <2> QED BY <1>1, <1>2, <1>3, <1>5, <2>3, SearchFinds
<1> QED BY <1>4, <1>5

\* What the proactors use: a key add() returns is a free one.
LEMMA AddKeyIsFree ==
    ASSUME NEW used, NEW last \in Keys, AddKey(used, last) # NoKey
    PROVE  AddKey(used, last) \in Keys \ used
<1>1. PICK m \in 1..KeySpace : FirstFree(used, last, 1, m) /\ AddKey(used, last) = KeyAt(last, m)
    BY AddKeyFindsFirstFree
<1>2. m \in 0..KeySpace
    BY KeySpaceAssumption
<1> QED BY <1>1, <1>2, KeyAtValue DEF FirstFree
=============================================================================
