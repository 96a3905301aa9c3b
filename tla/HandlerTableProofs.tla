------------------------- MODULE HandlerTableProofs --------------------------
(***************************************************************************)
(* NextFreeKey of HandlerTable, for every size of the key space: the code's*)
(* 2^32 included, which no model checker enumerates.                       *)
(***************************************************************************)
EXTENDS HandlerTable, EventHandlerManagerProofs

TableTypeOK == used \in SUBSET Keys /\ lastKey \in Keys

\* The cursor and the keys in use are keys.
LEMMA TableTyped == Spec => []TableTypeOK
<1>1. Init => TableTypeOK
    BY KeySpaceAssumption DEF Init, TableTypeOK, Keys
<1>2. TableTypeOK /\ [Next]_vars => TableTypeOK'
  <2> SUFFICES ASSUME TableTypeOK, [Next]_vars PROVE TableTypeOK'
    OBVIOUS
  <2>1. CASE Add /\ AddKey(used, lastKey) # NoKey
    <3>1. AddKey(used, lastKey) \in Keys \ used
      BY <2>1, AddKeyIsFree DEF TableTypeOK
    <3> QED BY <2>1, <3>1 DEF Add, TableTypeOK
  <2>2. CASE Add /\ AddKey(used, lastKey) = NoKey
    BY <2>2 DEF Add, vars, TableTypeOK
  <2>3. CASE Clear
    BY <2>3 DEF Clear, TableTypeOK
  <2>4. CASE \E key \in Keys : Remove(key)
    BY <2>4 DEF Remove, TableTypeOK
  <2>5. CASE UNCHANGED vars
    BY <2>5 DEF vars, TableTypeOK
  <2> QED BY <2>1, <2>2, <2>3, <2>4, <2>5 DEF Next
<1> QED BY <1>1, <1>2, PTL DEF Spec

\* A key is as far behind the cursor as the number of steps to it.
LEMMA DistanceOfStep ==
    ASSUME NEW last \in Keys, NEW m \in 1..KeySpace
    PROVE  (KeyAt(last, m) + KeySpace - last - 1) % KeySpace = m - 1
<1>1. KeySpace \in Nat \ {0} /\ last \in Nat /\ last < KeySpace /\ m \in Nat /\ m > 0
      /\ m <= KeySpace /\ m \in 0..KeySpace
    BY KeySpaceAssumption DEF Keys
<1>2. KeyAt(last, m) = IF last + m < KeySpace THEN last + m ELSE last + m - KeySpace
    BY <1>1, KeyAtValue
<1>3. CASE last + m < KeySpace
  <2>1. KeyAt(last, m) + KeySpace - last - 1 = KeySpace + (m - 1) /\ m - 1 \in Nat /\ m - 1 < KeySpace
    BY <1>1, <1>2, <1>3
  <2> QED BY <1>1, <2>1
<1>4. CASE last + m >= KeySpace
  <2>1. KeyAt(last, m) + KeySpace - last - 1 = m - 1 /\ m - 1 \in Nat /\ m - 1 < KeySpace
    BY <1>1, <1>2, <1>4
  <2> QED BY <1>1, <2>1
<1> QED BY <1>1, <1>3, <1>4

\* add() fails only when all keys are in use, and otherwise returns the first
\* free key behind the cursor, whatever was added and removed before.
THEOREM AddTakesNextFreeKey == Spec => []NextFreeKey
<1>1. TableTypeOK => NextFreeKey
  <2> SUFFICES ASSUME TableTypeOK PROVE NextFreeKey
    OBVIOUS
  <2>1. used \subseteq Keys /\ lastKey \in Keys /\ KeySpace \in Nat \ {0}
    BY KeySpaceAssumption DEF TableTypeOK
  <2>2. CASE used = Keys
    BY <2>1, <2>2, AddKeyFindsFirstFree DEF NextFreeKey
  <2>3. CASE used # Keys
    <3> DEFINE key == AddKey(used, lastKey)
               Distance(k) == (k + KeySpace - lastKey - 1) % KeySpace
    <3>1. PICK m \in 1..KeySpace : FirstFree(used, lastKey, 1, m) /\ key = KeyAt(lastKey, m)
      BY <2>1, <2>3, AddKeyFindsFirstFree
    <3>2. key \in Keys \ used
      <4>1. m \in 0..KeySpace
        BY <2>1
      <4> QED BY <2>1, <3>1, <4>1, KeyAtValue DEF FirstFree
    <3>3. Distance(key) = m - 1
      BY <2>1, <3>1, DistanceOfStep
    <3>4. ASSUME NEW k \in Keys \ used PROVE Distance(key) <= Distance(k)
      <4>1. PICK i \in 1..KeySpace : KeyAt(lastKey, i) = k
        BY <2>1, EveryKeyIsMet
      <4>2. Distance(k) = i - 1
        BY <2>1, <4>1, DistanceOfStep
      <4>3. m <= i
        BY <2>1, <3>1, <4>1 DEF FirstFree
      <4> HIDE DEF Distance, key
      <4> QED BY <2>1, <3>3, <4>2, <4>3
    <3> QED BY <2>3, <3>2, <3>4 DEF NextFreeKey
  <2> QED BY <2>2, <2>3
<1> QED BY <1>1, TableTyped, PTL
=============================================================================
