--------------------------- MODULE DatagramsProofs ---------------------------
(***************************************************************************)
(* AnswersMatch for any clients, any servers, any number of lines and any  *)
(* network.                                                                *)
(***************************************************************************)
EXTENDS Datagrams, TLAPS

\* Clients and servers are different hosts, and there is a server to name.
Hosts == Callers \cap Servers = {} /\ Servers # {} /\ Lines \in Nat

Answer == [from : Servers, by : Callers, line : Nat]

TypeOK ==
    /\ pc \in [Callers -> {"fgets", "read", "over", "thrown"}]
    /\ line \in [Callers -> Nat]
    /\ shown \in [Callers -> Seq(Answer)]
    /\ DOMAIN held = Servers

\* What travels for client c: its line, on the way to a server or there, or the
\* answer, on its way back.
Question(p) == p.from \in Callers /\ p.by = p.from /\ p.to \in Dest(p.from)
Reply(p) == p.to \in Callers /\ p.by = p.to /\ p.from \in Dest(p.to) \cap env.up
Holds(s) == held[s].line # 0

\* The line number is one that the author has reached.
PacketsOK ==
    \A p \in packets :
        /\ Question(p) \/ Reply(p)
        /\ p.line \in 1..line[p.by]

HeldOK ==
    \A s \in Servers : Holds(s) =>
        /\ held[s].from \in Callers /\ held[s].by = held[s].from
        /\ s \in Dest(held[s].from) \cap env.up
        /\ held[s].line \in 1..line[held[s].by]

\* A client has shown one answer for every line but the one it waits for.
Counted ==
    \A c \in Callers :
        line[c] = Len(shown[c]) + IF pc[c] \in {"read", "thrown"} THEN 1 ELSE 0

\* With one server and no duplicates one datagram at most travels for a client,
\* only while it waits, and it is about the line it waits for.
Strict == Unicast /\ "duplicate" \notin env.faults
OneTravels ==
    Strict =>
        /\ \A p \in packets : pc[p.by] \in {"read", "thrown"} /\ p.line = line[p.by]
        /\ \A p, q \in packets : p.by = q.by => p = q
        /\ \A s \in Servers : Holds(s) =>
            /\ pc[held[s].by] \in {"read", "thrown"} /\ held[s].line = line[held[s].by]
            /\ \A p \in packets : p.by # held[s].by

IInv == TypeOK /\ PacketsOK /\ HeldOK /\ Counted /\ OneTravels /\ AnswersMatch

-----------------------------------------------------------------------------
\* SetServAddr: the destinations are servers, and the unicast client has one.
LEMMA DestIsServer ==
    ASSUME Hosts
    PROVE  /\ \A c : Dest(c) \subseteq Servers
           /\ Unicast => \A c, d : \A s \in Dest(c), t \in Dest(d) : s = t
BY DEF Hosts, Dest

\* The network is what it is.
LEMMA SameNetwork ==
    ASSUME UNCHANGED env
    PROVE  (\A c : Dest(c)' = Dest(c)) /\ Unicast' = Unicast /\ Strict' = Strict
BY DEF Dest, Unicast, Strict

LEMMA InitInv == Hosts /\ Init => IInv
<1> SUFFICES ASSUME Hosts, Init PROVE IInv
  OBVIOUS
<1>1. TypeOK
  BY DEF Init, TypeOK
<1>2. PacketsOK /\ HeldOK /\ OneTravels
  BY DEF Init, PacketsOK, HeldOK, OneTravels, Holds, Nothing
<1>3. Counted /\ AnswersMatch
  BY DEF Init, Counted, AnswersMatch
<1> QED
  BY <1>1, <1>2, <1>3 DEF IInv

\* The steps that only take a datagram from the network: Lose, Refuse.
LEMMA FewerPackets ==
    ASSUME IInv, packets' \subseteq packets, UNCHANGED <<env, pc, line, held, shown>>
    PROVE  IInv'
<1>1. TypeOK' /\ Counted'
  BY DEF IInv, TypeOK, Counted
<1>2. PacketsOK'
  BY DEF IInv, PacketsOK, Question, Reply, Dest, Unicast
<1>3. HeldOK'
  BY DEF IInv, HeldOK, Holds, Dest, Unicast
<1>4. OneTravels'
  BY DEF IInv, OneTravels, Strict, Unicast, Holds
<1>5. AnswersMatch'
  BY DEF IInv, AnswersMatch, Dest, Unicast
<1> QED
  BY <1>1, <1>2, <1>3, <1>4, <1>5 DEF IInv

LEMMA SendInv ==
    ASSUME Hosts, IInv, NEW c \in Callers, Send(c), UNCHANGED env
    PROVE  IInv'
<1>1. TypeOK'
  BY DEF IInv, TypeOK, Send
<1> DEFINE new(s) == Packet(c, s, c, line[c] + 1, 1)
<1>a. \A p \in packets' : p \in packets \/ \E s \in Dest(c) : p = new(s)
  BY DEF Send
<1>b. \A s : new(s).from = c /\ new(s).by = c /\ new(s).to = s /\ new(s).line = line[c] + 1
  BY DEF Packet
<1>c. /\ line[c] \in Nat /\ line'[c] = line[c] + 1 /\ pc'[c] = "read"
      /\ \A d \in Callers : d # c => pc'[d] = pc[d] /\ line'[d] = line[d]
      /\ \A d \in Callers : line[d] \in Nat
  BY DEF Send, IInv, TypeOK
<1> HIDE DEF new
<1>2. PacketsOK'
  <2>1. ASSUME NEW p \in packets PROVE (Question(p) \/ Reply(p))' /\ p.line \in 1..line'[p.by]
    <3>1. p.by \in Callers /\ p.line \in 1..line[p.by] /\ (Question(p) \/ Reply(p))
      BY DEF IInv, PacketsOK, Question, Reply
    <3>2. (Question(p) \/ Reply(p))'
      BY <3>1, SameNetwork DEF Question, Reply
    <3>3. p.line \in 1..line'[p.by]
      <4>1. CASE p.by = c
        BY <1>c, <3>1, <4>1
      <4>2. CASE p.by # c
        BY <1>c, <3>1, <4>2
      <4> QED
        BY <4>1, <4>2
    <3> QED
      BY <3>2, <3>3
  <2>2. ASSUME NEW p, NEW s \in Dest(c), p = new(s)
        PROVE  (Question(p) \/ Reply(p))' /\ p.line \in 1..line'[p.by]
    <3>1. p.from = c /\ p.by = c /\ p.to = s /\ p.line = line'[c] /\ line'[c] \in Nat \ {0}
      BY <1>b, <1>c, <2>2
    <3>2. Question(p)'
      BY <3>1, SameNetwork DEF Question
    <3> QED
      BY <3>1, <3>2
  <2>3. \A p \in packets' : (Question(p) \/ Reply(p))' /\ p.line \in 1..line'[p.by]
    BY <1>a, <2>1, <2>2
  <2> QED
    BY <2>3 DEF PacketsOK
<1>3. HeldOK'
  BY DEF IInv, TypeOK, HeldOK, Send, Holds, Dest, Unicast
<1>4. Counted'
  BY DEF IInv, TypeOK, Counted, Send
<1>5. OneTravels'
  <2> SUFFICES ASSUME Strict PROVE OneTravels'
    BY DEF OneTravels, Strict, Unicast
  <2>1. /\ \A p \in packets : p.by # c
        /\ \A s \in Servers : Holds(s) => held[s].by # c
    BY DEF IInv, OneTravels, Send
  <2>2. \A p, q \in packets' : p.by = c /\ q.by = c => p = q
    BY <1>a, <1>b, <2>1, DestIsServer DEF Strict
  <2>3. \A p \in packets' : (p \in packets /\ p.by # c) \/ (p.by = c /\ p.line = line'[c])
    BY <1>a, <1>b, <1>c, <2>1
  <2>4. \A p \in packets : p.by \in Callers
    BY DEF IInv, PacketsOK, Question, Reply
  <2>5. \A s \in Servers : Holds(s) => held[s].by \in Callers
    BY DEF IInv, HeldOK
  <2>6. held' = held
    BY DEF Send
  <2> QED
    BY <1>c, <2>1, <2>2, <2>3, <2>4, <2>5, <2>6 DEF OneTravels, IInv, Holds
<1>6. AnswersMatch'
  BY DEF IInv, AnswersMatch, Send, Dest, Unicast
<1> QED
  BY <1>1, <1>2, <1>3, <1>4, <1>5, <1>6 DEF IInv

\* EndOfInput and ReceiveThrows: a client ends.
LEMMA ClientEndsInv ==
    ASSUME IInv, NEW c \in Callers, EndOfInput(c) \/ ReceiveThrows(c), UNCHANGED env
    PROVE  IInv'
<1>1. /\ UNCHANGED <<line, held, packets, shown>>
      /\ \A d \in Callers : pc[d] \in {"read", "thrown"} <=> pc'[d] \in {"read", "thrown"}
      /\ pc' \in [Callers -> {"fgets", "read", "over", "thrown"}]
  BY DEF EndOfInput, ReceiveThrows, IInv, TypeOK
<1>2. TypeOK' /\ Counted'
  BY <1>1 DEF IInv, TypeOK, Counted
<1>3. PacketsOK' /\ HeldOK'
  BY <1>1, SameNetwork DEF IInv, PacketsOK, HeldOK, Question, Reply, Holds
<1>4. OneTravels'
  <2>1. /\ \A p \in packets : p.by \in Callers
        /\ \A s \in Servers : Holds(s) => held[s].by \in Callers
    BY DEF IInv, PacketsOK, HeldOK, Question, Reply
  <2> QED
    BY <1>1, <2>1, SameNetwork DEF IInv, OneTravels, Holds
<1>5. AnswersMatch'
  BY <1>1, SameNetwork DEF IInv, AnswersMatch
<1> QED
  BY <1>2, <1>3, <1>4, <1>5 DEF IInv

\* The answer that is printed is not about a later line, because the client has
\* sent no later one; with one travelling datagram it is about this line.
LEMMA ReceiveInv ==
    ASSUME Hosts, IInv, NEW c \in Callers, Receive(c), UNCHANGED env
    PROVE  IInv'
<1>1. PICK p \in packets :
        /\ p.to = c
        /\ packets' = packets \ {p}
        /\ shown' = [shown EXCEPT ![c] = Append(@, [from |-> p.from, by |-> p.by, line |-> p.line])]
  BY DEF Receive
<1> DEFINE answer == [from |-> p.from, by |-> p.by, line |-> p.line]
<1>2. Reply(p) /\ p.by = c /\ p.line \in 1..line[c] /\ p.from \in Servers
  BY <1>1, DestIsServer DEF IInv, PacketsOK, Question, Reply, Hosts
<1>3. /\ pc[c] = "read" /\ pc'[c] = "fgets" /\ UNCHANGED <<line, held>>
      /\ \A d \in Callers : d # c => pc'[d] = pc[d] /\ shown'[d] = shown[d]
      /\ shown'[c] = Append(shown[c], answer)
      /\ line[c] \in Nat /\ shown[c] \in Seq(Answer)
  BY <1>1 DEF Receive, IInv, TypeOK
<1>4. answer \in Answer
  BY <1>2, <1>3 DEF Answer
<1>5. TypeOK'
  <2>1. shown'[c] \in Seq(Answer)
    BY <1>3, <1>4
  <2> QED
    BY <1>1, <1>3, <2>1 DEF IInv, TypeOK, Receive
<1>6. /\ Len(shown'[c]) = Len(shown[c]) + 1 /\ Len(shown[c]) \in Nat
      /\ \A i \in 1..Len(shown[c]) : shown'[c][i] = shown[c][i]
      /\ shown'[c][Len(shown[c]) + 1] = answer
      /\ DOMAIN shown'[c] = 1..(Len(shown[c]) + 1) /\ DOMAIN shown[c] = 1..Len(shown[c])
  BY <1>3, <1>4
<1>7. line[c] = Len(shown[c]) + 1
  BY <1>3, <1>6 DEF IInv, Counted
<1>8. Counted'
  <2>1. ASSUME NEW d \in Callers
        PROVE  line'[d] = Len(shown'[d]) + IF pc'[d] \in {"read", "thrown"} THEN 1 ELSE 0
    <3>1. CASE d = c
      <4>1. line'[c] = Len(shown[c]) + 1 /\ Len(shown'[c]) = Len(shown[c]) + 1 /\ Len(shown[c]) \in Nat
        BY <1>3, <1>6, <1>7
      <4>2. pc'[c] \notin {"read", "thrown"}
        BY <1>3
      <4> QED
        BY <3>1, <4>1, <4>2
    <3>2. CASE d # c
      BY <1>3, <3>2 DEF IInv, Counted
    <3> QED
      BY <3>1, <3>2
  <2> QED
    BY <2>1 DEF Counted
<1>9. PacketsOK' /\ HeldOK'
  BY <1>1, <1>3, SameNetwork DEF IInv, PacketsOK, HeldOK, Question, Reply, Holds
<1>10. OneTravels'
  <2> SUFFICES ASSUME Strict PROVE OneTravels'
    BY SameNetwork DEF OneTravels
  <2>1. /\ \A q \in packets' : q.by # c
        /\ \A s \in Servers : Holds(s) => held[s].by # c
    BY <1>1, <1>2 DEF IInv, OneTravels
  <2>2. /\ \A q \in packets : q.by \in Callers
        /\ \A s \in Servers : Holds(s) => held[s].by \in Callers
    BY DEF IInv, PacketsOK, HeldOK, Question, Reply
  <2> QED
    BY <1>1, <1>3, <2>1, <2>2 DEF IInv, OneTravels, Holds
<1>11. AnswersMatch'
  <2>1. ASSUME NEW d \in Callers, NEW i \in DOMAIN shown'[d]
        PROVE  /\ shown'[d][i].by = d /\ shown'[d][i].from \in Dest(d) \cap env.up
               /\ shown'[d][i].line <= i
               /\ Strict => shown'[d][i].line = i
    <3>1. CASE d # c \/ i \in DOMAIN shown[c]
      BY <1>3, <1>6, <3>1 DEF IInv, AnswersMatch, Strict
    <3>2. CASE d = c /\ i = Len(shown[c]) + 1
      <4>1. shown'[d][i] = answer
        BY <1>6, <3>2
      <4>2. Strict => p.line = line[c]
        BY <1>2 DEF IInv, OneTravels
      <4> QED
        BY <1>2, <1>7, <3>2, <4>1, <4>2 DEF Reply
    <3> QED
      BY <1>6, <3>1, <3>2
  <2> QED
    BY <2>1, SameNetwork DEF AnswersMatch, Strict
<1> QED
  BY <1>5, <1>8, <1>9, <1>10, <1>11 DEF IInv

\* The server takes a datagram: it is a question, and what travels moves.
LEMMA RecvFromInv ==
    ASSUME Hosts, IInv, NEW s \in Servers, s \in env.up, RecvFrom(s), UNCHANGED env
    PROVE  IInv'
<1>1. PICK p \in packets :
        /\ p.to = s
        /\ packets' = packets \ {p}
        /\ held' = [held EXCEPT ![s] = [from |-> p.from, by |-> p.by, line |-> p.line, copy |-> p.copy]]
  BY DEF RecvFrom
<1>2. Question(p) /\ p.line \in 1..line[p.by] /\ p.by \in Callers /\ line[p.by] \in Nat
  BY <1>1 DEF IInv, TypeOK, PacketsOK, Question, Reply, Hosts
<1>3. /\ UNCHANGED <<pc, line, shown>> /\ ~Holds(s) /\ DOMAIN held' = Servers
      /\ held'[s].from = p.from /\ held'[s].by = p.by /\ held'[s].line = p.line
      /\ \A t \in Servers : t # s => held'[t] = held[t]
  BY <1>1 DEF RecvFrom, Holds, IInv, TypeOK
<1>4. TypeOK' /\ Counted'
  BY <1>3 DEF IInv, TypeOK, Counted
<1>5. PacketsOK'
  BY <1>1, <1>3, SameNetwork DEF IInv, PacketsOK, Question, Reply
<1>6. HeldOK'
  <2>1. ASSUME NEW t \in Servers, t # s, Holds(t)'
        PROVE  /\ held'[t].from \in Callers /\ held'[t].by = held'[t].from
               /\ t \in Dest(held'[t].from) \cap env.up
               /\ held'[t].line \in 1..line[held'[t].by]
    BY <1>3, <2>1 DEF IInv, HeldOK, Holds
  <2>2. /\ held'[s].from \in Callers /\ held'[s].by = held'[s].from
        /\ s \in Dest(held'[s].from) \cap env.up
        /\ held'[s].line \in 1..line[held'[s].by]
    BY <1>1, <1>2, <1>3 DEF Question
  <2> QED
    BY <1>3, <2>1, <2>2, SameNetwork DEF HeldOK
<1>7. OneTravels'
  <2> SUFFICES ASSUME Strict PROVE OneTravels'
    BY SameNetwork DEF OneTravels
  <2>1. \A q \in packets' : q \in packets /\ q.by # p.by
    BY <1>1 DEF IInv, OneTravels
  <2>2. \A t \in Servers : Holds(t)' => t = s \/ (Holds(t) /\ held'[t] = held[t])
    BY <1>3 DEF Holds
  <2>3. pc[p.by] \in {"read", "thrown"} /\ p.line = line[p.by]
    BY DEF IInv, OneTravels
  <2> QED
    BY <1>1, <1>3, <2>1, <2>2, <2>3 DEF IInv, OneTravels
<1>8. AnswersMatch'
  BY <1>3, SameNetwork DEF IInv, AnswersMatch
<1> QED
  BY <1>4, <1>5, <1>6, <1>7, <1>8 DEF IInv

\* It answers to the address it has the line from.
LEMMA SendToInv ==
    ASSUME Hosts, IInv, NEW s \in Servers, SendTo(s), UNCHANGED env
    PROVE  IInv'
<1> DEFINE h == held[s]
           a == Packet(s, h.from, h.by, h.line, h.copy)
<1>1. /\ h.from \in Callers /\ h.by = h.from /\ s \in Dest(h.from) \cap env.up
      /\ h.line \in 1..line[h.by] /\ Holds(s)
  BY DEF SendTo, IInv, HeldOK, Holds
<1>2. /\ UNCHANGED <<pc, line, shown>> /\ DOMAIN held' = Servers /\ packets' = packets \cup {a}
      /\ held'[s].line = 0 /\ \A t \in Servers : t # s => held'[t] = held[t]
  BY DEF SendTo, IInv, TypeOK
<1>3. a.from = s /\ a.to = h.from /\ a.by = h.by /\ a.line = h.line
  BY DEF Packet
<1>4. TypeOK' /\ Counted'
  BY <1>2 DEF IInv, TypeOK, Counted
<1>5. PacketsOK'
  <2>1. \A q \in packets : (Question(q) \/ Reply(q))' /\ q.line \in 1..line'[q.by]
    BY <1>2, SameNetwork DEF IInv, PacketsOK, Question, Reply
  <2>2. ASSUME NEW q, q = a PROVE (Question(q) \/ Reply(q))' /\ q.line \in 1..line'[q.by]
    BY <1>1, <1>2, <1>3, <2>2, SameNetwork DEF Reply
  <2> HIDE DEF a
  <2> QED
    BY <1>2, <2>1, <2>2 DEF PacketsOK
<1>6. \A t \in Servers : Holds(t)' => t # s /\ Holds(t) /\ held'[t] = held[t]
  BY <1>2 DEF Holds
<1>7. HeldOK'
  BY <1>2, <1>6, SameNetwork DEF IInv, HeldOK
<1>8. OneTravels'
  <2> SUFFICES ASSUME Strict PROVE OneTravels'
    BY SameNetwork DEF OneTravels
  <2>1. \A q \in packets : q.by # h.by
    BY <1>1 DEF IInv, OneTravels
  <2>2. pc[h.by] \in {"read", "thrown"} /\ h.line = line[h.by]
    BY <1>1 DEF IInv, OneTravels
  <2>3. \A t \in Servers : Holds(t) => t = s
    BY <1>1, DestIsServer DEF Strict, IInv, HeldOK
  <2> HIDE DEF h, a
  <2> QED
    BY <1>2, <1>3, <1>6, <2>1, <2>2, <2>3 DEF IInv, OneTravels
<1>9. AnswersMatch'
  BY <1>2, SameNetwork DEF IInv, AnswersMatch
<1> QED
  BY <1>4, <1>5, <1>7, <1>8, <1>9 DEF IInv

LEMMA DuplicateInv ==
    ASSUME IInv, NEW p \in packets, Duplicate(p), UNCHANGED env
    PROVE  IInv'
<1>1. /\ UNCHANGED <<pc, line, held, shown>> /\ ~Strict
      /\ \A q \in packets' : q \in packets \/ \E n \in {2, 3} : q = Packet(p.from, p.to, p.by, p.line, n)
  BY DEF Duplicate, Strict
<1>2. TypeOK' /\ Counted'
  BY <1>1 DEF IInv, TypeOK, Counted
<1>3. PacketsOK'
  <2>1. \A q \in packets' : \E r \in packets :
            q.from = r.from /\ q.to = r.to /\ q.by = r.by /\ q.line = r.line
    BY <1>1 DEF Packet
  <2>2. \A q \in packets' : (Question(q) \/ Reply(q))' /\ q.line \in 1..line'[q.by]
    <3> SUFFICES ASSUME NEW q \in packets' PROVE (Question(q) \/ Reply(q))' /\ q.line \in 1..line'[q.by]
      OBVIOUS
    <3>1. PICK r \in packets : q.from = r.from /\ q.to = r.to /\ q.by = r.by /\ q.line = r.line
      BY <2>1
    <3>2. (Question(r) \/ Reply(r)) /\ r.line \in 1..line[r.by]
      BY DEF IInv, PacketsOK
    <3> QED
      BY <1>1, <3>1, <3>2, SameNetwork DEF Question, Reply
  <2> QED
    BY <2>2 DEF PacketsOK
<1>4. HeldOK' /\ OneTravels' /\ AnswersMatch'
  BY <1>1, SameNetwork DEF IInv, HeldOK, OneTravels, AnswersMatch, Holds
<1> QED
  BY <1>2, <1>3, <1>4 DEF IInv

LEMMA NextInv == Hosts /\ IInv /\ [Next]_vars => IInv'
<1> SUFFICES ASSUME Hosts, IInv, [Next]_vars PROVE IInv'
  OBVIOUS
<1>1. CASE UNCHANGED vars
  BY <1>1, FewerPackets DEF vars
<1>2. CASE Next
  <2>1. UNCHANGED env
    BY <1>2 DEF Next, Process, Network
  <2>2. ASSUME NEW c \in Callers, UnicastClient(c) \/ BroadcastClient(c) PROVE IInv'
    BY <2>1, <2>2, SendInv, ClientEndsInv, ReceiveInv DEF UnicastClient, BroadcastClient
  <2>3. ASSUME NEW s \in Servers, EchoServer(s) PROVE IInv'
    BY <2>1, <2>3, RecvFromInv, SendToInv DEF EchoServer
  <2>4. ASSUME NEW p \in packets, Refuse(p) \/ Lose(p) PROVE IInv'
    BY <2>1, <2>4, FewerPackets DEF Refuse, Lose
  <2>5. ASSUME NEW p \in packets, Duplicate(p) PROVE IInv'
    BY <2>1, <2>5, DuplicateInv
  <2> QED
    BY <1>2, <2>2, <2>3, <2>4, <2>5 DEF Next, Process, Network
<1> QED
  BY <1>1, <1>2

-----------------------------------------------------------------------------
\* DgCli of both clients against DgEcho, for any number of clients, servers and
\* lines, over any network: an answer is to a line this client has sent, from a
\* server it was sent to, and never ahead of the line it is printed for; with
\* one server and no duplicates it is the answer to just that line.
THEOREM AnswersAreRight == Hosts => (Spec => []AnswersMatch)
<1> SUFFICES ASSUME Hosts PROVE Spec => []AnswersMatch
  OBVIOUS
<1>1. Init => IInv
  BY InitInv
<1>2. IInv /\ [Next]_vars => IInv'
  BY NextInv
<1>3. IInv => AnswersMatch
  BY DEF IInv
<1> QED
  BY <1>1, <1>2, <1>3, PTL DEF Spec
=============================================================================
