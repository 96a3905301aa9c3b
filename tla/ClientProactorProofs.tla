------------------------ MODULE ClientProactorProofs -------------------------
(***************************************************************************)
(* The steps of the pool's threads and of gRPC keep the invariant of       *)
(* ClientTokens too, and CallAlive and OneWriteAtATime follow from it.     *)
(***************************************************************************)
EXTENDS ClientMainProofs, FiniteSetTheorems

\* Only tokens move; the main thread and the handlers stay as they are.
LEMMA MoveInv ==
    ASSUME IInv, TypeOK', UNCHANGED <<handlers, main, env>>, NEW x \in Tokens, NEW y,
           x[3].key = y[3].key, x[3].call = y[3].call, x[3].tag = y[3].tag,
           \A z \in Tokens' : z = y \/ (z \in Tokens /\ z # x)
    PROVE  IInv'
<1>1. Used' = Used /\ Kind' = Kind
    BY DEF Used, Kind, Script
<1>2. ASSUME NEW k \in Used PROVE HandlerOK(Tokens', handlers[k], k, main.call)
  <2>1. HandlerOK(Tokens, handlers[k], k, main.call)
    BY DEF IInv, TokensOK
  <2> QED BY <2>1, TokenMoves
<1>3. TokensOK'
    BY <1>1, <1>2 DEF IInv, TokensOK
<1>4. CallsOK'
    BY <1>1 DEF IInv, CallsOK
<1>5. MainOK'
    BY <1>1 DEF IInv, MainOK
<1> QED BY <1>3, <1>4, <1>5 DEF IInv

\* Nothing a token is made of changes.
LEMMA SameInv ==
    ASSUME IInv, TypeOK', UNCHANGED <<handlers, main, env>>, Tokens' \subseteq Tokens
    PROVE  IInv'
<1>1. Used' = Used /\ Kind' = Kind
    BY DEF Used, Kind, Script
<1>2. ASSUME NEW k \in Used PROVE HandlerOK(Tokens', handlers[k], k, main.call)
  <2>1. HandlerOK(Tokens, handlers[k], k, main.call) /\ handlers[k].call \in Nat /\ main.call \in Nat
    BY Typed DEF IInv, TokensOK
  <2> QED BY <2>1, FewerTokens
<1>3. TokensOK'
    BY <1>1, <1>2 DEF IInv, TokensOK
<1>4. CallsOK'
    BY <1>1 DEF IInv, CallsOK
<1>5. MainOK'
    BY <1>1 DEF IInv, MainOK
<1> QED BY <1>3, <1>4, <1>5 DEF IInv

\* A thread takes an event, whose handler is there.
LEMMA NextEventInv ==
    ASSUME IInv, NEW t \in Threads, NextEvent(t), UNCHANGED env
    PROVE  IInv'
<1>1. PICK e \in events[t] :
        /\ events' = [events EXCEPT ![t] = @ \ {e}]
        /\ IF e.key \notin Used THEN UNCHANGED <<pc, event>>
           ELSE /\ pc' = [pc EXCEPT ![t] = "process"]
                /\ event' = [event EXCEPT ![t] = e]
    BY Zenon DEF NextEvent
<1>2. pc[t] = "next" /\ UNCHANGED <<handlers, lastKey, cqIdx, main, ops>>
    BY DEF NextEvent
<1>3. e \in Event /\ Queued(t, e) \in Tokens
    BY <1>1, TokenIn DEF IInv, TypeOK, Tokens
<1>4. e.key \in Used
    BY <1>3, Places DEF IInv, TokensOK
<1>5. TypeOK'
  <2>1. pc' \in [Threads -> {"next", "count", "process", "left"}] /\ event' \in [Threads -> Event \cup {NoEvent}]
    BY <1>1, <1>3, <1>4 DEF IInv, TypeOK
  <2>2. \A u \in Threads : IF pc'[u] = "process" THEN event'[u] \in Event ELSE event'[u] = NoEvent
    BY <1>1, <1>3, <1>4 DEF IInv, TypeOK
  <2>3. events' \in [Threads -> SUBSET Event]
    BY <1>1 DEF IInv, TypeOK
  <2> QED BY <1>2, <2>1, <2>2, <2>3 DEF IInv, TypeOK, Script
<1>6. \A z \in Tokens' : z = InHand(t, e) \/ (z \in Tokens /\ z # Queued(t, e))
  <2> SUFFICES ASSUME NEW z \in Tokens', z # InHand(t, e) PROVE z \in Tokens /\ z # Queued(t, e)
    OBVIOUS
  <2>1. CASE \E op \in ops : z = AtGrpc(op)
    BY <2>1, TokenIn, Places DEF Tokens
  <2>2. CASE \E u \in Threads : \E f \in events'[u] : z = Queued(u, f)
    <3>1. PICK u \in Threads : \E f \in events'[u] : z = Queued(u, f)
      BY <2>2
    <3>2. PICK f \in events'[u] : z = Queued(u, f)
      BY <3>1
    <3>3. f \in events[u] /\ (u = t => f # e)
      BY <1>1 DEF IInv, TypeOK
    <3> QED BY <3>2, <3>3, TokenIn, Places DEF Tokens
  <2>3. CASE \E u \in Threads : pc'[u] = "process" /\ z = InHand(u, event'[u])
    <3>1. PICK u \in Threads : pc'[u] = "process" /\ z = InHand(u, event'[u])
      BY <2>3
    <3>2. u # t
      BY <1>1, <1>4, <3>1 DEF IInv, TypeOK
    <3>3. pc[u] = "process" /\ event'[u] = event[u]
      BY <1>1, <1>4, <3>1, <3>2 DEF IInv, TypeOK
    <3>4. z \in Tokens
      BY <3>1, <3>3, TokenIn DEF Tokens
    <3>5. z # Queued(t, e)
      BY <3>1, Places
    <3> QED BY <3>4, <3>5
  <2> QED BY <1>2, <2>1, <2>2, <2>3, TokenIn DEF Tokens
<1> QED BY <1>2, <1>3, <1>5, <1>6, MoveInv, Places

\* gRPC completes an operation.
LEMMA CompleteInv ==
    ASSUME IInv, NEW op \in ops, Complete(op)
    PROVE  IInv'
<1>1. PICK ok \in BOOLEAN : events' = [events EXCEPT ![op.cq] = @ \cup
                {[key |-> op.key, call |-> op.call, tag |-> op.tag, ok |-> ok]}]
    BY Zenon DEF Complete
<1> DEFINE e == [key |-> op.key, call |-> op.call, tag |-> op.tag, ok |-> ok]
<1>2. ops' = ops \ {op} /\ UNCHANGED <<handlers, lastKey, cqIdx, main, pc, event, env>>
    BY DEF Complete
<1>3. op \in Operation /\ op.cq \in Threads /\ AtGrpc(op) \in Tokens
    BY TokenIn DEF IInv, TypeOK, Tokens, Operation
<1>4. e \in Event /\ e.key = op.key /\ e.call = op.call /\ e.tag = op.tag
    BY <1>3 DEF Operation, Event
<1> HIDE DEF e
<1>5. events' = [events EXCEPT ![op.cq] = @ \cup {e}]
    BY <1>1 DEF e
<1>6. TypeOK'
  <2>1. events' \in [Threads -> SUBSET Event] /\ ops' \in SUBSET Operation
    BY <1>2, <1>3, <1>4, <1>5 DEF IInv, TypeOK
  <2> QED BY <1>2, <2>1 DEF IInv, TypeOK, Script
<1>7. \A z \in Tokens' : z = Queued(op.cq, e) \/ (z \in Tokens /\ z # AtGrpc(op))
  <2> SUFFICES ASSUME NEW z \in Tokens', z # Queued(op.cq, e) PROVE z \in Tokens /\ z # AtGrpc(op)
    OBVIOUS
  <2>1. CASE \E o \in ops' : z = AtGrpc(o)
    BY <1>2, <2>1, TokenIn, Places, Zenon DEF Tokens
  <2>2. CASE \E u \in Threads : \E f \in events'[u] : z = Queued(u, f)
    <3>1. PICK u \in Threads : \E f \in events'[u] : z = Queued(u, f)
      BY <2>2
    <3>2. PICK f \in events'[u] : z = Queued(u, f)
      BY <3>1
    <3>3. f \in events[u]
      BY <1>3, <1>5, <3>2 DEF IInv, TypeOK
    <3> QED BY <3>2, <3>3, TokenIn, Places, Zenon DEF Tokens
  <2>3. CASE \E u \in Threads : pc[u] = "process" /\ z = InHand(u, event[u])
    <3>1. z \in Tokens
      BY <2>3, TokenIn DEF Tokens
    <3>2. z # AtGrpc(op)
      BY <2>3, Places
    <3> QED BY <3>1, <3>2
  <2> QED BY <1>2, <2>1, <2>2, <2>3, TokenIn DEF Tokens
<1> QED BY <1>2, <1>3, <1>4, <1>6, <1>7, MoveInv, Places

\* process(), isComplete() and remove()
LEMMA ProcessInv ==
    ASSUME IInv, NEW t \in Threads, Process(t), UNCHANGED env
    PROVE  IInv'
<1> DEFINE e == event[t]
           k == e.key
           h == handlers[k]
           d == After(h, e)
           x == InHand(t, e)
           New(tag) == [key |-> e.key, call |-> e.call, tag |-> tag, cq |-> t]
<1>1. pc[t] = "process" /\ UNCHANGED <<lastKey, cqIdx, main, events>>
    BY DEF Process
<1>2. e \in Event /\ x \in Tokens /\ x[3] = e
    BY <1>1, TokenIn, Places, Zenon DEF IInv, TypeOK, Tokens
<1>3. k \in Used /\ k \in Keys /\ h \in Handler /\ h # NoHandler /\ main.call \in Nat
    BY <1>2, Typed DEF IInv, TokensOK, Used
<1>4. CASE UNCHANGED <<handlers, ops, event, pc>>
  <2>1. TypeOK' /\ Tokens' = Tokens
    BY <1>1, <1>4 DEF IInv, TypeOK, Script, Tokens
  <2> QED BY <1>1, <1>4, <2>1, SameInv
<1>5. CASE /\ handlers' = [handlers EXCEPT ![k] = IF IsComplete(d) THEN NoHandler ELSE d]
           /\ ops' = ops \cup {New(tag) : tag \in Started(h.kind, e)}
           /\ event' = [event EXCEPT ![t] = NoEvent]
           /\ pc' = [pc EXCEPT ![t] = "next"]
  <2> HIDE DEF d, h, x
  <2>1. \A tag \in Started(h.kind, e) : tag \in {"READ", "FINISH"} /\ h.kind \in {"listen", "talk"}
    BY <1>2 DEF Started, Event
  <2>2. \A tag \in {"READ", "FINISH"} :
            New(tag) \in Operation /\ New(tag).key = k /\ New(tag).call = e.call /\ New(tag).tag = tag
    BY <1>2, <1>3 DEF Operation, Event, Tags
  <2> HIDE DEF New
  <2>3. ops' \in SUBSET Operation
    BY <1>5, <2>1, <2>2 DEF IInv, TypeOK
  <2>4. \A z \in Tokens' : z \in Tokens \/ \E tag \in Started(h.kind, e) : z = AtGrpc(New(tag))
    <3> SUFFICES ASSUME NEW z \in Tokens', \A tag \in Started(h.kind, e) : z # AtGrpc(New(tag))
                 PROVE  z \in Tokens
      OBVIOUS
    <3>1. CASE \E op \in ops' : z = AtGrpc(op)
      <4>1. PICK op \in ops' : z = AtGrpc(op)
        BY <3>1
      <4>2. op \in ops
        BY <1>5, <4>1
      <4> QED BY <4>1, <4>2, TokenIn DEF Tokens
    <3>2. CASE \E u \in Threads : \E f \in events[u] : z = Queued(u, f)
      BY <3>2, TokenIn DEF Tokens
    <3>3. CASE \E u \in Threads : pc'[u] = "process" /\ z = InHand(u, event'[u])
      <4>1. PICK u \in Threads : pc'[u] = "process" /\ z = InHand(u, event'[u])
        BY <3>3
      <4>2. pc[u] = "process" /\ event'[u] = event[u]
        BY <1>5, <4>1 DEF IInv, TypeOK
      <4> QED BY <4>1, <4>2, TokenIn DEF Tokens
    <3> QED BY <1>1, <3>1, <3>2, <3>3, TokenIn DEF Tokens
  <2>5. x \notin Tokens'
    <3> SUFFICES ASSUME x \in Tokens' PROVE FALSE
      OBVIOUS
    <3>1. PICK u \in Threads : pc'[u] = "process" /\ x = InHand(u, event'[u])
      <4>1. \/ \E op \in ops' : x = AtGrpc(op)
            \/ \E u \in Threads : \E f \in events'[u] : x = Queued(u, f)
            \/ \E u \in Threads : pc'[u] = "process" /\ x = InHand(u, event'[u])
        BY TokenIn DEF Tokens
      <4> QED BY <4>1, Places DEF x
    <3>2. u = t
      BY <3>1, Places DEF x
    <3> QED BY <1>5, <3>1, <3>2 DEF IInv, TypeOK
  <2>6. \A z \in Tokens' :
            \/ z \in Tokens
            \/ \E tag \in Started(h.kind, e) :
                 z[3].key = e.key /\ z[3].call = e.call /\ z[3].tag = tag
                 /\ \A w \in Tokens' : w[3].key = k /\ w[3].tag = tag /\ w \notin Tokens => w = z
    <3>1. \A tag \in Started(h.kind, e) :
            AtGrpc(New(tag))[3].key = k /\ AtGrpc(New(tag))[3].call = e.call /\ AtGrpc(New(tag))[3].tag = tag
      BY <2>1, <2>2, Places
    <3> QED BY <2>4, <3>1
  <2>7. /\ d \in Handler /\ d.kind = h.kind /\ d.call = h.call
        /\ ~IsComplete(d) => HandlerOK(Tokens', d, k, main.call)
        /\ IsComplete(d) => /\ \A z \in Tokens' : z[3].key # k
                            /\ h.kind \in Streams => h.call < main.call
    <3>1. HandlerOK(Tokens, h, k, main.call)
      BY <1>3 DEF IInv, TokensOK, h
    <3>2. Turned(Tokens, Tokens', x, h.kind, e)
      BY <2>5, <2>6 DEF Turned
    <3> DEFINE T2 == Tokens'
    <3> HIDE DEF T2, e, k
    <3>3. e.key = k
      BY DEF k
    <3>4. e \in Event /\ x \in Tokens /\ x[3] = e /\ h \in Handler /\ main.call \in Nat
      BY <1>2, <1>3
    <3>5. Turned(Tokens, T2, x, h.kind, e)
      BY <3>2 DEF T2
    <3>6. Survives(T2, h, After(h, e), k, main.call)
      BY <3>1, <3>3, <3>4, <3>5, TokenProcessed
    <3> QED BY <3>6 DEF T2, d, Survives
  <2>8. /\ handlers' \in [Keys -> Handler \cup {NoHandler}]
        /\ handlers'[k] = (IF IsComplete(d) THEN NoHandler ELSE d)
        /\ \A l \in Keys : l # k => handlers'[l] = handlers[l]
    BY <1>3, <1>5, <2>7 DEF IInv, TypeOK
  <2>9. Used' = (IF IsComplete(d) THEN Used \ {k} ELSE Used) /\ Used' \subseteq Used
    <3>1. NoHandler \notin Handler
      BY Typed DEF IInv
    <3> QED BY <1>3, <2>7, <2>8, <3>1 DEF Used
  <2>10. TypeOK'
    <3>1. pc' \in [Threads -> {"next", "count", "process", "left"}] /\ event' \in [Threads -> Event \cup {NoEvent}]
      BY <1>5 DEF IInv, TypeOK
    <3>2. \A u \in Threads : IF pc'[u] = "process" THEN event'[u] \in Event ELSE event'[u] = NoEvent
      BY <1>5 DEF IInv, TypeOK
    <3> QED BY <1>1, <2>3, <2>8, <3>1, <3>2 DEF IInv, TypeOK, Script
  <2>11. TokensOK'
    <3>1. \A z \in Tokens' : z[3].key \in Used'
      <4>1. \A z \in Tokens' : z[3].key \in Used
        BY <1>3, <2>6 DEF IInv, TokensOK
      <4> QED BY <2>7, <2>9, <4>1
    <3>2. ASSUME NEW l \in Used' PROVE HandlerOK(Tokens', handlers'[l], l, main'.call)
      <4>1. CASE l = k
        BY <1>1, <2>7, <2>8, <2>9, <4>1
      <4>2. CASE l # k
        <5>1. HandlerOK(Tokens, handlers[l], l, main.call) /\ handlers[l].call \in Nat /\ l \in Keys
          BY <2>9, Typed DEF IInv, TokensOK
        <5>2. \A z \in Tokens' : z[3].key = l => z \in Tokens
          BY <2>6, <4>2
        <5> QED BY <1>1, <1>3, <2>8, <4>2, <5>1, <5>2, FewerTokens
      <4> QED BY <4>1, <4>2
    <3> QED BY <3>1, <3>2 DEF TokensOK
  <2>12. CallsOK'
    <3>1. \A l \in Used' : l \in Used /\ handlers'[l].call = handlers[l].call
      BY <2>7, <2>8, <2>9, Typed DEF IInv, h
    <3> QED BY <1>1, <3>1 DEF IInv, CallsOK
  <2>13. MainOK'
    <3>1. Kind' = Kind
      BY <1>1 DEF Kind, Script
    <3>2. CASE main.pc \in Busy /\ main.key = k
      <4>1. main.pc # "start" /\ h.call = main.call /\ h.kind = Kind
        BY <1>2, <3>2 DEF IInv, MainOK, h
      <4>2. Kind \in Streams /\ (main.pc = "finish" => Kind = "speak")
        BY <3>2, <4>1 DEF IInv, MainOK, Busy, Streams
      <4>3. ~IsComplete(d) /\ Used' = Used /\ handlers'[k] = d
        BY <1>3, <2>7, <2>8, <2>9, <4>1, <4>2
      <4>4. ASSUME main.pc = "finish"
            PROVE  ~d.finish /\ \A z \in Tokens' : z[3].key = k => z[3].tag \notin {"READ", "FINISH"}
        <5>1. h.kind = "speak" /\ ~h.finish /\ e.tag # "FINISH"
          BY <1>2, <3>2, <4>1, <4>2, <4>4 DEF IInv, MainOK, h
        <5>2. d.finish = (h.finish \/ e.tag = "FINISH"
                           \/ (h.kind \in {"listen", "talk"} /\ e.tag = "START_CALL" /\ ~e.ok))
          BY <1>3 DEF d, After, Handler
        <5>3. \A z \in Tokens' : z \in Tokens
          BY <2>1, <2>6, <5>1
        <5>4. \A z \in Tokens : z[3].key = k => z[3].tag \notin {"READ", "FINISH"}
          BY <3>2, <4>4 DEF IInv, MainOK
        <5> QED BY <5>1, <5>2, <5>3, <5>4
      <4> QED BY <1>1, <1>3, <2>7, <3>1, <3>2, <4>1, <4>2, <4>3, <4>4 DEF MainOK
    <3>3. CASE main.pc \in Busy /\ main.key # k
      <4>1. main.key \in Used' /\ handlers'[main.key] = handlers[main.key]
        BY <2>8, <2>9, <3>3 DEF IInv, TypeOK, MainOK
      <4>2. \A z \in Tokens' : z[3].key = main.key => z \in Tokens
        BY <2>6, <3>3
      <4> QED BY <1>1, <3>1, <3>3, <4>1, <4>2 DEF IInv, MainOK
    <3>4. CASE main.pc \notin Busy
      BY <1>1, <3>4 DEF MainOK, Busy
    <3> QED BY <3>2, <3>3, <3>4
  <2> QED BY <2>10, <2>11, <2>12, <2>13 DEF IInv
<1> QED BY <1>4, <1>5 DEF Process, After

\* A poll that times out, and the count that follows it.
LEMMA PollInv ==
    ASSUME IInv, NEW t \in Threads, NextTimeout(t) \/ Count(t), UNCHANGED env
    PROVE  IInv'
<1>1. /\ UNCHANGED <<handlers, lastKey, cqIdx, main, event, ops, events>>
      /\ pc[t] # "process" /\ \E next \in {"next", "count", "left"} : pc' = [pc EXCEPT ![t] = next]
    BY DEF NextTimeout, Count
<1>2. /\ pc' \in [Threads -> {"next", "count", "process", "left"}]
      /\ \A u \in Threads : pc'[u] = "process" <=> pc[u] = "process"
    BY <1>1 DEF IInv, TypeOK
<1>3. TypeOK'
    BY <1>1, <1>2 DEF IInv, TypeOK, Script
<1>4. ASSUME NEW x \in Tokens' PROVE x \in Tokens
  <2>1. \/ \E op \in ops' : x = AtGrpc(op)
        \/ \E u \in Threads : \E e \in events'[u] : x = Queued(u, e)
        \/ \E u \in Threads : pc'[u] = "process" /\ x = InHand(u, event'[u])
    BY TokenIn DEF Tokens
  <2>2. \/ \E op \in ops : x = AtGrpc(op)
        \/ \E u \in Threads : \E e \in events[u] : x = Queued(u, e)
        \/ \E u \in Threads : pc[u] = "process" /\ x = InHand(u, event[u])
    BY <1>1, <1>2, <2>1
  <2> QED BY <2>2, TokenIn DEF Tokens
<1> QED BY <1>1, <1>3, <1>4, SameInv

\* There are no tokens at first.
LEMMA InitInv == Init => IInv
<1> SUFFICES ASSUME Init PROVE IInv
    OBVIOUS
<1>1. \A x : x \notin Tokens
    BY TokenIn DEF Init, Tokens
<1>2. Used = {}
    BY DEF Init, Used
<1>3. 0 \in Keys /\ 0 \in Threads
    BY KeySpaceAssumption, ClientAssumption DEF Keys, Threads
<1>4. 1 \in 1..Len(Script)
  <2>1. Script \in Seq(AllKinds) /\ Script # <<>>
    BY ClientAssumption DEF Init, Script
  <2> QED BY <2>1
<1>5. TypeOK
    BY <1>3, <1>4 DEF Init, TypeOK, Busy
<1>6. main.pc = "prepare"
    BY DEF Init
<1> QED BY <1>1, <1>2, <1>5, <1>6 DEF IInv, TokensOK, CallsOK, MainOK, Busy

\* Every step keeps the invariant.
LEMMA NextInv == IInv /\ [Next]_vars => IInv'
<1> SUFFICES ASSUME IInv, [Next]_vars PROVE IInv'
    OBVIOUS
<1>1. CASE MainStep
  <2>1. ASSUME NEW kind \in UnaryKinds, StartUnary(kind) PROVE IInv'
    BY <1>1, <2>1, StartUnaryInv DEF MainStep
  <2>2. SayHello \/ SayHelloAgain \/ SayGoodbye \/ SayGoodbyeAgain \/ Greet
        => \E kind \in UnaryKinds : StartUnary(kind)
    BY DEF SayHello, SayHelloAgain, SayGoodbye, SayGoodbyeAgain, Greet, UnaryKinds
  <2> QED BY <1>1, <2>1, <2>2, PrepareInv, StartListenInv, StartStreamInv, StartFinishInv, WriteInv,
             CloseInv DEF MainStep
<1>2. CASE \E t \in Threads : ThreadStep(t)
    BY <1>2, NextEventInv, PollInv, ProcessInv DEF ThreadStep
<1>3. CASE \E op \in ops : Complete(op)
    BY <1>3, CompleteInv
<1>4. CASE (\E c \in 1..Len(Script) : ServerEnds(c)) \/ Ended \/ UNCHANGED vars
  <2>1. UNCHANGED <<handlers, lastKey, cqIdx, main, pc, event, ops, events, env>>
    BY <1>4 DEF ServerEnds, Ended, vars
  <2>2. TypeOK' /\ Tokens' = Tokens
    BY <2>1 DEF IInv, TypeOK, Script, Tokens
  <2> QED BY <2>1, <2>2, SameInv
<1> QED BY <1>1, <1>2, <1>3, <1>4 DEF Next

\* The invariant holds throughout.
LEMMA Invariant == Spec => []IInv
BY InitInv, NextInv, PTL DEF Spec

-----------------------------------------------------------------------------
\* The tokens of a call are its outstanding operations.
LEMMA OutstandingIsTokens ==
    ASSUME IInv, NEW c \in Nat \ {0}, NEW tag \in Outstanding(c)
    PROVE  \E x \in Tokens : x[3].call = c /\ x[3].tag = tag
<1>1. \/ \E op \in ops : op.call = c /\ op.tag = tag
      \/ \E t \in Threads : \E e \in events[t] : e.call = c /\ e.tag = tag
      \/ \E t \in Threads : event[t].call = c /\ event[t].tag = tag
  <2> DEFINE A == {op.tag : op \in {o \in ops : o.call = c}}
             B == UNION {{e.tag : e \in {x \in events[t] : x.call = c}} : t \in Threads}
             C == {event[t].tag : t \in {u \in Threads : event[u].call = c}}
  <2>1. tag \in A => \E op \in ops : op.call = c /\ op.tag = tag
    OBVIOUS
  <2>2. tag \in B => \E t \in Threads : \E e \in events[t] : e.call = c /\ e.tag = tag
    OBVIOUS
  <2>3. tag \in C => \E t \in Threads : event[t].call = c /\ event[t].tag = tag
    OBVIOUS
  <2>4. tag \in A \cup B \cup C
    BY DEF Outstanding
  <2> HIDE DEF A, B, C
  <2> QED BY <2>1, <2>2, <2>3, <2>4
<1>2. CASE \E op \in ops : op.call = c /\ op.tag = tag
    BY <1>2, TokenIn, Places DEF Tokens
<1>3. CASE \E t \in Threads : \E e \in events[t] : e.call = c /\ e.tag = tag
    BY <1>3, TokenIn, Places DEF Tokens
<1>4. CASE \E t \in Threads : event[t].call = c /\ event[t].tag = tag
  <2>1. PICK t \in Threads : event[t].call = c /\ event[t].tag = tag
    BY <1>4
  <2>2. pc[t] = "process"
    BY <2>1 DEF IInv, TypeOK, NoEvent
  <2>3. InHand(t, event[t]) \in Tokens /\ InHand(t, event[t])[3] = event[t]
    BY <2>2, TokenIn, Places, Zenon DEF Tokens
  <2> QED BY <2>1, <2>3
<1> QED BY <1>1, <1>2, <1>3, <1>4

\* A token finds the handler of its call.
LEMMA TokenHasItsHandler ==
    ASSUME IInv, NEW x \in Tokens
    PROVE  x[3].key \in Used /\ handlers[x[3].key].call = x[3].call
BY DEF IInv, TokensOK, HandlerOK

\* Nobody is left with a call that is gone: for any script, pool and key space,
\* the writer's call is in the table until its close() is handled, and every
\* event finds the handler of its own call.
THEOREM CallsStayAlive == Spec => []CallAlive
<1>1. IInv => CallAlive
  <2> SUFFICES ASSUME IInv PROVE CallAlive
    OBVIOUS
  <2>1. main.pc = "write" => main.key \in Used /\ handlers[main.key].call = main.call
    BY DEF IInv, MainOK, Busy
  <2> DEFINE HasOne(c) ==
               \E k \in Used : /\ handlers[k].call = c
                               /\ \A op \in ops : op.call = c => op.key = k
                               /\ \A t \in Threads : \A e \in events[t] : e.call = c => e.key = k
  <2>2. ASSUME NEW c \in 1..Len(Script), Outstanding(c) # {}
        PROVE  HasOne(c)
    <3>1. c \in Nat \ {0}
      BY Typed DEF IInv
    <3>2. PICK x \in Tokens : x[3].call = c
      BY <2>2, <3>1, OutstandingIsTokens
    <3> DEFINE k == x[3].key
    <3>3. k \in Used /\ handlers[k].call = c
      BY <3>2, TokenHasItsHandler
    <3>4. \A y \in Tokens : y[3].call = c => y[3].key = k
      BY <3>3, TokenHasItsHandler DEF IInv, CallsOK
    <3> HIDE DEF k
    <3>5. ASSUME NEW op \in ops, op.call = c PROVE op.key = k
      <4>1. AtGrpc(op) \in Tokens /\ AtGrpc(op)[3] = op
        BY TokenIn, Places DEF Tokens
      <4> QED BY <3>4, <3>5, <4>1
    <3>6. ASSUME NEW t \in Threads, NEW e \in events[t], e.call = c PROVE e.key = k
      <4>1. Queued(t, e) \in Tokens /\ Queued(t, e)[3] = e
        BY TokenIn, Places, Zenon DEF Tokens
      <4> QED BY <3>4, <3>6, <4>1
    <3> QED BY <3>3, <3>5, <3>6
  <2>3. \A c \in 1..Len(Script) : Outstanding(c) # {} => HasOne(c)
    BY <2>2
  <2> QED BY <2>1, <2>3 DEF CallAlive
<1> QED BY <1>1, Invariant, PTL

\* A stream never has two of StartCall, Write and WritesDone under way, however
\* many words are written, and release() never meets a full semaphore.
THEOREM WritesTakeTurns == Spec => []OneWriteAtATime
<1>1. IInv => OneWriteAtATime
  <2> SUFFICES ASSUME IInv, NEW c \in 1..Len(Script)
               PROVE  LET writes == Outstanding(c) \cap {"START_CALL", "WRITE", "WRITE_DONE"} IN
                      /\ Cardinality(writes) <= 1
                      /\ \A k \in Used : handlers[k].call = c /\ handlers[k].kind \in Streams
                                            /\ handlers[k].canWrite = 1 => writes = {}
    BY DEF OneWriteAtATime
  <2> DEFINE writes == Outstanding(c) \cap {"START_CALL", "WRITE", "WRITE_DONE"}
  <2>1. c \in Nat \ {0}
    BY Typed DEF IInv
  <2>2. \A tag \in writes : tag \in Writing /\ \E x \in Tokens : x[3].call = c /\ x[3].tag = tag
    BY <2>1, OutstandingIsTokens DEF Writing
  <2> HIDE DEF writes
  <2>3. \A a, b \in writes : a = b
    <3> SUFFICES ASSUME NEW a \in writes, NEW b \in writes PROVE a = b
      OBVIOUS
    <3>1. PICK x \in Tokens : x[3].call = c /\ x[3].tag = a
      BY <2>2
    <3>2. PICK y \in Tokens : y[3].call = c /\ y[3].tag = b
      BY <2>2
    <3>3. x[3].key \in Used /\ x[3].key = y[3].key
      BY <3>1, <3>2, TokenHasItsHandler DEF IInv, CallsOK
    <3>4. x = y
      BY <2>2, <3>1, <3>2, <3>3 DEF IInv, TokensOK, HandlerOK
    <3> QED BY <3>1, <3>2, <3>4
  <2>4. Cardinality(writes) <= 1
    <3>1. CASE writes = {}
      BY <3>1, FS_EmptySet
    <3>2. CASE writes # {}
      <4>1. PICK a \in writes : writes = {a}
        BY <2>3, <3>2
      <4>2. Cardinality({a}) = 1
        BY FS_Singleton, Zenon
      <4> QED BY <4>1, <4>2
    <3> QED BY <3>1, <3>2
  <2>5. ASSUME NEW k \in Used, handlers[k].call = c, handlers[k].kind \in Streams, handlers[k].canWrite = 1
        PROVE  writes = {}
    <3> SUFFICES ASSUME NEW a \in writes PROVE FALSE
      OBVIOUS
    <3>1. PICK x \in Tokens : x[3].call = c /\ x[3].tag = a
      BY <2>2
    <3>2. x[3].key = k
      BY <2>5, <3>1, TokenHasItsHandler DEF IInv, CallsOK
    <3> QED BY <2>2, <2>5, <3>1, <3>2 DEF IInv, TokensOK, HandlerOK
  <2> QED BY <2>4, <2>5 DEF writes
<1> QED BY <1>1, Invariant, PTL
=============================================================================
