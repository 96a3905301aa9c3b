---------------------------- MODULE ClientTokens -----------------------------
(***************************************************************************)
(* CallAlive and OneWriteAtATime of ClientProactor for every program, pool *)
(* size and key space.  The argument is about tokens: an operation gRPC    *)
(* has, an event in a queue and the event a thread is handling are one and *)
(* the same token on its way, and a step moves a token, adds one or turns  *)
(* one into the next.  Every fact of the invariant says that some token    *)
(* does not exist, so a step has to be checked only for the token it makes.*)
(***************************************************************************)
EXTENDS ClientProactor, TLAPS

Handler == [kind : AllKinds, call : Nat, finish : BOOLEAN, closed : BOOLEAN, canWrite : {0, 1}]
Tags == {"START_CALL", "READ", "WRITE", "WRITE_DONE", "FINISH"}
Operation == [key : Keys, call : Nat \ {0}, tag : Tags, cq : Threads]
Event == [key : Keys, call : Nat \ {0}, tag : Tags, ok : BOOLEAN]

Busy == {"start", "finish", "write"}

TypeOK ==
    /\ env \in Envs
    /\ handlers \in [Keys -> Handler \cup {NoHandler}]
    /\ lastKey \in Keys /\ cqIdx \in Nat
    /\ main \in [pc : Busy \cup {"prepare", "join"}, call : Nat \ {0}, key : Keys,
                 cq : Threads, written : Nat]
    /\ main.pc # "join" => main.call \in 1..Len(Script)
    /\ pc \in [Threads -> {"next", "count", "process", "left"}]
    /\ event \in [Threads -> Event \cup {NoEvent}]
    /\ \A t \in Threads : IF pc[t] = "process" THEN event[t] \in Event ELSE event[t] = NoEvent
    /\ ops \in SUBSET Operation
    /\ events \in [Threads -> SUBSET Event]

\* Where a token is: with gRPC, in a queue, in the hands of a thread.
AtGrpc(op) == <<"grpc", 0, op>>
Queued(t, e) == <<"queue", t, e>>
InHand(t, e) == <<"hand", t, e>>

GrpcTokens(operations) == {AtGrpc(op) : op \in operations}
QueueTokens(queues) == UNION {{Queued(t, e) : e \in queues[t]} : t \in Threads}
HandTokens(at, hand) == {InHand(t, hand[t]) : t \in {u \in Threads : at[u] = "process"}}
TokenSet(operations, queues, at, hand) ==
    GrpcTokens(operations) \cup QueueTokens(queues) \cup HandTokens(at, hand)
Tokens == TokenSet(ops, events, pc, event)

Writing == {"START_CALL", "WRITE", "WRITE_DONE"}

\* The tags that follow one another, up to FINISH, in a call of this kind.
Chain(kind) == IF kind \in {"listen", "talk"} THEN {"START_CALL", "READ", "FINISH"}
               ELSE {"READ", "FINISH"}

Allowed(kind) ==
    IF kind \in UnaryKinds THEN {"FINISH"}
    ELSE IF kind = "listen" THEN {"START_CALL", "READ", "FINISH"}
    ELSE IF kind = "speak" THEN {"START_CALL", "WRITE", "WRITE_DONE", "FINISH"} ELSE Tags

\* The handler h of key k and the tokens T, when the main thread is at call m.
HandlerOK(T, h, k, m) ==
    /\ \A x \in T : x[3].key = k => x[3].call = h.call /\ x[3].tag \in Allowed(h.kind)
    /\ \A x, y \in T :
        /\ x[3].key = k /\ y[3].key = k
        /\ \/ x[3].tag \in Writing /\ y[3].tag \in Writing
           \/ x[3].tag \in Chain(h.kind) /\ y[3].tag \in Chain(h.kind)
        => x = y
    /\ h.kind \in Streams /\ h.canWrite = 1 => \A x \in T : x[3].key = k => x[3].tag \notin Writing
    /\ h.closed => /\ h.kind \in Streams /\ h.call < m
                   /\ \A x \in T : x[3].key = k => x[3].tag \notin Writing
    /\ h.finish => \A x \in T : x[3].key = k => x[3].tag \notin Chain(h.kind)
    /\ \A x \in T : x[3].key = k /\ x[3].tag = "WRITE_DONE" => h.call < m

\* What the main thread knows of the call it is making.
MainOK ==
    /\ main.pc \in Busy => /\ main.key \in Used
                           /\ handlers[main.key].call = main.call /\ handlers[main.key].kind = Kind
    /\ main.pc = "start" => /\ ~handlers[main.key].finish /\ ~handlers[main.key].closed
                            /\ \A x \in Tokens : x[3].key # main.key
    /\ main.pc = "finish" => /\ Kind = "speak" /\ ~handlers[main.key].finish
                             /\ \A x \in Tokens : x[3].key = main.key => x[3].tag \notin {"READ", "FINISH"}
    /\ main.pc = "write" => Kind \in Streams

\* Calls have handlers of their own, made in the order of the script.
CallsOK ==
    /\ \A k, l \in Used : handlers[k].call = handlers[l].call => k = l
    /\ \A k \in Used : /\ handlers[k].call <= main.call
                       /\ handlers[k].call = main.call => main.pc \in Busy

TokensOK ==
    /\ \A x \in Tokens : x[3].key \in Used
    /\ \A k \in Used : HandlerOK(Tokens, handlers[k], k, main.call)

IInv == TypeOK /\ TokensOK /\ CallsOK /\ MainOK

-----------------------------------------------------------------------------
\* What happens to tokens, without the variables

\* A handler is not concerned by the tokens of other keys, nor by fewer of its own.
LEMMA FewerTokens ==
    ASSUME NEW T1, NEW T2, NEW h, h.call \in Nat, NEW k, NEW m1 \in Nat, NEW m2 \in Nat, m1 <= m2,
           HandlerOK(T1, h, k, m1), \A x \in T2 : x[3].key = k => x \in T1
    PROVE  HandlerOK(T2, h, k, m2)
BY DEF HandlerOK

\* A token moves on.
LEMMA TokenMoves ==
    ASSUME NEW T1, NEW T2, NEW h, NEW k, NEW m, HandlerOK(T1, h, k, m),
           NEW x \in T1, NEW y,
           x[3].key = y[3].key, x[3].call = y[3].call, x[3].tag = y[3].tag,
           \A z \in T2 : z = y \/ (z \in T1 /\ z # x)
    PROVE  HandlerOK(T2, h, k, m)
BY DEF HandlerOK

\* Handler h, which becomes g, may get token y: nothing of its class is under way.
MayAdd(T, h, g, k, m, y) ==
    /\ y[3].key = k /\ y[3].call = h.call /\ y[3].tag \in Allowed(h.kind)
    /\ g.call = h.call /\ g.kind = h.kind /\ g.finish = h.finish /\ g.closed = h.closed
    /\ y[3].tag = "WRITE_DONE" => h.call < m
    /\ y[3].tag \in Writing => /\ g.kind \in Streams => g.canWrite # 1
                               /\ ~h.closed
                               /\ \A z \in T : z[3].key = k => z[3].tag \notin Writing
    /\ y[3].tag \notin Writing => g.canWrite = h.canWrite
    /\ y[3].tag \in Chain(h.kind) => /\ ~h.finish
                                     /\ \A z \in T : z[3].key = k => z[3].tag \notin Chain(h.kind)

\* The handler of a token that was added is as it must be.
LEMMA TokenAdded ==
    ASSUME NEW T1, NEW T2, NEW h, h.call \in Nat, NEW g, NEW k, NEW m1 \in Nat, NEW m2 \in Nat, m1 <= m2,
           HandlerOK(T1, h, k, m1), NEW y, MayAdd(T1, h, g, k, m2, y), T2 \subseteq T1 \cup {y}
    PROVE  HandlerOK(T2, g, k, m2)
<1>1. \A z \in T2 : z = y \/ z \in T1
    OBVIOUS
<1> USE DEF MayAdd
<1>2. \A x \in T2 : x[3].key = k => x[3].call = g.call /\ x[3].tag \in Allowed(g.kind)
    BY <1>1 DEF HandlerOK
<1>3. ASSUME NEW x \in T2, NEW z \in T2, x[3].key = k, z[3].key = k,
             \/ x[3].tag \in Writing /\ z[3].tag \in Writing
             \/ x[3].tag \in Chain(g.kind) /\ z[3].tag \in Chain(g.kind)
      PROVE  x = z
  <2>1. CASE x \in T1 /\ z \in T1
    BY <1>3, <2>1 DEF HandlerOK
  <2>2. CASE x = y /\ z \in T1
    BY <1>3, <2>2
  <2>3. CASE x \in T1 /\ z = y
    BY <1>3, <2>3
  <2> QED BY <1>1, <2>1, <2>2, <2>3
<1>4. g.kind \in Streams /\ g.canWrite = 1 => \A x \in T2 : x[3].key = k => x[3].tag \notin Writing
    BY <1>1 DEF HandlerOK
<1>5. g.closed => /\ g.kind \in Streams /\ g.call < m2
                  /\ \A x \in T2 : x[3].key = k => x[3].tag \notin Writing
    BY <1>1 DEF HandlerOK
<1>6. g.finish => \A x \in T2 : x[3].key = k => x[3].tag \notin Chain(g.kind)
    BY <1>1 DEF HandlerOK
<1>7. \A x \in T2 : x[3].key = k /\ x[3].tag = "WRITE_DONE" => g.call < m2
    BY <1>1 DEF HandlerOK
<1> HIDE DEF MayAdd
<1> QED BY <1>2, <1>3, <1>4, <1>5, <1>6, <1>7 DEF HandlerOK

\* The handler once process() has run.
After(h, e) ==
    [h EXCEPT
        !.finish = @ \/ e.tag = "FINISH"
                     \/ (h.kind \in {"listen", "talk"} /\ e.tag = "START_CALL" /\ ~e.ok),
        !.closed = @ \/ Closes(e),
        !.canWrite = IF Releases(h.kind, e.tag) THEN 1 ELSE @]

\* Token x of event e is gone, and gRPC has the one process() starts, if any.
Turned(T1, T2, x, kind, e) ==
    /\ x \notin T2
    /\ \A z \in T2 :
        \/ z \in T1
        \/ \E tag \in Started(kind, e) :
            /\ z[3].key = e.key /\ z[3].call = e.call /\ z[3].tag = tag
            /\ \A w \in T2 : w[3].key = e.key /\ w[3].tag = tag /\ w \notin T1 => w = z

\* The handler once process() has run and, if it is complete, remove().
Survives(T, h, d, k, m) ==
    /\ d \in Handler /\ d.kind = h.kind /\ d.call = h.call
    /\ ~IsComplete(d) => HandlerOK(T, d, k, m)
    /\ IsComplete(d) => /\ \A z \in T : z[3].key # k
                        /\ h.kind \in Streams => h.call < m

\* process() takes the token of event e from its thread's hands and hands gRPC the
\* one it starts: the handler stays as it must be, or is removed with no token left.
LEMMA TokenProcessed ==
    ASSUME NEW T1, NEW T2, NEW h \in Handler, NEW k, NEW m \in Nat, HandlerOK(T1, h, k, m),
           NEW e \in Event, e.key = k, NEW x \in T1, x[3] = e, Turned(T1, T2, x, h.kind, e)
    PROVE  Survives(T2, h, After(h, e), k, m)
<1> USE DEF Turned
<1> DEFINE d == After(h, e)
<1>1. /\ d \in Handler /\ d.kind = h.kind /\ d.call = h.call
      /\ d.finish = (h.finish \/ e.tag = "FINISH"
                       \/ (h.kind \in {"listen", "talk"} /\ e.tag = "START_CALL" /\ ~e.ok))
      /\ d.closed = (h.closed \/ e.tag = "WRITE_DONE")
      /\ d.canWrite = IF h.kind \in Streams /\ e.tag \in {"START_CALL", "WRITE"} THEN 1 ELSE h.canWrite
    BY Zenon DEF After, Handler, Closes, Releases
<1>2. h.kind \in AllKinds /\ e.tag \in Tags /\ e.ok \in BOOLEAN /\ h.call \in Nat
    BY DEF Handler, Event
<1>3. /\ e.tag \in Allowed(h.kind) /\ e.call = h.call
      /\ h.closed => h.kind \in Streams /\ h.call < m /\ e.tag \notin Writing
      /\ h.finish => e.tag \notin Chain(h.kind)
      /\ e.tag = "WRITE_DONE" => h.call < m
    BY DEF HandlerOK
<1>4. \A z \in T1 : z[3].key = k /\ z # x
        => /\ z[3].tag \in Allowed(h.kind) /\ z[3].call = h.call
           /\ e.tag \in Writing => z[3].tag \notin Writing
           /\ e.tag \in Chain(h.kind) => z[3].tag \notin Chain(h.kind)
           /\ h.closed => z[3].tag \notin Writing
           /\ h.finish => z[3].tag \notin Chain(h.kind)
           /\ h.kind \in Streams /\ h.canWrite = 1 => z[3].tag \notin Writing
           /\ z[3].tag = "WRITE_DONE" => h.call < m
    BY DEF HandlerOK
<1>5. \A z, w \in T1 : z[3].key = k /\ w[3].key = k
        /\ (\/ z[3].tag \in Writing /\ w[3].tag \in Writing
            \/ z[3].tag \in Chain(h.kind) /\ w[3].tag \in Chain(h.kind)) => z = w
    BY DEF HandlerOK
<1>6. \A tag \in Started(h.kind, e) :
        /\ tag \in {"READ", "FINISH"} /\ tag \in Chain(h.kind) /\ e.tag \in Chain(h.kind)
        /\ h.kind \in {"listen", "talk"} /\ ~h.finish /\ ~d.finish /\ tag \in Allowed(h.kind)
    BY <1>1, <1>2, <1>3, Zenon DEF Started, Chain, Allowed, Tags, UnaryKinds
<1> HIDE DEF d
<1>7. ASSUME IsComplete(d)
      PROVE  (\A z \in T2 : z[3].key # k) /\ (h.kind \in Streams => h.call < m)
  <2>1. CASE h.kind \in UnaryKinds
    <3>1. Started(h.kind, e) = {} /\ h.kind \notin Streams /\ e.tag = "FINISH"
      BY <1>3, <2>1 DEF Started, UnaryKinds, Streams, Allowed
    <3> QED BY <1>4, <2>1, <3>1 DEF Allowed, Chain, UnaryKinds
  <2>2. CASE h.kind = "listen"
    <3>1. d.finish /\ h.kind \notin UnaryKinds
      BY <1>1, <1>7, <2>2 DEF IsComplete, UnaryKinds
    <3>2. Started(h.kind, e) = {} /\ h.kind \notin Streams /\ e.tag \in Chain(h.kind)
      BY <1>3, <1>6, <2>2, <3>1 DEF Streams, Chain, Allowed, UnaryKinds
    <3> QED BY <1>4, <2>2, <3>1, <3>2 DEF Allowed, Chain
  <2>3. CASE h.kind \in Streams
    <3>1. d.finish /\ d.closed /\ h.kind \notin UnaryKinds
      BY <1>1, <1>7, <2>3 DEF IsComplete, UnaryKinds, Streams
    <3>2. Started(h.kind, e) = {}
      BY <1>6, <3>1
    <3>3. h.call < m
      BY <1>1, <1>3, <3>1, Zenon
    <3>4. (e.tag = "FINISH" /\ h.closed) \/ (e.tag = "WRITE_DONE" /\ h.finish)
      BY <1>1, <1>2, <1>3, <2>3, <3>1, Zenon DEF Chain, Writing, Tags, Streams, Allowed, UnaryKinds
    <3>5. \A tag \in Allowed(h.kind) : tag \in Writing \/ tag \in Chain(h.kind)
      BY <2>3 DEF Allowed, Chain, Writing, Tags, Streams, UnaryKinds
    <3> QED BY <1>4, <3>2, <3>3, <3>4, <3>5 DEF Chain, Writing
  <2> QED BY <1>2, <2>1, <2>2, <2>3 DEF AllKinds, Streams
<1>8. HandlerOK(T2, d, k, m)
  <2>1. \A z \in T2 : z[3].key = k => z[3].call = d.call /\ z[3].tag \in Allowed(d.kind)
    BY <1>1, <1>3, <1>4, <1>6
  <2>2. ASSUME NEW z \in T2, NEW w \in T2, z[3].key = k, w[3].key = k,
               \/ z[3].tag \in Writing /\ w[3].tag \in Writing
               \/ z[3].tag \in Chain(h.kind) /\ w[3].tag \in Chain(h.kind)
        PROVE  z = w
    <3>1. CASE z \in T1 /\ w \in T1
      BY <1>5, <2>2, <3>1
    <3>2. CASE z \notin T1 /\ w \in T1
      <4>1. PICK tag \in Started(h.kind, e) : z[3].tag = tag
        BY <3>2
      <4> QED BY <1>4, <1>6, <2>2, <3>2, <4>1 DEF Writing
    <3>3. CASE z \in T1 /\ w \notin T1
      <4>1. PICK tag \in Started(h.kind, e) : w[3].tag = tag
        BY <3>3
      <4> QED BY <1>4, <1>6, <2>2, <3>3, <4>1 DEF Writing
    <3>4. CASE z \notin T1 /\ w \notin T1
      <4>1. Started(h.kind, e) = {} \/ \E tag : Started(h.kind, e) = {tag}
        BY Zenon DEF Started
      <4> QED BY <2>2, <3>4, <4>1
    <3> QED BY <3>1, <3>2, <3>3, <3>4
  <2>3. d.kind \in Streams /\ d.canWrite = 1 => \A z \in T2 : z[3].key = k => z[3].tag \notin Writing
    BY <1>1, <1>4, <1>6 DEF Writing
  <2>4. d.closed => /\ d.kind \in Streams /\ d.call < m
                    /\ \A z \in T2 : z[3].key = k => z[3].tag \notin Writing
    <3>1. CASE h.closed
      BY <1>1, <1>3, <1>4, <1>6, <3>1 DEF Writing
    <3>2. CASE e.tag = "WRITE_DONE"
      <4>1. h.kind \in Streams /\ "WRITE_DONE" \in Writing
        BY <1>2, <1>3, <3>2 DEF Writing, Streams, Allowed, UnaryKinds, AllKinds
      <4>2. \A z \in T2 : z[3].key = k => z[3].tag \notin Writing
        BY <1>4, <1>6, <3>2, <4>1 DEF Writing
      <4> QED BY <1>1, <1>3, <3>2, <4>1, <4>2
    <3> QED BY <1>1, <3>1, <3>2
  <2>5. d.finish => \A z \in T2 : z[3].key = k => z[3].tag \notin Chain(d.kind)
    BY <1>1, <1>4, <1>6, Zenon DEF Chain
  <2>6. \A z \in T2 : z[3].key = k /\ z[3].tag = "WRITE_DONE" => d.call < m
    BY <1>1, <1>4, <1>6
  <2> QED BY <1>1, <2>1, <2>2, <2>3, <2>4, <2>5, <2>6 DEF HandlerOK
<1> QED BY <1>1, <1>7, <1>8 DEF d, Survives

-----------------------------------------------------------------------------
\* Tokens and types in a state

\* A token is with gRPC, in a queue or in hand.
LEMMA TokenIn ==
    ASSUME NEW operations, NEW queues, NEW at, NEW hand, NEW x
    PROVE  x \in TokenSet(operations, queues, at, hand)
           <=> \/ \E op \in operations : x = AtGrpc(op)
               \/ \E t \in Threads : \E e \in queues[t] : x = Queued(t, e)
               \/ \E t \in Threads : at[t] = "process" /\ x = InHand(t, hand[t])
<1>1. x \in GrpcTokens(operations) <=> \E op \in operations : x = AtGrpc(op)
    BY DEF GrpcTokens
<1>2. x \in QueueTokens(queues) <=> \E t \in Threads : \E e \in queues[t] : x = Queued(t, e)
    BY DEF QueueTokens
<1>3. x \in HandTokens(at, hand) <=> \E t \in Threads : at[t] = "process" /\ x = InHand(t, hand[t])
    BY DEF HandTokens
<1> QED BY <1>1, <1>2, <1>3 DEF TokenSet

\* The places of tokens are apart.
LEMMA Places ==
    ASSUME NEW x, NEW t, NEW y, NEW u
    PROVE  /\ AtGrpc(x)[3] = x /\ Queued(t, x)[3] = x /\ InHand(t, x)[3] = x
           /\ AtGrpc(x) # Queued(t, y) /\ AtGrpc(x) # InHand(t, y) /\ Queued(t, x) # InHand(u, y)
           /\ AtGrpc(x) = AtGrpc(y) => x = y
           /\ Queued(t, x) = Queued(u, y) => t = u /\ x = y
           /\ InHand(t, x) = InHand(u, y) => t = u /\ x = y
BY DEF AtGrpc, Queued, InHand

\* What the types say of handlers and of the main thread.
LEMMA Typed ==
    ASSUME TypeOK
    PROVE  /\ \A k \in Used : k \in Keys /\ handlers[k] \in Handler /\ handlers[k].call \in Nat
           /\ main.pc # "join" => Kind \in AllKinds
           /\ main.call \in Nat \ {0} /\ main.key \in Keys /\ main.cq \in Threads
           /\ Len(Script) \in Nat /\ NoHandler \notin Handler
<1>1. Script \in Seq(AllKinds) /\ NoHandler \notin Handler
    BY ClientAssumption DEF TypeOK, Script, Handler
<1>2. Len(Script) \in Nat /\ (main.pc # "join" => Kind \in AllKinds)
    BY <1>1 DEF TypeOK, Kind
<1>3. \A k \in Used : k \in Keys /\ handlers[k] \in Handler /\ handlers[k].call \in Nat
    BY DEF TypeOK, Used, Handler
<1> QED BY <1>1, <1>2, <1>3 DEF TypeOK
=============================================================================
