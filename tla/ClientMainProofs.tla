-------------------------- MODULE ClientMainProofs ---------------------------
(***************************************************************************)
(* The steps of the client's main thread keep the invariant of ClientTokens*)
(***************************************************************************)
EXTENDS ClientTokens, EventHandlerManagerProofs

\* The step of the main thread that starts an operation with tag `tag`.
LEMMA MainOp ==
    ASSUME IInv, NEW tag \in Tags, main.pc \in Busy, tag \in Allowed(Kind),
           ops' = ops \cup {Op(tag)}, UNCHANGED <<pc, event, events>>,
           main'.call \in Nat, main.call <= main'.call,
           tag = "WRITE_DONE" => main.call < main'.call,
           IF tag \in Writing /\ Kind \in Streams THEN Acquire ELSE handlers' = handlers,
           tag \in Writing /\ Kind \notin Streams => main.pc = "start",
           tag \in Chain(Kind) => /\ ~handlers[main.key].finish
                                  /\ \A z \in Tokens : z[3].key = main.key => z[3].tag \notin Chain(Kind)
    PROVE  /\ ops' \in SUBSET Operation
           /\ handlers' \in [Keys -> Handler \cup {NoHandler}]
           /\ Used' = Used
           /\ \A k \in Used : /\ handlers'[k].call = handlers[k].call /\ handlers'[k].kind = handlers[k].kind
                              /\ handlers'[k].finish = handlers[k].finish
                              /\ handlers'[k].closed = handlers[k].closed
           /\ TokensOK'
           /\ \A z \in Tokens' : z = AtGrpc(Op(tag)) \/ z \in Tokens
<1> DEFINE k == main.key
           h == handlers[main.key]
           y == AtGrpc(Op(tag))
<1>1. /\ k \in Used /\ k \in Keys /\ h \in Handler /\ h.call = main.call /\ h.kind = Kind
      /\ HandlerOK(Tokens, h, k, main.call) /\ main.call \in Nat \ {0} /\ main.cq \in Threads
    BY Typed DEF IInv, MainOK, TokensOK
<1>2. Op(tag) \in Operation /\ Op(tag).key = k /\ Op(tag).call = main.call /\ Op(tag).tag = tag
    BY <1>1 DEF Op, Operation
<1>3. ops' \in SUBSET Operation
    BY <1>2 DEF IInv, TypeOK
<1>4. y[3] = Op(tag)
    BY Places
<1>5. \A z \in Tokens' : z = y \/ z \in Tokens
    BY TokenIn DEF Tokens
<1>6. /\ handlers' \in [Keys -> Handler \cup {NoHandler}]
      /\ \A l \in Keys : l # k => handlers'[l] = handlers[l]
      /\ handlers'[k] \in Handler /\ handlers'[k].call = h.call /\ handlers'[k].kind = h.kind
      /\ handlers'[k].finish = h.finish /\ handlers'[k].closed = h.closed
      /\ tag \in Writing /\ Kind \in Streams => h.canWrite = 1 /\ handlers'[k].canWrite = 0
      /\ ~(tag \in Writing /\ Kind \in Streams) => handlers'[k] = h
    BY <1>1 DEF IInv, TypeOK, Acquire, Handler
<1>7. Used' = Used /\ (\A l \in Used : l \in Keys /\ handlers[l] \in Handler)
    BY <1>1, <1>6, Typed DEF Used, IInv
<1>8. ~h.closed
    BY <1>1 DEF HandlerOK
<1>9. tag \in Writing => \A z \in Tokens : z[3].key = k => z[3].tag \notin Writing
  <2>1. CASE tag \in Writing /\ Kind \in Streams
    BY <1>1, <1>6, <2>1 DEF HandlerOK
  <2>2. CASE tag \in Writing /\ Kind \notin Streams
    BY <2>2 DEF IInv, MainOK
  <2> QED BY <2>1, <2>2
<1> HIDE DEF k, h, y
<1>10. HandlerOK(Tokens', handlers'[k], k, main'.call)
  <2>1. h.call \in Nat /\ y[3].key = k /\ y[3].call = h.call /\ y[3].tag = tag
    BY <1>1, <1>2, <1>4 DEF Handler
  <2>2. y[3].tag \in Writing => /\ handlers'[k].kind \in Streams => handlers'[k].canWrite # 1
                                /\ ~h.closed
                                /\ \A z \in Tokens : z[3].key = k => z[3].tag \notin Writing
    BY <1>1, <1>6, <1>8, <1>9, <2>1
  <2>3. y[3].tag \notin Writing => handlers'[k].canWrite = h.canWrite
    BY <1>6, <2>1
  <2>4. y[3].tag \in Chain(h.kind) =>
            /\ ~h.finish
            /\ \A z \in Tokens : z[3].key = k => z[3].tag \notin Chain(h.kind)
    BY <1>1, <2>1 DEF h, k
  <2>5. /\ y[3].tag = "WRITE_DONE" => h.call < main'.call
        /\ y[3].tag \in Allowed(h.kind)
    BY <1>1, <2>1
  <2>6. handlers'[k].call = h.call /\ handlers'[k].kind = h.kind
        /\ handlers'[k].finish = h.finish /\ handlers'[k].closed = h.closed
    BY <1>6
  <2>7. MayAdd(Tokens, h, handlers'[k], k, main'.call, y)
    BY <2>1, <2>2, <2>3, <2>4, <2>5, <2>6 DEF MayAdd
  <2>8. HandlerOK(Tokens, h, k, main.call) /\ main.call \in Nat /\ Tokens' \subseteq Tokens \cup {y}
    BY <1>1, <1>5
  <2> QED BY <2>1, <2>7, <2>8, TokenAdded
<1>11. ASSUME NEW l \in Used, l # k PROVE HandlerOK(Tokens', handlers'[l], l, main'.call)
  <2>1. HandlerOK(Tokens, handlers[l], l, main.call) /\ handlers[l].call \in Nat /\ handlers'[l] = handlers[l]
    BY <1>6, <1>7, <1>11 DEF IInv, TokensOK, Handler
  <2>2. \A z \in Tokens' : z[3].key = l => z \in Tokens
    BY <1>2, <1>4, <1>5, <1>11
  <2> QED BY <1>1, <2>1, <2>2, FewerTokens
<1>12. \A z \in Tokens' : z[3].key \in Used
    BY <1>1, <1>2, <1>4, <1>5 DEF IInv, TokensOK
<1>13. TokensOK'
    BY <1>7, <1>10, <1>11, <1>12 DEF TokensOK
<1>14. \A l \in Used : /\ handlers'[l].call = handlers[l].call /\ handlers'[l].kind = handlers[l].kind
                       /\ handlers'[l].finish = handlers[l].finish
                       /\ handlers'[l].closed = handlers[l].closed
    BY <1>6, <1>7 DEF h, k
<1> QED BY <1>3, <1>5, <1>6, <1>7, <1>13, <1>14 DEF y

\* prepareAsyncCall: a fresh handler under a free key, without tokens.
LEMMA PrepareInv ==
    ASSUME IInv, Prepare, UNCHANGED env
    PROVE  IInv'
<1> DEFINE key == AddKey(Used, lastKey)
           h == [kind |-> Kind, call |-> main.call, finish |-> FALSE, closed |-> FALSE, canWrite |-> 1]
<1>1. key \in Keys /\ key \notin Used
    BY AddKeyIsFree DEF IInv, TypeOK, Prepare
<1>2. h \in Handler /\ h.call = main.call /\ h.kind = Kind /\ main.call \in Nat /\ h # NoHandler
  <2>1. Kind \in AllKinds /\ main.call \in Nat /\ NoHandler \notin Handler
    BY Typed DEF IInv, Prepare
  <2>2. h \in Handler /\ h.call = main.call /\ h.kind = Kind
    BY <2>1 DEF Handler
  <2> QED BY <2>1, <2>2, Zenon
<1>3. /\ handlers' = [handlers EXCEPT ![key] = h] /\ lastKey' = key
      /\ main' = [main EXCEPT !.pc = "start", !.key = key, !.cq = cqIdx % PoolSize]
      /\ cqIdx' = (cqIdx + 1) % PoolSize /\ main.pc = "prepare"
      /\ UNCHANGED <<pc, event, ops, events>>
    BY DEF Prepare
<1> HIDE DEF key, h
<1>4. cqIdx' \in Nat /\ cqIdx % PoolSize \in Threads
    BY <1>3, ClientAssumption DEF IInv, TypeOK, Threads
<1>5. main'.pc = "start" /\ main'.key = key /\ main'.call = main.call /\ Tokens' = Tokens /\ Kind' = Kind
    BY <1>3 DEF IInv, TypeOK, Tokens, Kind, Script
<1>6. TypeOK'
    BY <1>1, <1>2, <1>3, <1>4, <1>5, Zenon DEF IInv, TypeOK, Script, Busy
<1>7. /\ \A l \in Keys : l # key => handlers'[l] = handlers[l]
      /\ handlers'[key] = h /\ Used' = Used \cup {key}
    BY <1>1, <1>2, <1>3 DEF IInv, TypeOK, Used
<1>8. \A x \in Tokens : x[3].key # key /\ x[3].key \in Used
    BY <1>1 DEF IInv, TokensOK
<1>9. HandlerOK(Tokens, h, key, main.call)
    BY <1>8 DEF HandlerOK, h
<1>10. TokensOK'
    BY <1>1, <1>5, <1>7, <1>8, <1>9 DEF IInv, TokensOK, Used
<1>11. CallsOK'
    BY <1>1, <1>2, <1>3, <1>5, <1>7 DEF IInv, CallsOK, Used, Busy
<1>12. MainOK'
  <2>1. ~h.finish /\ ~h.closed
    BY DEF h
  <2> QED BY <1>2, <1>5, <1>7, <1>8, <2>1 DEF MainOK, Busy
<1> QED BY <1>6, <1>10, <1>11, <1>12 DEF IInv

\* NextCall, after the last operation of a call was started.
LEMMA NextCallInv ==
    ASSUME IInv, main.pc \in Busy, NextCall, UNCHANGED <<env, lastKey, cqIdx, pc, event, events>>,
           ops' \in SUBSET Operation,
           handlers' \in [Keys -> Handler \cup {NoHandler}], Used' = Used,
           \A k \in Used : handlers'[k].call = handlers[k].call, TokensOK'
    PROVE  IInv'
<1>1. /\ main.call \in 1..Len(Script) /\ Len(Script) \in Nat /\ main'.call = main.call + 1 /\ Script' = Script
      /\ main'.pc = IF main.call = Len(Script) THEN "join" ELSE "prepare"
      /\ main' \in [pc : Busy \cup {"prepare", "join"}, call : Nat \ {0}, key : Keys, cq : Threads, written : Nat]
  <2>1. main.call \in 1..Len(Script) /\ Len(Script) \in Nat /\ Script' = Script
    BY Typed DEF IInv, TypeOK, Busy, Script
  <2>2. main'.call = main.call + 1 /\ main'.pc = IF main.call = Len(Script) THEN "join" ELSE "prepare"
    BY DEF IInv, TypeOK, NextCall
  <2>3. main.call + 1 \in Nat \ {0}
    BY <2>1
  <2>4. main' \in [pc : Busy \cup {"prepare", "join"}, call : Nat \ {0}, key : Keys, cq : Threads, written : Nat]
    BY <2>3, Zenon DEF IInv, TypeOK, NextCall
  <2> QED BY <2>1, <2>2, <2>4
<1>2. TypeOK'
    BY <1>1 DEF IInv, TypeOK
<1>3. CallsOK'
    BY <1>1, Typed DEF IInv, CallsOK
<1>4. MainOK'
    BY <1>1 DEF MainOK, Busy
<1> QED BY <1>2, <1>3, <1>4 DEF IInv

\* The one-shot calls start Finish.
LEMMA StartUnaryInv ==
    ASSUME IInv, NEW kind \in UnaryKinds, StartUnary(kind), UNCHANGED env
    PROVE  IInv'
<1>1. /\ main.pc = "start" /\ main.pc \in Busy /\ Kind \in UnaryKinds /\ "FINISH" \in Allowed(Kind)
      /\ Kind \notin Streams /\ "FINISH" \in Tags /\ "FINISH" \notin Writing
    BY DEF StartUnary, Busy, Allowed, UnaryKinds, Streams, Tags, Writing
<1>2. main'.call \in Nat /\ main.call <= main'.call
    BY <1>1 DEF StartUnary, NextCall, IInv, TypeOK
<1>3. ~handlers[main.key].finish /\ \A z \in Tokens : z[3].key # main.key
    BY <1>1 DEF IInv, MainOK
<1>4. /\ ops' \in SUBSET Operation /\ handlers' \in [Keys -> Handler \cup {NoHandler}] /\ Used' = Used
      /\ \A k \in Used : handlers'[k].call = handlers[k].call
      /\ TokensOK'
    BY <1>1, <1>2, <1>3, MainOp DEF StartUnary
<1> QED BY <1>1, <1>4, NextCallInv DEF StartUnary

\* ListenCall::start
LEMMA StartListenInv ==
    ASSUME IInv, StartListen, UNCHANGED env
    PROVE  IInv'
<1>1. /\ main.pc = "start" /\ main.pc \in Busy /\ "START_CALL" \in Allowed(Kind)
      /\ Kind \notin Streams /\ "START_CALL" \in Tags
    BY DEF StartListen, Busy, Allowed, UnaryKinds, Streams, Tags
<1>2. main'.call \in Nat /\ main.call <= main'.call
    BY <1>1 DEF StartListen, NextCall, IInv, TypeOK
<1>3. ~handlers[main.key].finish /\ \A z \in Tokens : z[3].key # main.key
    BY <1>1 DEF IInv, MainOK
<1>4. /\ ops' \in SUBSET Operation /\ handlers' \in [Keys -> Handler \cup {NoHandler}] /\ Used' = Used
      /\ \A k \in Used : handlers'[k].call = handlers[k].call
      /\ TokensOK'
    BY <1>1, <1>2, <1>3, MainOp DEF StartListen
<1> QED BY <1>1, <1>4, NextCallInv DEF StartListen

\* close(): the last token of the writer, which then leaves the call alone.
LEMMA CloseInv ==
    ASSUME IInv, Close, UNCHANGED env
    PROVE  IInv'
<1>1. /\ main.pc \in Busy /\ "WRITE_DONE" \in Allowed(Kind) /\ Kind \in Streams /\ "WRITE_DONE" \in Tags
      /\ "WRITE_DONE" \in Writing /\ "WRITE_DONE" \notin Chain(Kind)
    BY DEF IInv, MainOK, Close, Busy, Allowed, UnaryKinds, Streams, Tags, Writing, Chain
<1>2. main'.call \in Nat /\ main.call < main'.call /\ main.call <= main'.call
    BY <1>1 DEF Close, NextCall, IInv, TypeOK
<1>3. /\ ops' \in SUBSET Operation /\ handlers' \in [Keys -> Handler \cup {NoHandler}] /\ Used' = Used
      /\ \A k \in Used : handlers'[k].call = handlers[k].call
      /\ TokensOK'
    BY <1>1, <1>2, MainOp DEF Close
<1> QED BY <1>1, <1>3, NextCallInv DEF Close

\* SpeakCall::start and TalkCall::start, up to StartCall
LEMMA StartStreamInv ==
    ASSUME IInv, StartStream, UNCHANGED env
    PROVE  IInv'
<1>1. /\ main.pc = "start" /\ main.pc \in Busy /\ "START_CALL" \in Allowed(Kind)
      /\ Kind \in Streams /\ "START_CALL" \in Tags /\ "START_CALL" \in Writing
    BY DEF StartStream, Busy, Allowed, UnaryKinds, Streams, Tags, Writing
<1>2. /\ main'.call = main.call /\ main.call \in Nat /\ main'.key = main.key /\ Kind' = Kind
      /\ main'.pc = (IF Kind = "speak" THEN "finish" ELSE "write") /\ Script' = Script
      /\ main' \in [pc : Busy \cup {"prepare", "join"}, call : Nat \ {0}, key : Keys, cq : Threads, written : Nat]
    BY DEF StartStream, Goto, IInv, TypeOK, Kind, Script, Busy
<1>3. main.key \in Used /\ ~handlers[main.key].finish /\ \A z \in Tokens : z[3].key # main.key
    BY <1>1 DEF IInv, MainOK
<1>4. /\ ops' \in SUBSET Operation /\ handlers' \in [Keys -> Handler \cup {NoHandler}] /\ Used' = Used
      /\ \A k \in Used : /\ handlers'[k].call = handlers[k].call /\ handlers'[k].kind = handlers[k].kind
                         /\ handlers'[k].finish = handlers[k].finish
                         /\ handlers'[k].closed = handlers[k].closed
      /\ TokensOK' /\ \A z \in Tokens' : z = AtGrpc(Op("START_CALL")) \/ z \in Tokens
  <2>1. main'.call \in Nat /\ main.call <= main'.call
    BY <1>2
  <2> QED BY <1>1, <1>3, <2>1, MainOp DEF StartStream
<1>5. TypeOK'
    BY <1>1, <1>2, <1>4 DEF IInv, TypeOK, StartStream, Busy
<1>6. CallsOK'
    BY <1>1, <1>2, <1>4 DEF IInv, CallsOK, Busy
<1>7. MainOK'
  <2>1. \A z \in Tokens' : z[3].key = main.key => z[3].tag = "START_CALL"
    BY <1>3, <1>4, Places DEF Op
  <2> QED BY <1>1, <1>2, <1>3, <1>4, <2>1 DEF IInv, MainOK, Busy, Streams
<1> QED BY <1>4, <1>5, <1>6, <1>7 DEF IInv

\* The Finish of SpeakCall::start
LEMMA StartFinishInv ==
    ASSUME IInv, StartFinish, UNCHANGED env
    PROVE  IInv'
<1>1. /\ main.pc = "finish" /\ main.pc \in Busy /\ Kind = "speak" /\ Kind \in Streams
      /\ "FINISH" \in Allowed(Kind) /\ "FINISH" \in Tags /\ "FINISH" \notin Writing
    BY DEF IInv, MainOK, StartFinish, Busy, Allowed, UnaryKinds, Streams, Tags, Writing
<1>2. /\ main'.call = main.call /\ main.call \in Nat /\ main'.key = main.key /\ Kind' = Kind
      /\ main'.pc = "write" /\ Script' = Script
      /\ main' \in [pc : Busy \cup {"prepare", "join"}, call : Nat \ {0}, key : Keys, cq : Threads, written : Nat]
    BY DEF StartFinish, Goto, IInv, TypeOK, Kind, Script, Busy
<1>3. /\ main.key \in Used /\ ~handlers[main.key].finish
      /\ \A z \in Tokens : z[3].key = main.key => z[3].tag \notin Chain(Kind)
    BY <1>1 DEF IInv, MainOK, Chain
<1>4. /\ ops' \in SUBSET Operation /\ handlers' \in [Keys -> Handler \cup {NoHandler}] /\ Used' = Used
      /\ \A k \in Used : handlers'[k].call = handlers[k].call /\ handlers'[k].kind = handlers[k].kind
      /\ TokensOK'
  <2>1. main'.call \in Nat /\ main.call <= main'.call
    BY <1>2
  <2> QED BY <1>1, <1>3, <2>1, MainOp DEF StartFinish
<1>5. TypeOK'
    BY <1>1, <1>2, <1>4 DEF IInv, TypeOK, StartFinish, Busy
<1>6. CallsOK'
    BY <1>1, <1>2, <1>4 DEF IInv, CallsOK, Busy
<1>7. MainOK'
    BY <1>1, <1>2, <1>3, <1>4 DEF IInv, MainOK, Busy
<1> QED BY <1>4, <1>5, <1>6, <1>7 DEF IInv

\* write()
LEMMA WriteInv ==
    ASSUME IInv, Write, UNCHANGED env
    PROVE  IInv'
<1>1. /\ main.pc = "write" /\ main.pc \in Busy /\ Kind \in Streams /\ "WRITE" \in Allowed(Kind)
      /\ "WRITE" \in Tags /\ "WRITE" \in Writing /\ "WRITE" \notin Chain(Kind)
    BY DEF IInv, MainOK, Write, Busy, Allowed, UnaryKinds, Streams, Tags, Writing, Chain
<1>2. /\ main'.call = main.call /\ main.call \in Nat /\ main'.key = main.key /\ Kind' = Kind
      /\ main'.pc = "write" /\ Script' = Script
      /\ main' \in [pc : Busy \cup {"prepare", "join"}, call : Nat \ {0}, key : Keys, cq : Threads, written : Nat]
    BY DEF Write, IInv, TypeOK, Kind, Script, Busy
<1>3. /\ ops' \in SUBSET Operation /\ handlers' \in [Keys -> Handler \cup {NoHandler}] /\ Used' = Used
      /\ \A k \in Used : handlers'[k].call = handlers[k].call /\ handlers'[k].kind = handlers[k].kind
      /\ TokensOK'
  <2>1. main'.call \in Nat /\ main.call <= main'.call
    BY <1>2
  <2> QED BY <1>1, <2>1, MainOp DEF Write
<1>4. TypeOK'
    BY <1>1, <1>2, <1>3 DEF IInv, TypeOK, Write, Busy
<1>5. CallsOK'
    BY <1>1, <1>2, <1>3 DEF IInv, CallsOK, Busy
<1>6. MainOK'
    BY <1>1, <1>2, <1>3 DEF IInv, MainOK, Busy
<1> QED BY <1>3, <1>4, <1>5, <1>6 DEF IInv
=============================================================================
