--------------------------- MODULE ServerProactor ----------------------------
(***************************************************************************)
(* The asynchronous gRPC server (learn_grpc/hello_world/src/server/async): *)
(* one demultiplexing thread per completion queue, a handler object per    *)
(* call, and the shutdown started by a signal.                             *)
(*                                                                         *)
(* gRPC itself is external.  An operation given to it stays in `ops` until *)
(* it completes into `events`, the completion queue of the thread that     *)
(* asked for it.  Misuse that gRPC answers with an assertion ends the      *)
(* process: `crashed`.                                                     *)
(***************************************************************************)
EXTENDS EventHandlerManager, Sequences

CONSTANTS
    Threads,    \* threads of a pool; thread t owns completion queue t
    Envs,       \* the servers and their clients to consider, see env
    MaxWords,   \* bound: messages a client sends in one call
    Responses,  \* messages ChatListenEventHandler sends: 3 in the code
    NoHandler

\* HelloEventHandler, HelloAgain, Goodbye, GoodbyeAgain and ChatGreet are unary.
UnaryKinds == {"hello", "helloAgain", "goodbye", "goodbyeAgain", "greet"}
AllKinds == UnaryKinds \cup {"listen", "speak", "talk"}

ASSUME ProactorAssumption ==
    /\ \A e \in Envs : /\ e.pool \subseteq Threads /\ e.pool # {}
                       /\ e.services \in Seq(AllKinds) /\ e.cancels \subseteq AllKinds
                       /\ e.stopWhen \in {"never", "running", "any"}
                       /\ e.maxCalls \in Nat
    /\ MaxWords \in Nat /\ Responses \in Nat \ {0}

VARIABLES
    handlers,  \* EventHandlerManager::handlers
    lastKey,   \* EventHandlerManager::lastKey
    stopped,   \* ServerProactor::stopped
    pc,        \* where each thread is in demultiplex
    event,     \* its local variables event and ok
    toRegister,\* the kinds it has still to create a handler of
    newKey,    \* the key of the handler being registered
    stopPc,    \* where the signal's thread is in AsyncServer::stop
    \* gRPC
    ops,       \* operations in progress: [key, tag, call, cq]
    events,    \* completed ones per queue: [key, tag, ok]
    rpc,       \* the call behind a handler: [state, dead, words]
    calls,     \* calls made so far
    crashed,
    env        \* never changes: the pool; the services a thread registers, in the
               \* order of demultiplex; the kinds whose clients may cancel; when
               \* the signal may arrive ("never", once all threads are "running",
               \* at "any" time after BuildAndStart); a bound on the calls

tableVars  == <<handlers, lastKey>>
threadVars == <<pc, event, toRegister, newKey>>
grpcVars   == <<ops, events, rpc, calls, crashed>>
vars == <<tableVars, stopped, threadVars, stopPc, grpcVars, env>>

Used == {k \in Keys : handlers[k] # NoHandler}
NoCall == [state |-> "none", dead |-> FALSE, words |-> 0]
NoEvent == [key |-> 0, tag |-> "none", ok |-> FALSE]

Init ==
    /\ env \in Envs
    /\ handlers = [k \in Keys |-> NoHandler]
    /\ lastKey = 0
    /\ stopped = FALSE
    /\ pc = [t \in Threads |-> IF t \in env.pool THEN "register" ELSE "none"]
    /\ event = [t \in Threads |-> NoEvent]
    /\ toRegister = [t \in Threads |-> env.services]
    /\ newKey = [t \in Threads |-> NoKey]
    /\ stopPc = "idle"
    /\ ops = {}
    /\ events = [t \in Threads |-> {}]
    /\ rpc = [k \in Keys |-> NoCall]
    /\ calls = 0
    /\ crashed = FALSE

\* gRPC takes operations for a queue that is shut down only while another one
\* is in progress there, or a request's result has not been fetched.
QueueOpen(t) ==
    \/ stopPc # "done"
    \/ \E op \in ops : op.cq = t
    \/ \E e \in events[t] : e.tag = "RECEIVE"

-----------------------------------------------------------------------------
\* registerHandler, called by the constructor of every handler: in demultiplex
\* once per kind, in process for the successor of a handler.

RegTest(t) ==
    /\ ~crashed /\ pc[t] = "register" /\ toRegister[t] # <<>>
    /\ IF stopped
       THEN /\ toRegister' = [toRegister EXCEPT ![t] = Tail(@)]
            /\ UNCHANGED pc
       ELSE /\ pc' = [pc EXCEPT ![t] = "add"]
            /\ UNCHANGED toRegister
    /\ UNCHANGED <<tableVars, stopped, event, newKey, stopPc, grpcVars>>

\* handlerManager.add; its exception ends the process.
RegAdd(t) ==
    /\ ~crashed /\ pc[t] = "add"
    /\ LET key == AddKey(Used, lastKey)
       IN IF key = NoKey
          THEN crashed' = TRUE /\ UNCHANGED <<tableVars, threadVars, rpc>>
          ELSE /\ handlers' = [handlers EXCEPT ![key] =
                    [kind |-> Head(toRegister[t]), cq |-> t, left |-> 0]]
               /\ lastKey' = key
               /\ newKey' = [newKey EXCEPT ![t] = key]
               /\ rpc' = [rpc EXCEPT ![key] = NoCall]
               /\ toRegister' = [toRegister EXCEPT ![t] = Tail(@)]
               /\ pc' = [pc EXCEPT ![t] = "request"]
               /\ UNCHANGED <<event, crashed>>
    /\ UNCHANGED <<stopped, stopPc, ops, events, calls>>

\* requestFunc(event.getToken())
RegRequest(t) ==
    /\ ~crashed /\ pc[t] = "request"
    /\ crashed' = ~QueueOpen(t)
    /\ ops' = ops \cup {[key |-> newKey[t], tag |-> "RECEIVE", call |-> "Request", cq |-> t]}
    /\ newKey' = [newKey EXCEPT ![t] = NoKey]
    /\ pc' = [pc EXCEPT ![t] = "register"]
    /\ UNCHANGED <<tableVars, stopped, event, toRegister, stopPc, events, rpc, calls>>

\* Registration is over: back to the loop, or on in process.
RegEnd(t) ==
    /\ ~crashed /\ pc[t] = "register" /\ toRegister[t] = <<>>
    /\ pc' = [pc EXCEPT ![t] = IF event[t] = NoEvent THEN "next" ELSE "react"]
    /\ UNCHANGED <<tableVars, stopped, event, toRegister, newKey, stopPc, grpcVars>>

-----------------------------------------------------------------------------
\* demultiplex

\* AsyncNext returns an event whose handler is known; process is called.
NextEvent(t) ==
    /\ ~crashed /\ pc[t] = "next"
    /\ \E e \in events[t] :
        /\ events' = [events EXCEPT ![t] = @ \ {e}]
        /\ IF e.key \notin Used THEN UNCHANGED <<pc, event, toRegister>>
           ELSE /\ event' = [event EXCEPT ![t] = e]
                /\ IF e.tag = "RECEIVE"
                   THEN /\ pc' = [pc EXCEPT ![t] = "register"]
                        /\ toRegister' = [toRegister EXCEPT ![t] = <<handlers[e.key].kind>>]
                   ELSE pc' = [pc EXCEPT ![t] = "react"] /\ UNCHANGED toRegister
    /\ UNCHANGED <<tableVars, stopped, newKey, stopPc, ops, rpc, calls, crashed>>

\* AsyncNext times out; what count() says is known one step later.
NextTimeout(t) ==
    /\ ~crashed /\ pc[t] = "next" /\ events[t] = {}
    /\ pc' = [pc EXCEPT ![t] = "count"]
    /\ UNCHANGED <<tableVars, stopped, event, toRegister, newKey, stopPc, grpcVars>>

\* Mutant: every timeout ends the loop.
Count_Breaks(t) ==
    /\ ~crashed /\ pc[t] = "count"
    /\ pc' = [pc EXCEPT ![t] = "left"]
    /\ UNCHANGED <<tableVars, stopped, event, toRegister, newKey, stopPc, grpcVars>>

Count(t) ==
    /\ ~crashed /\ pc[t] = "count"
    /\ pc' = [pc EXCEPT ![t] = IF Used = {} THEN "left" ELSE "next"]
    /\ UNCHANGED <<tableVars, stopped, event, toRegister, newKey, stopPc, grpcVars>>

\* The queue is shut down and has nothing more to deliver.
NextShutdown(t) ==
    /\ ~crashed /\ pc[t] = "next" /\ events[t] = {}
    /\ stopPc = "done" /\ \A op \in ops : op.cq # t
    /\ pc' = [pc EXCEPT ![t] = "left"]
    /\ UNCHANGED <<tableVars, stopped, event, toRegister, newKey, stopPc, grpcVars>>

\* What a case of process does: the gRPC call it makes, the opt in the token
\* of that call, or finish = true.
Do(call, opt) == [call |-> call, tag |-> opt, finish |-> FALSE]
SetFinish == [call |-> "none", tag |-> "none", finish |-> TRUE]

\* Mutant: a handler whose request failed is not complete.
Unary_Keeps(e) ==
    IF e.tag = "RECEIVE" THEN IF e.ok THEN Do("Finish", "FINISH") ELSE Do("none", "none")
    ELSE SetFinish

\* HelloEventHandler
Unary(e) ==
    IF e.tag = "RECEIVE" /\ e.ok THEN Do("Finish", "FINISH") ELSE SetFinish

\* The other unary handlers, which differ only in their messages
HelloAgain(e) == Unary(e)
Goodbye(e) == Unary(e)
GoodbyeAgain(e) == Unary(e)
Greet(e) == Unary(e)

\* ChatListenEventHandler; `left` is the size of its queue of responses
Listen(e, left) ==
    CASE e.tag = "RECEIVE" /\ e.ok -> Do("Write", "WRITE")
      [] e.tag = "WRITE" /\ e.ok ->
            IF left = 0 THEN Do("Finish", "FINISH") ELSE Do("Write", "WRITE")
      [] OTHER -> SetFinish

\* ChatSpeakEventHandler
Speak(e) ==
    CASE e.tag \in {"RECEIVE", "READ"} /\ e.ok -> Do("Read", "READ")
      [] e.tag = "READ" /\ ~e.ok -> Do("Finish", "FINISH")
      [] OTHER -> SetFinish

\* ChatTalkEventHandler; a failed write finishes with the opt it came with
Talk(e) ==
    CASE e.tag \in {"RECEIVE", "WRITE"} /\ e.ok -> Do("Read", "READ")
      [] e.tag = "READ" -> IF e.ok THEN Do("Write", "WRITE") ELSE Do("Finish", "FINISH")
      [] e.tag = "WRITE" /\ ~e.ok -> Do("Finish", "WRITE")
      [] OTHER -> SetFinish

Reaction(h, e) ==
    CASE h.kind = "hello" -> Unary(e)
      [] h.kind = "helloAgain" -> HelloAgain(e)
      [] h.kind = "goodbye" -> Goodbye(e)
      [] h.kind = "goodbyeAgain" -> GoodbyeAgain(e)
      [] h.kind = "greet" -> Greet(e)
      [] h.kind = "listen" -> Listen(e, h.left)
      [] h.kind = "speak" -> Speak(e)
      [] h.kind = "talk" -> Talk(e)

\* The rest of process, isComplete and remove.
React(t) ==
    /\ ~crashed /\ pc[t] = "react"
    /\ LET e == event[t]
           h == handlers[e.key]
           r == Reaction(h, e)
           left == IF r.call # "Write" \/ h.kind # "listen" THEN h.left
                   ELSE IF e.tag = "RECEIVE" THEN Responses - 1 ELSE h.left - 1
       IN /\ handlers' = [handlers EXCEPT ![e.key] =
                IF r.finish THEN NoHandler ELSE [h EXCEPT !.left = left]]
          /\ IF r.call = "none" THEN UNCHANGED <<ops, rpc, crashed>>
             ELSE \* gRPC sends nothing behind a Finish
                  /\ crashed' = (~QueueOpen(t) \/ (rpc[e.key].state = "finished" /\ r.call # "Read"))
                  /\ ops' = ops \cup {[key |-> e.key, tag |-> r.tag, call |-> r.call, cq |-> t]}
                  /\ rpc' = IF r.call = "Finish" THEN [rpc EXCEPT ![e.key].state = "finished"] ELSE rpc
    /\ event' = [event EXCEPT ![t] = NoEvent]
    /\ pc' = [pc EXCEPT ![t] = "next"]
    /\ UNCHANGED <<lastKey, stopped, toRegister, newKey, stopPc, events, calls>>

-----------------------------------------------------------------------------
\* AsyncServer::stop, run by a thread of its own when a signal arrives.

\* The thread has registered all its first handlers.
Running(t) == pc[t] \in {"next", "count", "react", "left"} \/ event[t] # NoEvent

\* Mutant: the proactor is not told.
Stop_Untold ==
    /\ ~crashed /\ stopPc = "idle"
    /\ env.stopWhen = "running" /\ \A t \in env.pool : Running(t)
    /\ stopPc' = "server"
    /\ UNCHANGED <<tableVars, stopped, threadVars, grpcVars, env>>

Stop ==
    /\ ~crashed /\ stopPc = "idle"
    /\ \/ env.stopWhen = "any"
       \/ env.stopWhen = "running" /\ \A t \in env.pool : Running(t)
    /\ stopped' = TRUE
    /\ stopPc' = "server"
    /\ UNCHANGED <<tableVars, threadVars, grpcVars, env>>

\* grpcServer->Shutdown(): from now on no call is accepted ...
ServerShutdown ==
    /\ ~crashed /\ stopPc = "server"
    /\ stopPc' = "drain"
    /\ UNCHANGED <<tableVars, stopped, threadVars, grpcVars, env>>

\* ... and it returns when no call is in progress; then the queues are shut.
Active(k) == \/ rpc[k].state = "active" /\ ~rpc[k].dead
             \/ \E op \in ops : op.key = k /\ op.call = "Finish"

QueueShutdown ==
    /\ ~crashed /\ stopPc = "drain"
    /\ \A k \in Keys : ~Active(k)
    /\ stopPc' = "done"
    /\ UNCHANGED <<tableVars, stopped, threadVars, grpcVars, env>>

-----------------------------------------------------------------------------
\* gRPC and the clients (external).

Complete(op, ok) ==
    /\ ops' = ops \ {op}
    /\ events' = [events EXCEPT ![op.cq] = @ \cup {[key |-> op.key, tag |-> op.tag, ok |-> ok]}]

Finishes(op) ==
    /\ ~crashed
    /\ LET call == rpc[op.key] IN
       \/ /\ op.call = "Request" /\ stopPc \in {"idle", "server"} /\ calls < env.maxCalls
          /\ Complete(op, TRUE)
          /\ calls' = calls + 1
          /\ rpc' = [rpc EXCEPT ![op.key] = [state |-> "active", dead |-> FALSE, words |-> MaxWords]]
       \/ /\ op.call = "Request" /\ stopPc \in {"drain", "done"}
          /\ Complete(op, FALSE)
          /\ UNCHANGED <<calls, rpc>>
       \/ /\ op.call = "Read" /\ ~call.dead /\ call.words > 0
          /\ Complete(op, TRUE)
          /\ rpc' = [rpc EXCEPT ![op.key].words = @ - 1]
          /\ UNCHANGED calls
       \/ /\ op.call = "Read"   \* the client is done writing, or gone
          /\ Complete(op, FALSE)
          /\ rpc' = [rpc EXCEPT ![op.key].words = 0]
          /\ UNCHANGED calls
       \/ /\ op.call \in {"Write", "Finish"}
          /\ \E ok \in {TRUE, ~call.dead} : Complete(op, ok)
          /\ UNCHANGED <<calls, rpc>>
    /\ UNCHANGED <<tableVars, stopped, threadVars, stopPc, crashed, env>>

\* A client cancels, or its connection breaks.
Cancel(k) ==
    /\ ~crashed /\ rpc[k].state # "none" /\ ~rpc[k].dead
    /\ handlers[k] # NoHandler /\ handlers[k].kind \in env.cancels
    /\ rpc' = [rpc EXCEPT ![k].dead = TRUE]
    /\ UNCHANGED <<tableVars, stopped, threadVars, stopPc, ops, events, calls, crashed, env>>

-----------------------------------------------------------------------------
ThreadStep(t) ==
    /\ \/ RegTest(t) \/ RegAdd(t) \/ RegRequest(t) \/ RegEnd(t)
       \/ NextEvent(t) \/ NextTimeout(t) \/ Count(t) \/ NextShutdown(t) \/ React(t)
    /\ UNCHANGED env

\* waitForComplete has returned, or the process has crashed.
Ended ==
    /\ crashed \/ \A t \in env.pool : pc[t] = "left"
    /\ UNCHANGED vars

Next ==
    \/ \E t \in Threads : ThreadStep(t)
    \/ Stop \/ ServerShutdown \/ QueueShutdown
    \/ \E op \in ops : Finishes(op)
    \/ \E k \in Keys : Cancel(k)
    \/ Ended

Spec == Init /\ [][Next]_vars

\* The pool's threads, the signal's thread and gRPC keep working, and every
\* client ends its call (Finishes also stands for what clients do).
FairSpec ==
    /\ Spec
    /\ \A t \in Threads : WF_vars(ThreadStep(t))
    /\ WF_vars(ServerShutdown) /\ WF_vars(QueueShutdown)
    /\ WF_vars(\E op \in ops : Finishes(op))

-----------------------------------------------------------------------------
\* Where the one thing a handler waits for, or is doing, can be.
Pending(k) ==
    {<<"op", op>> : op \in {o \in ops : o.key = k}}
    \cup UNION {{<<"event", e>> : e \in {x \in events[t] : x.key = k}} : t \in Threads}
    \cup {<<"process", t>> : t \in {u \in Threads : event[u] # NoEvent /\ event[u].key = k}}
    \cup {<<"new", t>> : t \in {u \in Threads : newKey[u] = k}}

\* Every handler in the table has exactly one operation under way, and every
\* operation has its handler: none is leaked (remove is always reached), none
\* has its completion dropped by the warning "event key not exist".
OneOperationEach ==
    crashed \/ \A k \in Keys : Cardinality(Pending(k)) = IF k \in Used THEN 1 ELSE 0

\* While the server runs, each queue has exactly one handler of each service
\* that waits for, or is just taking, a call: process creates the successor
\* before it answers, so no thread goes deaf to a service or listens twice.
Listens(k) ==
    \/ \E op \in ops : op.key = k /\ op.call = "Request"
    \/ \E t \in Threads :
        \/ newKey[t] = k
        \/ \E e \in events[t] : e.key = k /\ e.tag = "RECEIVE"
        \/ event[t].key = k /\ event[t].tag = "RECEIVE" /\ pc[t] \in {"register", "add"}
              /\ toRegister[t] # <<>>

AlwaysListening ==
    \A t \in Threads : ~stopped /\ ~crashed /\ Running(t) =>
        \A i \in 1..Len(env.services) :
            Cardinality({k \in Used : /\ handlers[k].cq = t
                                      /\ handlers[k].kind = env.services[i]
                                      /\ Listens(k)}) = 1

\* Every handler is accounted for at every moment: it has the one operation it
\* waits for (OneOperationEach), and each service on each queue has the one
\* handler that waits for its next call (AlwaysListening).
HandlersAccounted == OneOperationEach /\ AlwaysListening

\* A client cancelled a call whose handler is not done: the queues are shut
\* already (Shutdown() does not wait for a cancelled call), so that the handler's
\* next operation has no queue; or ChatTalkEventHandler finishes, after which the
\* opt of its failed write makes it finish once more.
CancelledUnhandled ==
    \E k \in Used : /\ rpc[k].dead
                    /\ \/ stopPc = "done"
                       \/ handlers[k].kind = "talk" /\ rpc[k].state = "finished"

\* gRPC never meets an operation behind a Finish or on a queue that is shut
\* down, and the table never overflows: stop() refuses new handlers, drains
\* the calls and only then shuts the queues.  Only a cancelled call breaks this,
\* in the two ways of CancelledUnhandled.  A thread leaves demultiplex only after
\* stop(), with nothing left on its queue: no operation, no completion, no
\* handler.
LeavesDrained ==
    /\ crashed => CancelledUnhandled
    /\ \A t \in Threads : pc[t] = "left" =>
        /\ stopped
        /\ events[t] = {} /\ \A op \in ops : op.cq # t
        /\ \A k \in Used : handlers[k].cq # t

\* waitForComplete returns after a signal, whatever calls were in progress, if
\* every client ends its call (Shutdown() has no deadline) and no cancelled call
\* has ended the process.
StopCompletes ==
    (stopPc # "idle") ~> ((\A t \in env.pool : pc[t] = "left") \/ (crashed /\ CancelledUnhandled))
=============================================================================
