--------------------------- MODULE ClientProactor ----------------------------
(***************************************************************************)
(* The asynchronous gRPC client (learn_grpc/hello_world/src/client/async): *)
(* the main thread issues the calls of UseAsyncClient and writes into the  *)
(* streams, one thread per completion queue runs the handlers.  A stream's *)
(* semaphore canWrite is utils::Semaphore(1), here the counter that module *)
(* Semaphore is shown to implement.  gRPC and the server are external.     *)
(***************************************************************************)
EXTENDS EventHandlerManager, Sequences, FiniteSetsExt

CONSTANTS
    PoolSize,     \* threads 0..PoolSize-1, each with its queue
    Envs,         \* the programs to consider, see env
    MaxReplies,   \* bound: messages of the server in one call
    NoHandler

UnaryKinds == {"sayHello", "sayHelloAgain", "sayGoodbye", "sayGoodbyeAgain", "greet"}
AllKinds == UnaryKinds \cup {"listen", "speak", "talk"}
Streams == {"speak", "talk"}

ASSUME ClientAssumption ==
    /\ PoolSize \in Nat \ {0} /\ MaxReplies \in Nat
    /\ \A e \in Envs : /\ e.script \in Seq(AllKinds) \ {<<>>} /\ e.words \in Nat
                       /\ e.patientPoll \in BOOLEAN
    /\ NoHandler \notin [kind : AllKinds, call : Nat, finish : BOOLEAN, closed : BOOLEAN,
                          canWrite : {0, 1}]

Threads == 0..PoolSize - 1
MaxCalls == Max({Len(e.script) : e \in Envs})

VARIABLES
    handlers,  \* EventHandlerManager: key -> [kind, call, finish, closed, canWrite]
    lastKey,
    cqIdx,     \* ClientProactor::cqIdx
    main,      \* the main thread: [pc, call, key, cq, written]
    pc, event, \* a pool thread in asyncCompleteRpc, and the event it handles
    \* gRPC
    ops,       \* operations in progress: [key, call, tag, cq]
    events,    \* completed ones per queue, with their ok
    rpc,       \* per call: has the server ended it, replies it may still send
    env        \* never changes: the calls the main thread makes, the writes per
               \* stream (5 in the code), and whether no poll times out before
               \* the main thread has made its calls

vars == <<handlers, lastKey, cqIdx, main, pc, event, ops, events, rpc, env>>

Script == env.script
Words == env.words

Used == {k \in Keys : handlers[k] # NoHandler}
NoEvent == [key |-> 0, call |-> 0, tag |-> "none", ok |-> FALSE]

Init ==
    /\ env \in Envs
    /\ handlers = [k \in Keys |-> NoHandler]
    /\ lastKey = 0
    /\ cqIdx = 0
    /\ main = [pc |-> "prepare", call |-> 1, key |-> 0, cq |-> 0, written |-> 0]
    /\ pc = [t \in Threads |-> "next"]
    /\ event = [t \in Threads |-> NoEvent]
    /\ ops = {}
    /\ events = [t \in Threads |-> {}]
    /\ rpc = [c \in 1..Len(Script) |-> [over |-> FALSE, replies |-> MaxReplies]]

-----------------------------------------------------------------------------
\* The main thread

Kind == Script[main.call]
Op(tag) == [key |-> main.key, call |-> main.call, tag |-> tag, cq |-> main.cq]

\* On to step `next`, or to the next call, or to waitForComplete.
Goto(next) == main' = [main EXCEPT !.pc = next]
NextCall == main' = [main EXCEPT !.call = @ + 1, !.written = 0,
                        !.pc = IF main.call = Len(Script) THEN "join" ELSE "prepare"]

\* Semaphore::acquire on the writer's call; a released call is not there to wait on.
Acquire ==
    /\ main.key \in Used /\ handlers[main.key].canWrite = 1
    /\ handlers' = [handlers EXCEPT ![main.key].canWrite = 0]

\* prepareAsyncCall: the handler gets its key, the call its queue.
Prepare ==
    /\ main.pc = "prepare"
    /\ LET key == AddKey(Used, lastKey) IN
       /\ key # NoKey
       /\ handlers' = [handlers EXCEPT ![key] =
            [kind |-> Kind, call |-> main.call, finish |-> FALSE, closed |-> FALSE, canWrite |-> 1]]
       /\ lastKey' = key
       /\ main' = [main EXCEPT !.pc = "start", !.key = key, !.cq = cqIdx % PoolSize]
    /\ cqIdx' = (cqIdx + 1) % PoolSize
    /\ UNCHANGED <<pc, event, ops, events, rpc>>

\* StartCall without a tag, then Finish.
StartUnary(kind) ==
    /\ main.pc = "start" /\ Kind = kind
    /\ ops' = ops \cup {Op("FINISH")}
    /\ NextCall
    /\ UNCHANGED <<handlers, lastKey, cqIdx, pc, event, events, rpc>>

SayHello == StartUnary("sayHello")
SayHelloAgain == StartUnary("sayHelloAgain")
SayGoodbye == StartUnary("sayGoodbye")
SayGoodbyeAgain == StartUnary("sayGoodbyeAgain")
Greet == StartUnary("greet")

\* ListenCall::start
StartListen ==
    /\ main.pc = "start" /\ Kind = "listen"
    /\ ops' = ops \cup {Op("START_CALL")}
    /\ NextCall
    /\ UNCHANGED <<handlers, lastKey, cqIdx, pc, event, events, rpc>>

\* SpeakCall::start up to StartCall, TalkCall::start
StartStream ==
    /\ main.pc = "start" /\ Kind \in Streams
    /\ Acquire
    /\ ops' = ops \cup {Op("START_CALL")}
    /\ Goto(IF Kind = "speak" THEN "finish" ELSE "write")
    /\ UNCHANGED <<lastKey, cqIdx, pc, event, events, rpc>>

\* The Finish at the end of SpeakCall::start
StartFinish ==
    /\ main.pc = "finish"
    /\ ops' = ops \cup {Op("FINISH")}
    /\ Goto("write")
    /\ UNCHANGED <<handlers, lastKey, cqIdx, pc, event, events, rpc>>

\* write(), Words times
Write ==
    /\ main.pc = "write" /\ main.written < Words
    /\ Acquire
    /\ ops' = ops \cup {Op("WRITE")}
    /\ main' = [main EXCEPT !.written = @ + 1]
    /\ UNCHANGED <<lastKey, cqIdx, pc, event, events, rpc>>

\* Mutant: WritesDone does not wait for the last write.
Close_NoAcquire ==
    /\ main.pc = "write" /\ main.written = Words
    /\ ops' = ops \cup {Op("WRITE_DONE")}
    /\ NextCall
    /\ UNCHANGED <<handlers, lastKey, cqIdx, pc, event, events, rpc>>

\* close()
Close ==
    /\ main.pc = "write" /\ main.written = Words
    /\ Acquire
    /\ ops' = ops \cup {Op("WRITE_DONE")}
    /\ NextCall
    /\ UNCHANGED <<lastKey, cqIdx, pc, event, events, rpc>>

MainStep ==
    /\ \/ Prepare \/ SayHello \/ SayHelloAgain \/ SayGoodbye \/ SayGoodbyeAgain \/ Greet
       \/ StartListen \/ StartStream \/ StartFinish \/ Write \/ Close
    /\ UNCHANGED env

-----------------------------------------------------------------------------
\* asyncCompleteRpc

NextEvent(t) ==
    /\ pc[t] = "next"
    /\ \E e \in events[t] :
        /\ events' = [events EXCEPT ![t] = @ \ {e}]
        /\ IF e.key \notin Used THEN UNCHANGED <<pc, event>>
           ELSE /\ pc' = [pc EXCEPT ![t] = "process"]
                /\ event' = [event EXCEPT ![t] = e]
    /\ UNCHANGED <<handlers, lastKey, cqIdx, main, ops, rpc>>

NextTimeout(t) ==
    /\ pc[t] = "next" /\ events[t] = {}
    /\ env.patientPoll => main.pc = "join"
    /\ pc' = [pc EXCEPT ![t] = "count"]
    /\ UNCHANGED <<handlers, lastKey, cqIdx, main, event, ops, events, rpc>>

Count(t) ==
    /\ pc[t] = "count"
    /\ pc' = [pc EXCEPT ![t] = IF Used = {} THEN "left" ELSE "next"]
    /\ UNCHANGED <<handlers, lastKey, cqIdx, main, event, ops, events, rpc>>

\* The operation process starts with the token it was given, if any.
Started(kind, e) ==
    CASE kind \in {"listen", "talk"} /\ e.tag = "START_CALL" /\ e.ok -> {"READ"}
      [] kind \in {"listen", "talk"} /\ e.tag = "READ" -> {IF e.ok THEN "READ" ELSE "FINISH"}
      [] OTHER -> {}

\* The cases that call canWrite.release()
Releases(kind, tag) == kind \in Streams /\ tag \in {"START_CALL", "WRITE"}

\* Mutant: closed is set only when WritesDone succeeded.
Closes_IfOk(e) == e.tag = "WRITE_DONE" /\ e.ok

\* The case that sets closed, whatever the result
Closes(e) == e.tag = "WRITE_DONE"

\* Mutant: finish also ends the streams whose close() is still to come.
IsComplete_Either(h) == h.finish \/ h.closed

\* isComplete() of the handler classes
IsComplete(h) ==
    CASE h.kind \in UnaryKinds -> TRUE
      [] h.kind = "listen" -> h.finish
      [] OTHER -> h.finish /\ h.closed

\* process(), isComplete() and remove(); a release() that fails is tried forever.
Process(t) ==
    /\ pc[t] = "process"
    /\ LET e == event[t]
           h == handlers[e.key]
           done == [h EXCEPT
                !.finish = @ \/ e.tag = "FINISH"
                             \/ (h.kind \in {"listen", "talk"} /\ e.tag = "START_CALL" /\ ~e.ok),
                !.closed = @ \/ Closes(e),
                !.canWrite = IF Releases(h.kind, e.tag) THEN 1 ELSE @]
       IN IF Releases(h.kind, e.tag) /\ h.canWrite = 1 THEN UNCHANGED <<handlers, ops, event, pc>>
          ELSE /\ handlers' = [handlers EXCEPT ![e.key] = IF IsComplete(done) THEN NoHandler ELSE done]
               /\ ops' = ops \cup {[key |-> e.key, call |-> e.call, tag |-> tag, cq |-> t] :
                                     tag \in Started(h.kind, e)}
               /\ event' = [event EXCEPT ![t] = NoEvent]
               /\ pc' = [pc EXCEPT ![t] = "next"]
    /\ UNCHANGED <<lastKey, cqIdx, main, events, rpc>>

ThreadStep(t) ==
    /\ NextEvent(t) \/ NextTimeout(t) \/ Count(t) \/ Process(t)
    /\ UNCHANGED env

-----------------------------------------------------------------------------
\* gRPC and the server (external)

\* An operation fails only on a call that is over; Finish waits for the end.
Complete(op) ==
    /\ \E ok \in BOOLEAN :
        /\ ~ok => rpc[op.call].over /\ op.tag # "FINISH"
        /\ ok /\ op.tag = "READ" => rpc[op.call].replies > 0
        /\ op.tag = "FINISH" => rpc[op.call].over
        /\ events' = [events EXCEPT ![op.cq] = @ \cup
                {[key |-> op.key, call |-> op.call, tag |-> op.tag, ok |-> ok]}]
        /\ rpc' = IF ok /\ op.tag = "READ" THEN [rpc EXCEPT ![op.call].replies = @ - 1] ELSE rpc
    /\ ops' = ops \ {op}
    /\ UNCHANGED <<handlers, lastKey, cqIdx, main, pc, event, env>>

\* The server finishes the call, or it breaks, at any time.
ServerEnds(c) ==
    /\ ~rpc[c].over
    /\ main.call > c \/ (main.call = c /\ main.pc \notin {"prepare", "start"})
    /\ rpc' = [rpc EXCEPT ![c].over = TRUE]
    /\ UNCHANGED <<handlers, lastKey, cqIdx, main, pc, event, ops, events, env>>

\* waitForComplete has returned.
Ended ==
    /\ main.pc = "join" /\ \A t \in Threads : pc[t] = "left"
    /\ UNCHANGED vars

Next ==
    \/ MainStep
    \/ \E t \in Threads : ThreadStep(t)
    \/ \E op \in ops : Complete(op)
    \/ \E c \in 1..Len(Script) : ServerEnds(c)
    \/ Ended

Spec == Init /\ [][Next]_vars

\* Threads are scheduled, gRPC completes what it was given, calls end.
FairSpec ==
    /\ Spec
    /\ WF_vars(MainStep)
    /\ \A t \in Threads : WF_vars(ThreadStep(t))
    /\ WF_vars(\E op \in ops : Complete(op))
    /\ \A c \in 1..MaxCalls : WF_vars(c <= Len(Script) /\ ServerEnds(c))

-----------------------------------------------------------------------------
\* The operations of a call that gRPC has, or whose event is not handled yet.
Outstanding(c) ==
    {op.tag : op \in {o \in ops : o.call = c}}
    \cup (UNION {{e.tag : e \in {x \in events[t] : x.call = c}} : t \in Threads})
    \cup {event[t].tag : t \in {u \in Threads : event[u].call = c}}

\* A call lives as long as someone refers to it, however early the server ends
\* it.  The main thread uses the writer speak() and talk() return by reference,
\* whose only owner is the table, until the event of close() is handled.  And
\* every event finds the handler of its own call: nothing is outstanding when a
\* handler is removed, so neither "event key not exist" nor "wrong key" occurs.
CallAlive ==
    /\ main.pc = "write" => main.key \in Used /\ handlers[main.key].call = main.call
    /\ \A c \in 1..Len(Script) : Outstanding(c) # {} =>
        \E k \in Used : /\ handlers[k].call = c
                        /\ \A op \in ops : op.call = c => op.key = k
                        /\ \A t \in Threads : \A e \in events[t] : e.call = c => e.key = k

\* Of StartCall, Write and WritesDone one at a time is under way: canWrite is
\* held from the call to its event, so release() never meets a full semaphore
\* and its loop never spins.
OneWriteAtATime ==
    \A c \in 1..Len(Script) :
        LET writes == Outstanding(c) \cap {"START_CALL", "WRITE", "WRITE_DONE"} IN
        /\ Cardinality(writes) <= 1
        /\ \A k \in Used : handlers[k].call = c /\ handlers[k].kind \in Streams
                              /\ handlers[k].canWrite = 1 => writes = {}

\* The client ends: the main thread is never left waiting in acquire(), and
\* every thread of the pool leaves, with every handler removed, provided no
\* thread gave up polling before the calls were made.
ClientEnds == env.patientPoll ~> (main.pc = "join" /\ Used = {} /\ \A t \in Threads : pc[t] = "left")
=============================================================================
