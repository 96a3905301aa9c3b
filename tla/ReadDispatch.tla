---------------------------- MODULE ReadDispatch -----------------------------
(***************************************************************************)
(* How simple_http hands a connection with something to read from the      *)
(* server thread to the reader threads (tcp_server/src/connection.cpp):    *)
(* the counters isReadable and errorCode of a connection, the isReading    *)
(* flag guarded by protectIsReading, the readQueue, the EventNotifier      *)
(* readInQueueHappened and the loop of ProcessRead.                        *)
(*                                                                         *)
(* What Connection::Read does to its socket and to its request is left to  *)
(* module SimpleHttp, which implements this specification.  An exception   *)
(* that escapes a thread ends the process: no further step.                *)
(***************************************************************************)
EXTENDS Naturals, Sequences, Functions, EventNotifier

CONSTANTS Conns,       \* the connections of the connection map
          NoConn,      \* a null std::shared_ptr<Connection>
          Workers,     \* the threads running ProcessRead
          MaxReadable  \* bound on the counter isReadable

ASSUME DispatchAssumption ==
    /\ Workers # {}
    /\ NoConn \notin Conns
    /\ MaxReadable \in Nat \ {0}

VARIABLES
    isReadable,  \* Connection::isReadable
    hasError,    \* Connection::errorCode != NO_ERROR
    isReading,   \* Connection::isReading
    readQueue,   \* ConnectionManager::readQueue
    closed,      \* ConnectionManager::closed
    srvPc,       \* where the server thread is
    srvConn,     \* the connection the server thread reports on
    pc,          \* where each reader thread is in ProcessRead
    cur          \* the local variable `connection` of each reader thread

connVars   == <<isReadable, hasError, isReading>>
serverVars == <<srvPc, srvConn>>
workerVars == <<pc, cur>>
vars == <<isReadable, hasError, isReading, readQueue, closed,
          srvPc, srvConn, pc, cur, signaled, sleeping>>

ServerPc == {"idle", "check", "push", "set", "notify", "closeSet", "closeNotify", "done"}
WorkerPc == {"loop", "wait", "drain", "dequeue", "read", "recheck", "requeue",
             "exitSet", "exitNotify", "exited"}

\* The places of ProcessRead where a thread works on the connection cur[w].
Busy == {"read", "recheck", "requeue"}
\* The places from which a thread looks at the queue again before it waits.
Draining == {"drain", "dequeue"} \cup Busy

TypeOK ==
    /\ isReadable \in [Conns -> 0..MaxReadable]
    /\ hasError \in [Conns -> BOOLEAN]
    /\ isReading \in [Conns -> BOOLEAN]
    /\ readQueue \in Seq(Conns)
    /\ closed \in BOOLEAN
    /\ srvPc \in ServerPc
    /\ srvConn \in Conns \cup {NoConn}
    /\ pc \in [Workers -> WorkerPc]
    /\ cur \in [Workers -> Conns \cup {NoConn}]
    /\ signaled \in BOOLEAN
    /\ sleeping \in SUBSET Workers

\* `closed` is not in the constructor's initialiser list: any value.
Init ==
    /\ isReadable = [c \in Conns |-> 0]
    /\ hasError = [c \in Conns |-> FALSE]
    /\ isReading = [c \in Conns |-> FALSE]
    /\ readQueue = <<>>
    /\ closed \in BOOLEAN
    /\ srvPc = "idle"
    /\ srvConn = NoConn
    /\ pc = [w \in Workers |-> "loop"]
    /\ cur = [w \in Workers |-> NoConn]
    /\ NotifierInit

-----------------------------------------------------------------------------
\* The server thread.

ReadEventHappend(c) == isReadable[c] > 0 \/ hasError[c]

\* CanRead(id): SetReadable, then on to CheckToInQueueRead.
CanRead(c) ==
    /\ srvPc = "idle"
    /\ isReadable[c] < MaxReadable
    /\ isReadable' = [isReadable EXCEPT ![c] = @ + 1]
    /\ srvPc' = "check"
    /\ srvConn' = c
    /\ UNCHANGED <<hasError, isReading, readQueue, closed, workerVars, notifierVars>>

\* ErrorOccurred(id) and TimeToExit(id): the error code is set and never
\* cleared, then on to CheckToInQueueRead.
ErrorOccurred(c) ==
    /\ srvPc = "idle"
    /\ hasError' = [hasError EXCEPT ![c] = TRUE]
    /\ srvPc' = "check"
    /\ srvConn' = c
    /\ UNCHANGED <<isReadable, isReading, readQueue, closed, workerVars, notifierVars>>

\* Mutant: IsReading() is not tested.
NeedInQueueRead_Untested ==
    /\ srvPc = "check"
    /\ ReadEventHappend(srvConn)
    /\ isReading' = [isReading EXCEPT ![srvConn] = TRUE]
    /\ srvPc' = "push"
    /\ UNCHANGED <<srvConn, isReadable, hasError, readQueue, closed, workerVars, notifierVars>>

\* NeedInQueueRead: test and set isReading under protectIsReading.
NeedInQueueRead ==
    /\ srvPc = "check"
    /\ IF ReadEventHappend(srvConn) /\ ~isReading[srvConn]
       THEN /\ isReading' = [isReading EXCEPT ![srvConn] = TRUE]
            /\ srvPc' = "push"
            /\ UNCHANGED srvConn
       ELSE /\ srvPc' = "idle"
            /\ srvConn' = NoConn
            /\ UNCHANGED isReading
    /\ UNCHANGED <<isReadable, hasError, readQueue, closed, workerVars, notifierVars>>

\* Mutant: CheckToInQueueRead does not call Set().
InQueue_NoSet ==
    /\ srvPc = "push"
    /\ readQueue' = Append(readQueue, srvConn)
    /\ srvPc' = "idle"
    /\ srvConn' = NoConn
    /\ UNCHANGED <<connVars, closed, workerVars, notifierVars>>

InQueue ==
    /\ srvPc = "push"
    /\ readQueue' = Append(readQueue, srvConn)
    /\ srvPc' = "set"
    /\ srvConn' = NoConn
    /\ UNCHANGED <<connVars, closed, workerVars, notifierVars>>

\* Set() on readInQueueHappened, called by CheckToInQueueRead or by Close.
ServerSet ==
    /\ \/ srvPc = "set" /\ srvPc' = "notify"
       \/ srvPc = "closeSet" /\ srvPc' = "closeNotify"
    /\ SetSignaled
    /\ UNCHANGED <<connVars, readQueue, closed, srvConn, workerVars>>

ServerNotify ==
    /\ \/ srvPc = "notify" /\ srvPc' = "idle"
       \/ srvPc = "closeNotify" /\ srvPc' = "done"
    /\ NotifyOne
    /\ UNCHANGED <<connVars, readQueue, closed, srvConn, workerVars>>

\* Close(), called by main after Server::Start has returned.
Close ==
    /\ srvPc = "idle"
    /\ srvPc' = IF closed THEN "done" ELSE "closeSet"
    /\ closed' = TRUE
    /\ UNCHANGED <<connVars, readQueue, srvConn, workerVars, notifierVars>>

-----------------------------------------------------------------------------
\* The reader threads.

Goto(w, from, to) ==
    /\ pc[w] = from
    /\ pc' = [pc EXCEPT ![w] = to]

\* Mutant: ProcessRead returns without its last Set().
TestOuter_NoSet(w) ==
    /\ Goto(w, "loop", IF closed THEN "exited" ELSE "wait")
    /\ UNCHANGED <<connVars, readQueue, closed, serverVars, cur, notifierVars>>

\* The outer test of `closed` in ProcessRead.
TestOuter(w) ==
    /\ Goto(w, "loop", IF closed THEN "exitSet" ELSE "wait")
    /\ UNCHANGED <<connVars, readQueue, closed, serverVars, cur, notifierVars>>

\* readInQueueHappened.Wait()
WaitReturns(w) ==
    /\ Goto(w, "wait", "drain")
    /\ TakeSignal(w)
    /\ UNCHANGED <<connVars, readQueue, closed, serverVars, cur>>

WaitBlocks(w) ==
    /\ pc[w] = "wait"
    /\ FallAsleep(w)
    /\ UNCHANGED <<connVars, readQueue, closed, serverVars, workerVars>>

WakeSpuriously(w) ==
    /\ SpuriousWakeup(w)
    /\ UNCHANGED <<connVars, readQueue, closed, serverVars, workerVars>>

\* The inner test of `closed`.
TestInner(w) ==
    /\ Goto(w, "drain", IF closed THEN "loop" ELSE "dequeue")
    /\ UNCHANGED <<connVars, readQueue, closed, serverVars, cur, notifierVars>>

DeQueue(w) ==
    /\ \/ /\ readQueue = <<>>
          /\ Goto(w, "dequeue", "loop")
          /\ UNCHANGED <<readQueue, cur>>
       \/ /\ readQueue # <<>>
          /\ Goto(w, "dequeue", "read")
          /\ cur' = [cur EXCEPT ![w] = Head(readQueue)]
          /\ readQueue' = Tail(readQueue)
    /\ UNCHANGED <<connVars, closed, serverVars, notifierVars>>

\* connection->Read(): one unit of isReadable is used up, if there is one.
Read(w) ==
    /\ Goto(w, "read", "recheck")
    /\ isReadable' = [isReadable EXCEPT ![cur[w]] = IF @ > 0 THEN @ - 1 ELSE @]
    /\ UNCHANGED <<hasError, isReading, readQueue, closed, serverVars, cur, notifierVars>>

\* Mutant: the flag is cleared without looking at the events again.
NeedReInQueueRead_NoRecheck(w) ==
    /\ pc[w] = "recheck"
    /\ isReading[cur[w]]
    /\ Goto(w, "recheck", "drain")
    /\ isReading' = [isReading EXCEPT ![cur[w]] = FALSE]
    /\ cur' = [cur EXCEPT ![w] = NoConn]
    /\ UNCHANGED <<isReadable, hasError, readQueue, closed, serverVars, notifierVars>>

\* NeedReInQueueRead throws when isReading is not set: no step of the thread.
NeedReInQueueRead(w) ==
    /\ pc[w] = "recheck"
    /\ isReading[cur[w]]
    /\ \/ /\ ReadEventHappend(cur[w])
          /\ Goto(w, "recheck", "requeue")
          /\ UNCHANGED <<isReading, cur>>
       \/ /\ ~ReadEventHappend(cur[w])
          /\ Goto(w, "recheck", "drain")
          /\ isReading' = [isReading EXCEPT ![cur[w]] = FALSE]
          /\ cur' = [cur EXCEPT ![w] = NoConn]
    /\ UNCHANGED <<isReadable, hasError, readQueue, closed, serverVars, notifierVars>>

\* The connection goes back to the queue without a Set().
ReInQueue(w) ==
    /\ Goto(w, "requeue", "drain")
    /\ readQueue' = Append(readQueue, cur[w])
    /\ cur' = [cur EXCEPT ![w] = NoConn]
    /\ UNCHANGED <<connVars, closed, serverVars, notifierVars>>

\* The Set() after the outer loop passes the wake-up on to the next thread.
ExitSet(w) ==
    /\ Goto(w, "exitSet", "exitNotify")
    /\ SetSignaled
    /\ UNCHANGED <<connVars, readQueue, closed, serverVars, cur>>

ExitNotify(w) ==
    /\ Goto(w, "exitNotify", "exited")
    /\ NotifyOne
    /\ UNCHANGED <<connVars, readQueue, closed, serverVars, cur>>

-----------------------------------------------------------------------------
ServerStep == NeedInQueueRead \/ InQueue \/ ServerSet \/ ServerNotify

WorkerStep(w) ==
    \/ TestOuter(w) \/ WaitReturns(w) \/ WaitBlocks(w)
    \/ TestInner(w) \/ DeQueue(w) \/ Read(w)
    \/ NeedReInQueueRead(w) \/ ReInQueue(w)
    \/ ExitSet(w) \/ ExitNotify(w)

\* The process has nothing left to do: the only states without a real step.
Finished ==
    /\ srvPc = "done"
    /\ \A w \in Workers : pc[w] = "exited"
    /\ UNCHANGED vars

Next ==
    \/ \E c \in Conns : CanRead(c) \/ ErrorOccurred(c)
    \/ ServerStep
    \/ Close
    \/ \E w \in Workers : WorkerStep(w) \/ WakeSpuriously(w)
    \/ Finished

Spec == Init /\ [][Next]_vars

\* The operating system runs every thread that can run.  Events, the end of
\* the server loop and spurious wake-ups are never forced.
FairSpec ==
    /\ Spec
    /\ WF_vars(ServerStep)
    /\ \A w \in Workers : WF_vars(WorkerStep(w))

-----------------------------------------------------------------------------
\* Two reader threads never work on the same connection: this is what lets
\* Connection::Read and the request parser run without a lock.
ReaderExclusion ==
    \A v, w \in Workers :
        pc[v] \in Busy /\ pc[w] \in Busy /\ cur[v] = cur[w] => v = w

\* A connection waits in readQueue at most once, and not while a thread reads
\* it: the queue never grows past the number of connections.
QueuedOnce ==
    /\ IsInjective(readQueue)
    /\ \A w \in Workers : pc[w] \in Busy => cur[w] \notin Range(readQueue)

\* The runtime_error of NeedReInQueueRead (connection.cpp:407) is never thrown.
ReInQueueReadNeverThrows ==
    \A w \in Workers : pc[w] = "recheck" => isReading[cur[w]]

\* isReading is set exactly while somebody is in charge of the connection: it
\* is queued, a thread reads it, or the server thread is about to queue it.
\* Otherwise NeedInQueueRead would refuse it for ever.
ReadingIsOwned ==
    \A c \in Conns :
        isReading[c] <=>
            \/ c \in Range(readQueue)
            \/ \E w \in Workers : pc[w] \in Busy /\ cur[w] = c
            \/ srvPc = "push" /\ srvConn = c

\* An event that has been counted on a connection nobody is reading is still
\* to be looked at by the server thread: the pair SetReadable / NeedInQueueRead
\* against Read / NeedReInQueueRead never strands an event.
NoStrandedEvent ==
    \A c \in Conns :
        ReadEventHappend(c) /\ ~isReading[c] => srvPc = "check" /\ srvConn = c

\* While the manager is open a queued connection always has a thread that will
\* look at the queue: one that is draining it, one that the raised flag lets
\* through, or the server thread is about to raise the flag.
NoLostWakeup ==
    readQueue # <<>> /\ ~closed =>
        \/ srvPc = "set"
        \/ \E w \in Workers : pc[w] \in Draining
        \/ /\ signaled
           /\ \/ srvPc = "notify"
              \/ \E w \in Workers : pc[w] \in {"loop", "wait"} /\ w \notin sleeping

\* A raised flag is not slept through: while a thread sleeps, a notify_one is
\* still to come or some thread is awake and has not left ProcessRead yet.
NotAllAsleep ==
    signaled /\ sleeping # {} =>
        \/ srvPc \in {"notify", "closeNotify"}
        \/ \E w \in Workers : w \notin sleeping /\ pc[w] # "exited"

\* A connection with something to read is read by some thread, or the manager
\* is closed: neither the queue nor the notifier starves a connection.
EventServed ==
    \A c \in Conns :
        isReadable[c] > 0 ~> closed \/ \E w \in Workers : pc[w] = "recheck" /\ cur[w] = c

\* Once `closed` is set every reader thread leaves ProcessRead: the Set() each
\* one makes on its way out reaches the ones still asleep.
WorkersExit == closed ~> \A w \in Workers : pc[w] = "exited"

-----------------------------------------------------------------------------
\* The inductive invariant behind the safety properties.

\* The locals of the threads: a thread has a connection exactly where the code
\* works on it, only a thread inside Wait() sleeps, only `closed` ends a loop.
LocalsOK ==
    /\ \A w \in Workers : pc[w] \in Busy <=> cur[w] # NoConn
    /\ srvPc \in {"check", "push"} <=> srvConn # NoConn
    /\ \A w \in sleeping : pc[w] = "wait"
    /\ \A w \in Workers : pc[w] \in {"exitSet", "exitNotify", "exited"} => closed
    /\ srvPc \in {"closeSet", "closeNotify", "done"} => closed

\* The connection the server thread is about to queue is in no other hands.
PushedAlone ==
    srvPc = "push" =>
        /\ srvConn \notin Range(readQueue)
        /\ \A w \in Workers : pc[w] \in Busy => cur[w] # srvConn

\* NoLostWakeup without the part that NotAllAsleep provides.
QueueWatched ==
    readQueue # <<>> /\ ~closed =>
        \/ srvPc = "set"
        \/ signaled
        \/ \E w \in Workers : pc[w] \in Draining

IInv ==
    /\ TypeOK
    /\ LocalsOK
    /\ ReaderExclusion
    /\ QueuedOnce
    /\ PushedAlone
    /\ ReadingIsOwned
    /\ NoStrandedEvent
    /\ QueueWatched
    /\ NotAllAsleep
=============================================================================
