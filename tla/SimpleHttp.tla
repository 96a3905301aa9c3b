----------------------------- MODULE SimpleHttp ------------------------------
(***************************************************************************)
(* The server of simple_http as a whole: Server (epoll loop, SocketMap),   *)
(* ConnectionManager (map, queues, write cache), Connection, the flags of  *)
(* HttpRequestHandler, and the kernel and the clients around them.         *)
(*                                                                         *)
(* Every thread has a stack of operations still to run: `ctl[t]`.  A step  *)
(* takes the operation at the top, makes its one access to shared state    *)
(* and puts what follows from it in its place.  An operation is a tuple: a *)
(* name and its arguments.                                                 *)
(***************************************************************************)
EXTENDS Naturals, Sequences, FiniteSets, Functions, FiniteSetsExt

CONSTANTS
    Readers, Writers,  \* the threads running ProcessRead and ProcessWrite
    MaxConns,          \* bound: connection ids are 1..MaxConns
    MaxFds,            \* descriptors the process can have: 1..MaxFds
    Envs,              \* the surroundings to consider, see env
    MaxReadEvents,     \* bound on isReadable, for ReadDispatch only
    None               \* no entry, no owner

Main == "main"   \* the thread of main() and Server::Start
Ids == 1..MaxConns
Fds == 1..MaxFds
ListenFd == 0
Threads == {Main} \cup Readers \cup Writers

ASSUME SimpleHttpAssumption ==
    /\ Readers # {} /\ Writers # {} /\ Readers \cap Writers = {}
    /\ Main \notin Readers \cup Writers
    /\ MaxConns \in Nat /\ MaxFds \in Nat \ {0}
    /\ \A e \in Envs : /\ e.clients \in 0..MaxConns
                       /\ e.chunks \in Nat \ {0} /\ e.respLen \in Nat \ {0}
                       /\ {e.partialWrites, e.signals} \subseteq BOOLEAN
                       /\ e.senders \subseteq Ids /\ e.resets \subseteq Ids
    /\ None \notin Nat

VARIABLES
    \* the kernel and the clients
    peer,        \* per client: chunks unsent, chunks in the socket, bytes got, ...
    owner,       \* the connection an open descriptor belongs to, or None
    epoll,       \* descriptors registered with epoll
    edge,        \* registered descriptors with an edge not yet reported
    connects,    \* clients that have connected so far
    backlog,     \* those still waiting in the listen queue
    \* Server
    batch,       \* the events returned by epoll_wait still to process
    sockets,     \* SocketMap::sockets; 0 is what operator[] inserts
    nextConnId,
    isTimeToExit,
    \* ConnectionManager
    conn,        \* the fields of each Connection and of its request handler
    connMap,     \* ConnectionMap: the ids in the map
    cache,       \* WriteCache: units of response per connection id
    readQueue, writeQueue,
    rSignaled, rSleeping,   \* readInQueueHappened
    wSignaled, wSleeping,   \* writeInQueueHappened
    closed,
    \* the process
    ctl,         \* the operations each thread has still to run
    process,     \* "running", "exited" (main returned) or "terminated"
    env          \* never changes: the clients that connect, the pieces a request
                 \* arrives in, the units of a response; may send buffers fill up,
                 \* SIGINT arrive?  which clients send, which may reset?

kernelVars   == <<peer, owner, epoll, edge, connects, backlog>>
serverVars   == <<batch, sockets, nextConnId, isTimeToExit>>
queueVars    == <<readQueue, writeQueue>>
rNotifier    == <<rSignaled, rSleeping>>
wNotifier    == <<wSignaled, wSleeping>>
notifierVars == <<rSignaled, rSleeping, wSignaled, wSleeping>>
storeVars    == <<connMap, cache>>
vars == <<kernelVars, serverVars, conn, storeVars, queueVars, notifierVars,
          closed, ctl, process, env>>

Chunks == env.chunks
RespLen == env.respLen

RN == INSTANCE EventNotifier WITH signaled <- rSignaled, sleeping <- rSleeping
WN == INSTANCE EventNotifier WITH signaled <- wSignaled, sleeping <- wSleeping

\* A fresh Connection (fd is set by Register) and its HttpRequestHandler.
NewConn == [fd |-> None, isReadable |-> 0, isWritable |-> 0, hasError |-> FALSE,
            isClosed |-> FALSE, isReading |-> FALSE, isWriting |-> FALSE,
            isReadWaiting |-> TRUE, isWriteWaiting |-> FALSE,
            received |-> 0, response |-> 0]
NewPeer == [unsent |-> Chunks, inbox |-> 0, full |-> FALSE, reset |-> FALSE, got |-> 0]

Init ==
    /\ env \in Envs
    /\ peer = [c \in Ids |-> NewPeer]
    /\ owner = [f \in Fds |-> None]
    /\ epoll = {} /\ edge = {}
    /\ connects = 0 /\ backlog = 0
    /\ batch = {}
    /\ sockets = [f \in Fds |-> None]
    /\ nextConnId = 0
    /\ isTimeToExit = FALSE
    /\ conn = [c \in Ids |-> NewConn]
    /\ connMap = {}
    /\ cache = [c \in Ids |-> 0]
    /\ readQueue = <<>> /\ writeQueue = <<>>
    /\ RN!NotifierInit /\ WN!NotifierInit
    /\ closed \in BOOLEAN
    /\ ctl = [t \in Threads |-> IF t = Main THEN << <<"Wait">> >> ELSE << <<"Loop">> >>]
    /\ process = "running"

-----------------------------------------------------------------------------
\* Running operations.

At(t, name) == process = "running" /\ ctl[t] # <<>> /\ Head(ctl[t])[1] = name
Arg(t) == Head(ctl[t])[2]
\* The top operation is done; `ops` are to run before the rest.
Then(t, ops) == /\ ctl' = [ctl EXCEPT ![t] = ops \o Tail(@)]
                /\ UNCHANGED process
\* An exception nobody catches: in a detached thread std::terminate; in the
\* server thread the stack unwinds through ~ConnectionManager to main's catch.
Throws(t) ==
    IF t = Main
    THEN ctl' = [ctl EXCEPT ![t] = << <<"ManagerClose">>, <<"Return">> >>] /\ UNCHANGED process
    ELSE process' = "terminated" /\ UNCHANGED ctl

IsWaiting(c) == conn[c].isReadWaiting \/ conn[c].isWriteWaiting
ReadEventHappend(c) == conn[c].isReadable > 0 \/ conn[c].hasError
WriteEventHappend(c) == conn[c].isWritable > 0 \/ conn[c].hasError
CanClose(c) == ~IsWaiting(c)
HasContentToWrite(c) == cache[c] > 0

-----------------------------------------------------------------------------
\* The kernel and the clients (external).

Clients == UNCHANGED <<serverVars, conn, storeVars, queueVars, notifierVars, closed, ctl, process>>
IsOpen(f) == owner[f] # None
\* An edge is remembered for the registered descriptor of connection c.
Edge(c) == edge' = edge \cup {f \in epoll : owner[f] = c}
Connected(c) == \E f \in Fds : owner[f] = c

Connect ==
    /\ process = "running"
    /\ connects < env.clients
    /\ connects' = connects + 1
    /\ backlog' = backlog + 1
    /\ UNCHANGED <<peer, owner, epoll, edge>> /\ Clients

\* The next chunk of the request arrives.
Send(c) ==
    /\ c \in env.senders /\ process = "running" /\ Connected(c) /\ peer[c].unsent > 0 /\ ~peer[c].reset
    /\ peer' = [peer EXCEPT ![c].unsent = @ - 1, ![c].inbox = @ + 1]
    /\ Edge(c)
    /\ UNCHANGED <<owner, epoll, connects, backlog>> /\ Clients

\* The client makes room in a full send buffer.
Drain(c) ==
    /\ process = "running" /\ peer[c].full
    /\ peer' = [peer EXCEPT ![c].full = FALSE]
    /\ Edge(c)
    /\ UNCHANGED <<owner, epoll, connects, backlog>> /\ Clients

Reset(c) ==
    /\ c \in env.resets /\ process = "running" /\ Connected(c) /\ ~peer[c].reset
    /\ peer' = [peer EXCEPT ![c].reset = TRUE]
    /\ Edge(c)
    /\ UNCHANGED <<owner, epoll, connects, backlog>> /\ Clients

\* SIGINT: SigHandler raises the flag.
SigHandler ==
    /\ env.signals /\ process = "running" /\ ~isTimeToExit
    /\ isTimeToExit' = TRUE
    /\ UNCHANGED <<kernelVars, batch, sockets, nextConnId, conn, storeVars, queueVars,
                   notifierVars, closed, ctl, process>>

\* The readiness of a descriptor at the moment epoll_wait looks at it.
Mask(f) == LET p == peer[owner[f]] IN
    {e \in {"in", "out", "err"} : \/ p.reset
                                  \/ e = "in" /\ p.inbox > 0
                                  \/ e = "out" /\ ~p.full}

-----------------------------------------------------------------------------
\* The server thread: Server::Start and what it calls.

\* Mutant: the exit test only follows a batch of events.
Wait_TimeoutLoops ==
    /\ At(Main, "Wait")
    /\ batch' = {<<f, Mask(f)>> : f \in edge}
                 \cup (IF backlog > 0 THEN {<<ListenFd, {"in"}>>} ELSE {})
    /\ edge' = {}
    /\ Then(Main, IF batch' = {} THEN << <<"Wait">> >> ELSE << <<"Events">> >>)
    /\ UNCHANGED <<peer, owner, epoll, connects, backlog, sockets, nextConnId, isTimeToExit, conn,
                   storeVars, queueVars, notifierVars, closed>>

\* ep->Wait: edges are reported once, a pending connection as long as it waits
\* (a listen socket is level-triggered).  No event at all: timeout or EINTR.
Wait ==
    /\ At(Main, "Wait")
    /\ batch' = {<<f, Mask(f)>> : f \in edge}
                 \cup (IF backlog > 0 THEN {<<ListenFd, {"in"}>>} ELSE {})
    /\ edge' = {}
    /\ Then(Main, << <<"Events">> >>)
    /\ UNCHANGED <<peer, owner, epoll, connects, backlog, sockets, nextConnId, isTimeToExit, conn,
                   storeVars, queueVars, notifierVars, closed>>

\* ProcessEvents in the kernel's order; behind the last event the exit test.
ProcessEvents ==
    /\ At(Main, "Events")
    /\ \/ \E e \in batch :
            /\ batch' = batch \ {e}
            /\ Then(Main, IF e[1] = ListenFd THEN << <<"Accept">>, <<"Events">> >>
                          ELSE << <<"CheckFd", e[1], e[2]>>, <<"Events">> >>)
       \/ /\ batch = {}
          /\ Then(Main, IF isTimeToExit THEN << <<"Release">> >> ELSE << <<"Wait">> >>)
          /\ UNCHANGED batch
    /\ UNCHANGED <<kernelVars, sockets, nextConnId, isTimeToExit, conn, storeVars, queueVars,
                   notifierVars, closed>>

\* accept() takes the lowest free descriptor; it fails when there is none.
Accept ==
    /\ At(Main, "Accept")
    /\ LET free == {f \in Fds : ~IsOpen(f)} IN
       IF free = {} THEN Throws(Main) /\ UNCHANGED <<owner, backlog>>
       ELSE /\ owner' = [owner EXCEPT ![Min(free)] = nextConnId + 1]
            /\ backlog' = backlog - 1
            /\ Then(Main, << <<"CheckNew", Min(free)>> >>)
    /\ UNCHANGED <<peer, epoll, edge, connects, serverVars, conn, storeVars, queueVars, notifierVars, closed>>

\* ProcessNewConnection: the map must not know the new descriptor.
CheckNew ==
    /\ At(Main, "CheckNew")
    /\ IF sockets[Arg(Main)] # None THEN Throws(Main)
       ELSE Then(Main, << <<"EpollAdd", Arg(Main)>>, <<"Register", Arg(Main)>> >>)
    /\ UNCHANGED <<kernelVars, serverVars, conn, storeVars, queueVars, notifierVars, closed>>

EpollAdd ==
    /\ At(Main, "EpollAdd")
    /\ IF IsOpen(Arg(Main))
       THEN /\ epoll' = epoll \cup {Arg(Main)}
            /\ edge' = edge \cup {Arg(Main)}
            /\ Then(Main, <<>>)
       ELSE Throws(Main) /\ UNCHANGED <<epoll, edge>>
    /\ UNCHANGED <<peer, owner, connects, backlog, serverVars, conn, storeVars, queueVars, notifierVars, closed>>

\* socketMap->Add and reportNewConnection -> NewConnection -> connectionMap->Add.
Register ==
    /\ At(Main, "Register")
    /\ nextConnId' = nextConnId + 1
    /\ sockets' = [sockets EXCEPT ![Arg(Main)] = nextConnId']
    /\ conn' = [conn EXCEPT ![nextConnId'].fd = Arg(Main)]
    /\ connMap' = connMap \cup {nextConnId'}
    /\ Then(Main, <<>>)
    /\ UNCHANGED <<kernelVars, batch, isTimeToExit, cache, queueVars, notifierVars, closed>>

\* ProcessEvent: the map must know the descriptor; then one report per bit.
CheckFd ==
    /\ At(Main, "CheckFd")
    /\ IF sockets[Arg(Main)] = None THEN Throws(Main)
       ELSE LET reports == SelectSeq(<<"in", "out", "err">>, LAMBDA e : e \in Head(ctl[Main])[3])
            IN  Then(Main, [i \in 1..Len(reports) |-> <<"GetSocket", Arg(Main), reports[i]>>])
    /\ UNCHANGED <<kernelVars, serverVars, conn, storeVars, queueVars, notifierVars, closed>>

\* socketMap->GetValue(fd): operator[] inserts 0 for a descriptor it lacks.
GetSocket ==
    /\ At(Main, "GetSocket")
    /\ LET f == Arg(Main)
           id == IF sockets[f] = None THEN 0 ELSE sockets[f]
       IN /\ sockets' = [sockets EXCEPT ![f] = id]
          /\ Then(Main, << <<"Report", id, Head(ctl[Main])[3]>> >>)
    /\ UNCHANGED <<kernelVars, batch, nextConnId, isTimeToExit, conn, storeVars, queueVars,
                   notifierVars, closed>>

\* CanRead, CanWrite, ErrorOccurred, TimeToExit: connectionMap->GetValue(id);
\* its exception is caught and logged.
Report ==
    /\ At(Main, "Report")
    /\ Then(Main, IF Arg(Main) \in connMap THEN << <<"Mark", Arg(Main), Head(ctl[Main])[3]>> >> ELSE <<>>)
    /\ UNCHANGED <<kernelVars, serverVars, conn, storeVars, queueVars, notifierVars, closed>>

\* SetReadable, SetWritable, SetError, SetToClose.
Mark ==
    /\ At(Main, "Mark")
    /\ LET c == Arg(Main)
           kind == Head(ctl[Main])[3]
       IN \/ /\ kind = "in"
             /\ conn' = [conn EXCEPT ![c].isReadable = @ + 1]
             /\ Then(Main, << <<"CheckRead", c>> >>)
          \/ /\ kind = "out"
             /\ conn' = [conn EXCEPT ![c].isWritable = @ + 1]
             /\ Then(Main, << <<"CheckWrite", c>> >>)
          \/ /\ kind \in {"err", "exit"}
             /\ conn' = [conn EXCEPT ![c].hasError = TRUE]
             /\ Then(Main, << <<"CheckRead", c>>, <<"CheckWrite", c>> >>)
    /\ UNCHANGED <<kernelVars, serverVars, storeVars, queueVars, notifierVars, closed>>

\* Server::Release: TimeToExit for every value of the map, in key order; then
\* the listen socket is closed, Start returns and main closes the manager.
Release ==
    /\ At(Main, "Release")
    /\ LET known == SelectSeq([f \in Fds |-> sockets[f]], LAMBDA v : v # None)
       IN Then(Main, [i \in 1..Len(known) |-> <<"Report", known[i], "exit">>]
                      \o << <<"ManagerClose">>, <<"Return">> >>)
    /\ UNCHANGED <<kernelVars, serverVars, conn, storeVars, queueVars, notifierVars, closed>>

\* ConnectionManager::Close
ManagerClose ==
    /\ At(Main, "ManagerClose")
    /\ closed' = TRUE
    /\ Then(Main, IF closed THEN <<>> ELSE << <<"SetW">>, <<"NotifyW">>, <<"SetR">>, <<"NotifyR">> >>)
    /\ UNCHANGED <<kernelVars, serverVars, conn, storeVars, queueVars, notifierVars>>

\* main returns: the process ends, with whatever its threads were doing.
Return ==
    /\ At(Main, "Return")
    /\ process' = "exited"
    /\ UNCHANGED <<kernelVars, serverVars, conn, storeVars, queueVars, notifierVars, closed, ctl>>

-----------------------------------------------------------------------------
\* Queues and notifiers, used by the server thread and by the readers.

\* Mutant: IsReading() is not tested.
NeedInQueueRead_Untested(t) ==
    /\ At(t, "CheckRead")
    /\ LET c == Arg(t) IN
       IF ReadEventHappend(c)
       THEN /\ conn' = [conn EXCEPT ![c].isReading = TRUE]
            /\ Then(t, << <<"InQueueRead", c>>, <<"SetR">>, <<"NotifyR">> >>)
       ELSE Then(t, <<>>) /\ UNCHANGED conn
    /\ UNCHANGED <<kernelVars, serverVars, storeVars, queueVars, notifierVars, closed>>

\* NeedInQueueRead, under protectIsReading.
NeedInQueueRead(t) ==
    /\ At(t, "CheckRead")
    /\ LET c == Arg(t) IN
       IF ReadEventHappend(c) /\ ~conn[c].isReading
       THEN /\ conn' = [conn EXCEPT ![c].isReading = TRUE]
            /\ Then(t, << <<"InQueueRead", c>>, <<"SetR">>, <<"NotifyR">> >>)
       ELSE Then(t, <<>>) /\ UNCHANGED conn
    /\ UNCHANGED <<kernelVars, serverVars, storeVars, queueVars, notifierVars, closed>>

\* Mutant: CheckToInQueueWrite does not call Set().
NeedInQueueWrite_NoSet(t) ==
    /\ At(t, "CheckWrite")
    /\ LET c == Arg(t) IN
       IF /\ (WriteEventHappend(c) /\ HasContentToWrite(c)) \/ CanClose(c)
          /\ ~conn[c].isWriting
       THEN /\ conn' = [conn EXCEPT ![c].isWriting = TRUE]
            /\ Then(t, << <<"InQueueWrite", c>> >>)
       ELSE Then(t, <<>>) /\ UNCHANGED conn
    /\ UNCHANGED <<kernelVars, serverVars, storeVars, queueVars, notifierVars, closed>>

\* NeedInQueueWrite, under protectIsWriting.
NeedInQueueWrite(t) ==
    /\ At(t, "CheckWrite")
    /\ LET c == Arg(t) IN
       IF /\ (WriteEventHappend(c) /\ HasContentToWrite(c)) \/ CanClose(c)
          /\ ~conn[c].isWriting
       THEN /\ conn' = [conn EXCEPT ![c].isWriting = TRUE]
            /\ Then(t, << <<"InQueueWrite", c>>, <<"SetW">>, <<"NotifyW">> >>)
       ELSE Then(t, <<>>) /\ UNCHANGED conn
    /\ UNCHANGED <<kernelVars, serverVars, storeVars, queueVars, notifierVars, closed>>

InQueue(t) ==
    /\ \/ /\ At(t, "InQueueRead")
          /\ readQueue' = Append(readQueue, Arg(t)) /\ UNCHANGED writeQueue
       \/ /\ At(t, "InQueueWrite")
          /\ writeQueue' = Append(writeQueue, Arg(t)) /\ UNCHANGED readQueue
    /\ Then(t, <<>>)
    /\ UNCHANGED <<kernelVars, serverVars, conn, storeVars, notifierVars, closed>>

Set(t) ==
    /\ \/ At(t, "SetR") /\ RN!SetSignaled /\ UNCHANGED wNotifier
       \/ At(t, "SetW") /\ WN!SetSignaled /\ UNCHANGED rNotifier
       \/ At(t, "NotifyR") /\ RN!NotifyOne /\ UNCHANGED wNotifier
       \/ At(t, "NotifyW") /\ WN!NotifyOne /\ UNCHANGED rNotifier
    /\ Then(t, <<>>)
    /\ UNCHANGED <<kernelVars, serverVars, conn, storeVars, queueVars, closed>>

-----------------------------------------------------------------------------
\* The loop of ProcessRead and ProcessWrite.

\* The outer test of closed.
Loop(t) ==
    /\ At(t, "Loop")
    /\ Then(t, IF ~closed THEN << <<"WaitEvent">>, <<"Drain">>, <<"Loop">> >>
               ELSE IF t \in Readers THEN << <<"SetR">>, <<"NotifyR">> >>
               ELSE << <<"SetW">>, <<"NotifyW">> >>)
    /\ UNCHANGED <<kernelVars, serverVars, conn, storeVars, queueVars, notifierVars, closed>>

\* readInQueueHappened.Wait() or writeInQueueHappened.Wait()
WaitEvent(t) ==
    /\ At(t, "WaitEvent")
    /\ \/ t \in Readers /\ RN!TakeSignal(t) /\ Then(t, <<>>) /\ UNCHANGED wNotifier
       \/ t \in Writers /\ WN!TakeSignal(t) /\ Then(t, <<>>) /\ UNCHANGED rNotifier
       \/ t \in Readers /\ RN!FallAsleep(t) /\ UNCHANGED <<wNotifier, ctl, process>>
       \/ t \in Writers /\ WN!FallAsleep(t) /\ UNCHANGED <<rNotifier, ctl, process>>
    /\ UNCHANGED <<kernelVars, serverVars, conn, storeVars, queueVars, closed>>

\* The inner test of closed.
TestInner(t) ==
    /\ At(t, "Drain")
    /\ Then(t, IF closed THEN <<>> ELSE << <<"DeQueue">>, <<"Drain">> >>)
    /\ UNCHANGED <<kernelVars, serverVars, conn, storeVars, queueVars, notifierVars, closed>>

\* DeQueue; an empty queue breaks out of the inner loop.
DeQueue(t) ==
    /\ At(t, "DeQueue")
    /\ LET queue == IF t \in Readers THEN readQueue ELSE writeQueue IN
       IF queue = <<>>
       THEN ctl' = [ctl EXCEPT ![t] = << <<"Loop">> >>] /\ UNCHANGED <<queueVars, process>>
       ELSE LET c == Head(queue) IN
            IF t \in Readers
            THEN /\ readQueue' = Tail(queue) /\ UNCHANGED writeQueue
                 /\ Then(t, << <<"Read", c>>, <<"ReCheckRead", c>> >>)
            ELSE /\ writeQueue' = Tail(queue) /\ UNCHANGED readQueue
                 /\ Then(t, << <<"GetCache", c>>, <<"Write", c>>, <<"ReCheckWrite", c>> >>)
    /\ UNCHANGED <<kernelVars, serverVars, conn, storeVars, notifierVars, closed>>

\* NeedReInQueueRead, NeedReInQueueWrite: the flag must be set.
ReCheck(t) ==
    /\ \/ /\ At(t, "ReCheckRead")
          /\ LET c == Arg(t) IN
             IF ~conn[c].isReading THEN Throws(t) /\ UNCHANGED conn
             ELSE IF ReadEventHappend(c) THEN Then(t, << <<"InQueueRead", c>> >>) /\ UNCHANGED conn
             ELSE conn' = [conn EXCEPT ![c].isReading = FALSE] /\ Then(t, <<>>)
       \/ /\ At(t, "ReCheckWrite")
          /\ LET c == Arg(t) IN
             IF ~conn[c].isWriting THEN Throws(t) /\ UNCHANGED conn
             ELSE IF WriteEventHappend(c) /\ HasContentToWrite(c)
                  THEN Then(t, << <<"InQueueWrite", c>> >>) /\ UNCHANGED conn
             ELSE conn' = [conn EXCEPT ![c].isWriting = FALSE] /\ Then(t, <<>>)
    /\ UNCHANGED <<kernelVars, serverVars, storeVars, queueVars, notifierVars, closed>>

-----------------------------------------------------------------------------
\* Connection::Close, run by a reader or a writer.

\* The test of isClosed only decides whether a warning is logged.
Close(c) == << <<"Close", c>>, <<"EpollDelete", c>>, <<"CloseFd", c>>,
               <<"DeleteSocket", c>>, <<"Erase", c>>, <<"SetClosed", c>> >>

TestClosed(t) ==
    /\ At(t, "Close")
    /\ Then(t, <<>>)
    /\ UNCHANGED <<kernelVars, serverVars, conn, storeVars, queueVars, notifierVars, closed>>

\* ep->Delete(fd): fails for a closed or unregistered descriptor.
EpollDelete(t) ==
    /\ At(t, "EpollDelete")
    /\ LET f == conn[Arg(t)].fd IN
       IF f \in epoll
       THEN /\ epoll' = epoll \ {f}
            /\ edge' = edge \ {f}
            /\ Then(t, <<>>)
       ELSE Throws(t) /\ UNCHANGED <<epoll, edge>>
    /\ UNCHANGED <<peer, owner, connects, backlog, serverVars, conn, storeVars, queueVars,
                   notifierVars, closed>>

\* CloseFd(fd): the descriptor is free for the next accept.
CloseFd(t) ==
    /\ At(t, "CloseFd")
    /\ LET f == conn[Arg(t)].fd IN
       IF IsOpen(f)
       THEN /\ owner' = [owner EXCEPT ![f] = None]
            /\ epoll' = epoll \ {f}
            /\ edge' = edge \ {f}
            /\ Then(t, <<>>)
       ELSE Throws(t) /\ UNCHANGED <<owner, epoll, edge>>
    /\ UNCHANGED <<peer, connects, backlog, serverVars, conn, storeVars, queueVars, notifierVars, closed>>

\* socketMap->Delete(fd)
DeleteSocket(t) ==
    /\ At(t, "DeleteSocket")
    /\ LET f == conn[Arg(t)].fd IN
       IF sockets[f] # None
       THEN sockets' = [sockets EXCEPT ![f] = None] /\ Then(t, <<>>)
       ELSE Throws(t) /\ UNCHANGED sockets
    /\ UNCHANGED <<kernelVars, batch, nextConnId, isTimeToExit, conn, storeVars, queueVars,
                   notifierVars, closed>>

\* release() -> ReleaseConnection -> connectionMap->Erase(id); what Erase
\* throws for an id that is not in the map is caught.  Then isClosed is set.
Erase(t) ==
    /\ At(t, "Erase")
    /\ connMap' = connMap \ {Arg(t)}
    /\ Then(t, <<>>)
    /\ UNCHANGED <<kernelVars, serverVars, conn, cache, queueVars, notifierVars, closed>>

SetClosed(t) ==
    /\ At(t, "SetClosed")
    /\ conn' = [conn EXCEPT ![Arg(t)].isClosed = TRUE]
    /\ Then(t, <<>>)
    /\ UNCHANGED <<kernelVars, serverVars, storeVars, queueVars, notifierVars, closed>>

-----------------------------------------------------------------------------
\* Connection::Read and HttpRequestHandler::ReadCompleteCallback.

\* A connection with an error is completed and closed; the code goes on.
Read(t) ==
    /\ At(t, "Read")
    /\ LET c == Arg(t) IN
       Then(t, IF conn[c].hasError
               THEN << <<"ReadComplete", c>> >> \o Close(c) \o << <<"TakeReadable", c>> >>
               ELSE << <<"TakeReadable", c>> >>)
    /\ UNCHANGED <<kernelVars, serverVars, conn, storeVars, queueVars, notifierVars, closed>>

TakeReadable(t) ==
    /\ At(t, "TakeReadable")
    /\ LET c == Arg(t) IN
       IF conn[c].isReadable = 0 THEN Then(t, <<>>) /\ UNCHANGED conn
       ELSE /\ conn' = [conn EXCEPT ![c].isReadable = @ - 1]
            /\ Then(t, << <<"SocketRead", c>> >>)
    /\ UNCHANGED <<kernelVars, serverVars, storeVars, queueVars, notifierVars, closed>>

\* Mutant: CheckDataIntegrity is not consulted.
SocketRead_NoIntegrity(t) ==
    /\ At(t, "SocketRead")
    /\ LET c == Arg(t)
           o == owner[conn[c].fd]
       IN IF o = None \/ (o # None /\ peer[o].reset)
          THEN Throws(t) /\ UNCHANGED <<peer, conn>>
          ELSE /\ peer' = [peer EXCEPT ![o].inbox = 0]
               /\ conn' = [conn EXCEPT ![c].received = Min({Chunks, @ + peer[o].inbox})]
               /\ Then(t, << <<"ReadComplete", c>>, <<"EndIO", c>> >>)
    /\ UNCHANGED <<owner, epoll, edge, connects, backlog, serverVars, storeVars, queueVars,
                   notifierVars, closed>>

\* SocketHandler::Read empties the socket behind the descriptor, whoever owns
\* it by now; AppendReceivedData and CheckDataIntegrity follow.
SocketRead(t) ==
    /\ At(t, "SocketRead")
    /\ LET c == Arg(t)
           o == owner[conn[c].fd]
       IN IF o = None \/ (o # None /\ peer[o].reset)
          THEN Throws(t) /\ UNCHANGED <<peer, conn>>
          ELSE LET total == Min({Chunks, conn[c].received + peer[o].inbox}) IN
               /\ peer' = [peer EXCEPT ![o].inbox = 0]
               /\ conn' = [conn EXCEPT ![c].received = total]
               /\ Then(t, (IF total = Chunks THEN << <<"ReadComplete", c>> >> ELSE <<>>)
                           \o << <<"EndIO", c>> >>)
    /\ UNCHANGED <<owner, epoll, edge, connects, backlog, serverVars, storeVars, queueVars,
                   notifierVars, closed>>

\* ReadCompleteCallback: the response is written once; isWriteWaiting is set
\* only after AddToWriteCache has returned.
ReadComplete(t) ==
    /\ At(t, "ReadComplete")
    /\ LET c == Arg(t) IN
       IF conn[c].isReadWaiting
       THEN /\ conn' = [conn EXCEPT ![c].isReadWaiting = FALSE]
            /\ Then(t, << <<"AddCache", c>>, <<"GetConnection", c>>, <<"SetWriteWaiting", c>> >>)
       ELSE Then(t, <<>>) /\ UNCHANGED conn
    /\ UNCHANGED <<kernelVars, serverVars, storeVars, queueVars, notifierVars, closed>>

AddCache(t) ==
    /\ At(t, "AddCache")
    /\ cache' = [cache EXCEPT ![Arg(t)] = @ + RespLen]
    /\ Then(t, <<>>)
    /\ UNCHANGED <<kernelVars, serverVars, conn, connMap, queueVars, notifierVars, closed>>

\* AddToWriteCache looks the connection up; a missing id throws in the reader.
GetConnection(t) ==
    /\ At(t, "GetConnection")
    /\ IF Arg(t) \in connMap THEN Then(t, << <<"CheckWrite", Arg(t)>> >>) ELSE Throws(t)
    /\ UNCHANGED <<kernelVars, serverVars, conn, storeVars, queueVars, notifierVars, closed>>

SetWriteWaiting(t) ==
    /\ At(t, "SetWriteWaiting")
    /\ conn' = [conn EXCEPT ![Arg(t)].isWriteWaiting = TRUE]
    /\ Then(t, <<>>)
    /\ UNCHANGED <<kernelVars, serverVars, storeVars, queueVars, notifierVars, closed>>

\* The last test of Connection::Read and of Connection::Write.
EndIO(t) ==
    /\ At(t, "EndIO")
    /\ Then(t, IF IsWaiting(Arg(t)) THEN <<>> ELSE Close(Arg(t)))
    /\ UNCHANGED <<kernelVars, serverVars, conn, storeVars, queueVars, notifierVars, closed>>

-----------------------------------------------------------------------------
\* The body of ProcessWrite's loop, Connection::Write and WriteCompleteCallback.

\* Mutant: the cached content is copied instead of swapped out.
GetCache_Copies(t) ==
    /\ At(t, "GetCache")
    /\ conn' = [conn EXCEPT ![Arg(t)].response = @ + cache[Arg(t)]]
    /\ Then(t, <<>>)
    /\ UNCHANGED <<kernelVars, serverVars, storeVars, queueVars, notifierVars, closed>>

GetCache(t) ==
    /\ At(t, "GetCache")
    /\ conn' = [conn EXCEPT ![Arg(t)].response = @ + cache[Arg(t)]]
    /\ cache' = [cache EXCEPT ![Arg(t)] = 0]
    /\ Then(t, <<>>)
    /\ UNCHANGED <<kernelVars, serverVars, connMap, queueVars, notifierVars, closed>>

Write(t) ==
    /\ At(t, "Write")
    /\ LET c == Arg(t) IN
       Then(t, IF conn[c].hasError
               THEN << <<"WriteComplete", c>> >> \o Close(c) \o << <<"TakeWritable", c>> >>
               ELSE << <<"TakeWritable", c>> >>)
    /\ UNCHANGED <<kernelVars, serverVars, conn, storeVars, queueVars, notifierVars, closed>>

TakeWritable(t) ==
    /\ At(t, "TakeWritable")
    /\ LET c == Arg(t) IN
       IF conn[c].isWritable = 0 THEN Then(t, <<>>) /\ UNCHANGED conn
       ELSE /\ conn' = [conn EXCEPT ![c].isWritable = @ - 1]
            /\ Then(t, IF conn[c].response = 0 THEN <<>> ELSE << <<"SocketWrite", c>> >>)
    /\ UNCHANGED <<kernelVars, serverVars, storeVars, queueVars, notifierVars, closed>>

\* SocketHandler::Write: as much as the send buffer takes, to whoever owns the
\* descriptor by now.  Writing to a reset connection raises SIGPIPE.
SocketWrite(t) ==
    /\ At(t, "SocketWrite")
    /\ LET c == Arg(t)
           o == owner[conn[c].fd]
           len == conn[c].response
       IN IF o = None \/ (o # None /\ peer[o].reset)
          THEN Throws(t) /\ UNCHANGED <<peer, conn>>
          ELSE \E n \in (IF peer[o].full THEN {0} ELSE IF env.partialWrites THEN 1..len ELSE {len}) :
               /\ peer' = [peer EXCEPT ![o].got = @ + n, ![o].full = n < len]
               /\ conn' = [conn EXCEPT ![c].response = len - n]
               /\ Then(t, (IF n = len THEN << <<"WriteComplete", c>> >> ELSE <<>>)
                           \o << <<"EndIO", c>> >>)
    /\ UNCHANGED <<owner, epoll, edge, connects, backlog, serverVars, storeVars, queueVars,
                   notifierVars, closed>>

WriteComplete(t) ==
    /\ At(t, "WriteComplete")
    /\ conn' = [conn EXCEPT ![Arg(t)].isWriteWaiting = FALSE]
    /\ Then(t, <<>>)
    /\ UNCHANGED <<kernelVars, serverVars, storeVars, queueVars, notifierVars, closed>>

-----------------------------------------------------------------------------
ServerStep ==
    /\ \/ Wait \/ ProcessEvents \/ Accept \/ CheckNew \/ EpollAdd \/ Register \/ CheckFd
       \/ GetSocket \/ Report \/ Mark \/ Release \/ ManagerClose \/ Return
       \/ NeedInQueueRead(Main) \/ NeedInQueueWrite(Main) \/ InQueue(Main) \/ Set(Main)
    /\ UNCHANGED env

CloseStep(t) ==
    \/ TestClosed(t) \/ EpollDelete(t) \/ CloseFd(t) \/ DeleteSocket(t) \/ Erase(t) \/ SetClosed(t)

LoopStep(t) ==
    \/ Loop(t) \/ WaitEvent(t) \/ TestInner(t) \/ DeQueue(t) \/ ReCheck(t)
    \/ InQueue(t) \/ Set(t) \/ EndIO(t) \/ CloseStep(t)

ReaderStep(t) ==
    /\ \/ Read(t) \/ TakeReadable(t) \/ SocketRead(t) \/ ReadComplete(t) \/ AddCache(t)
       \/ GetConnection(t) \/ NeedInQueueWrite(t) \/ SetWriteWaiting(t) \/ LoopStep(t)
    /\ UNCHANGED env

WriterStep(t) ==
    /\ \/ GetCache(t) \/ Write(t) \/ TakeWritable(t) \/ SocketWrite(t) \/ WriteComplete(t)
       \/ LoopStep(t)
    /\ UNCHANGED env

ClientStep ==
    /\ Connect \/ \E c \in Ids : Send(c) \/ Drain(c) \/ Reset(c)
    /\ UNCHANGED env

\* The process is gone.
Ended == process # "running" /\ UNCHANGED vars

Next ==
    \/ ServerStep
    \/ \E t \in Readers : ReaderStep(t)
    \/ \E t \in Writers : WriterStep(t)
    \/ ClientStep
    \/ SigHandler /\ UNCHANGED env
    \/ Ended

Spec == Init /\ [][Next]_vars

\* The operating system runs every thread that can run; clients and SIGINT are
\* not forced, epoll_wait returns after its timeout at the latest.
FairSpec ==
    /\ Spec
    /\ WF_vars(ServerStep)
    /\ \A t \in Readers : WF_vars(ReaderStep(t))
    /\ \A t \in Writers : WF_vars(WriterStep(t))

-----------------------------------------------------------------------------
\* The read side implements ReadDispatch.

Pending(t) == {ctl[t][i][1] : i \in DOMAIN ctl[t]}
Top(t) == IF ctl[t] = <<>> THEN "none" ELSE Head(ctl[t])[1]
\* The connection of a pending operation with that name.
Subject(t, names) == LET i == CHOOSE i \in DOMAIN ctl[t] : ctl[t][i][1] \in names
                     IN  ctl[t][i][2]

\* main is behind the first statement of ConnectionManager::Close.
Closing == "Return" \in Pending(Main) /\ "ManagerClose" \notin Pending(Main)

ServerAt ==
    IF Closing THEN IF "SetR" \in Pending(Main) THEN "closeSet"
                    ELSE IF "NotifyR" \in Pending(Main) THEN "closeNotify" ELSE "done"
    ELSE CASE Top(Main) = "CheckRead" -> "check"
           [] Top(Main) = "InQueueRead" -> "push"
           [] Top(Main) = "SetR" -> "set"
           [] Top(Main) = "NotifyR" -> "notify"
           [] OTHER -> "idle"

ReaderAt(t) ==
    CASE Top(t) = "Loop" -> "loop"
      [] Top(t) = "WaitEvent" -> "wait"
      [] Top(t) = "Drain" -> "drain"
      [] Top(t) = "DeQueue" -> "dequeue"
      [] Pending(t) \cap {"Read", "TakeReadable"} # {} -> "read"
      [] "ReCheckRead" \in Pending(t) -> "recheck"
      [] Top(t) = "InQueueRead" -> "requeue"
      [] Top(t) = "SetR" -> "exitSet"
      [] Top(t) = "NotifyR" -> "exitNotify"
      [] OTHER -> "exited"

ReadSide == INSTANCE ReadDispatch WITH
    Conns <- Ids, NoConn <- None, Workers <- Readers, MaxReadable <- MaxReadEvents,
    isReadable <- [c \in Ids |-> conn[c].isReadable],
    hasError   <- [c \in Ids |-> conn[c].hasError],
    isReading  <- [c \in Ids |-> conn[c].isReading],
    srvPc      <- ServerAt,
    srvConn    <- IF ServerAt \in {"check", "push"} THEN Arg(Main) ELSE None,
    pc         <- [t \in Readers |-> ReaderAt(t)],
    cur        <- [t \in Readers |-> IF ReaderAt(t) \in {"read", "recheck", "requeue"}
                                     THEN Subject(t, {"ReCheckRead", "InQueueRead"}) ELSE None],
    signaled   <- rSignaled,
    sleeping   <- rSleeping

\* Whatever the threads do to sockets, maps, requests and responses, and
\* wherever an exception ends them, the read side of ConnectionManager behaves
\* as ReadDispatch says: its theorems hold of the whole server.
ReadSideImplements == ReadSide!Spec

-----------------------------------------------------------------------------
\* The operations that put a thread in charge of writing connection c.
WriteCharges(c) ==
    {ti \in UNION {{t} \X DOMAIN ctl[t] : t \in Threads} :
        ctl[ti[1]][ti[2]] \in {<<"ReCheckWrite", c>>, <<"InQueueWrite", c>>}}

\* A connection whose isWriting is set is in exactly one place, a queue slot or
\* a thread, and no other connection is in any: the server thread and the
\* readers both queue writes (CheckToInQueueWrite), yet no two threads work on
\* one response and NeedReInQueueWrite never throws (connection.cpp:472).
OneWriter ==
    \A c \in Ids :
        LET charges == Cardinality(WriteCharges(c))
                       + Cardinality({i \in DOMAIN writeQueue : writeQueue[i] = c})
        IN  charges = IF conn[c].isWriting THEN 1 ELSE 0

\* A connection queued for writing is looked at by some writer while the manager
\* is open: one is draining the queue, or the raised flag lets one through, or
\* somebody is about to raise it.  Several threads call Set() here, and an
\* auto-reset event remembers only one of the calls.
WriteQueueWatched ==
    writeQueue # <<>> /\ ~closed /\ process = "running" =>
        \/ \E t \in Threads : "SetW" \in Pending(t)
        \/ \E t \in Writers : "Drain" \in Pending(t) /\ Top(t) # "WaitEvent"
        \/ /\ wSignaled
           /\ \/ \E t \in Threads : "NotifyW" \in Pending(t)
              \/ \E t \in Writers : Top(t) \in {"Loop", "WaitEvent"} /\ t \notin wSleeping

\* Handing a connection to the writers neither doubles nor loses it: it has one
\* place (OneWriter), and somebody looks at that place (WriteQueueWatched).
WritesDispatched == OneWriter /\ WriteQueueWatched

\* What is left of the response of connection c, and what client c has got.
ResponseUnits(c) == cache[c] + conn[c].response + peer[c].got
\* Connections whose response ReadCompleteCallback has put into the cache.
Answered == {c \in Ids : /\ ~conn[c].isReadWaiting
                         /\ \A t \in Readers : "AddCache" \in Pending(t) => Subject(t, {"AddCache"}) # c}

\* A response exists once: what is in the write cache, in the connections' buffers
\* and with the clients adds up to one response per answered connection, however
\* ReadCompleteCallback is reached, writes are cut short, connections break and
\* descriptors are reused.  Without broken connections it is the client's own:
\* after an error a thread past its test may still write to the descriptor's
\* next owner (connection.cpp:160).
ResponseConserved ==
    /\ MapThenSumSet(ResponseUnits, Ids) = RespLen * Cardinality(Answered)
    /\ env.resets = {} => \A c \in Ids : ResponseUnits(c) = IF c \in Answered THEN RespLen ELSE 0

\* A client gets (part of) a response only after its whole request arrived, or
\* after an error was reported on its connection.
ResponseAfterRequest ==
    env.resets = {} => \A c \in Ids : peer[c].got > 0 => peer[c].unsent = 0 \/ conn[c].hasError

\* SIGINT ends the process: the flag is seen within one turn of the server loop,
\* whether or not events arrive, and nothing in Release or Close blocks.
ExitsOnSignal == isTimeToExit ~> process # "running"

-----------------------------------------------------------------------------
\* What the code says of itself.

\* ProcessEvent throws when the map does not know the descriptor of an event.
EventIsKnown == At(Main, "CheckFd") => sockets[Arg(Main)] # None
=============================================================================
