----------------------------- MODULE EpollServer -----------------------------
(***************************************************************************)
(* The edge-triggered epoll server                                         *)
(* (linux_programming/socket/server/use_epoll/edge_triggered/main.cpp):    *)
(* one thread, whose Server (descriptors, `conns`) calls back into         *)
(* SessionManager (`sessions`).  It answers each sentence, up to a ".",    *)
(* with its reverse.  Every read, write and epoll_wait is a step, between  *)
(* which the clients act.  The kernel and the clients are external.        *)
(***************************************************************************)
EXTENDS Integers, FiniteSets, Sequences, SequencesExt

CONSTANTS
    Clients,    \* a client connects at most once
    Fds,        \* descriptors accept can return, lowest first
    BufSize,    \* bytes of a read: 3 in the code
    SndBuf,     \* answers that fit the send buffer
    MaxEvents,  \* MAX_EVENTS
    Envs,       \* the environments to consider, see env
    None

ASSUME EpollAssumption ==
    /\ Fds \subseteq Nat \ {0} /\ IsFiniteSet(Fds) /\ IsFiniteSet(Clients)
    /\ {BufSize, SndBuf, MaxEvents} \subseteq Nat \ {0}
    /\ None \notin Clients /\ None \notin Nat
    /\ \A e \in Envs : /\ e.clients \subseteq Clients
                       /\ e.resets \in BOOLEAN /\ e.signals \in BOOLEAN
                       /\ <<>> \in e.garbage

ListenFd == 0

VARIABLES
    conns,       \* Server::conns, fd -> id
    nextConnId,
    sessions,    \* SessionManager::sessions, id -> Session with its ConnHandler
    timeToExit,
    pc,
    batch,       \* what epoll_wait returned and is not processed yet
    cur,         \* the event being processed: [fd, mask, id, ret]
    \* kernel and clients
    peer,        \* per client: [state, sent, fin, rst, rx, tx, nospace, got]
    file,        \* fd -> the client connected there
    ready,       \* registered descriptors with an edge to report
    env          \* never changes: the clients that connect, the bytes each sends,
                 \* whether they reset and SIGINT arrives, and what may follow
                 \* the read buffer in memory up to the next NUL

serverVars == <<conns, nextConnId, sessions, timeToExit>>
vars == <<serverVars, pc, batch, cur, peer, file, ready, env>>

NewPeer == [state |-> "idle", sent |-> 0, fin |-> FALSE, rst |-> FALSE, rx |-> <<>>,
            tx |-> <<>>, nospace |-> FALSE, got |-> <<>>]
NoCur == [fd |-> 0, mask |-> {}, id |-> 0, ret |-> "none"]

Init ==
    /\ conns = [fd \in Fds |-> None]
    /\ nextConnId = 0
    /\ sessions = [id \in 1..Cardinality(Clients) |-> None]
    /\ timeToExit = FALSE
    /\ pc = "wait"
    /\ batch = <<>>
    /\ cur = NoCur
    /\ peer = [c \in Clients |-> NewPeer]
    /\ file = [fd \in Fds |-> None]
    /\ ready = {}
    /\ env \in Envs

Backlog == {c \in Clients : peer[c].state = "backlog"}

\* The positions of the sentence ends, and the answers to a text.
Ends(s) == SetToSortSeq({i \in 1..Len(s) : s[i] = "."}, <)
Echo(s) ==
    LET ends == Ends(s) IN
    [n \in 1..Len(ends) |->
        Reverse(SubSeq(s, (IF n = 1 THEN 0 ELSE ends[n - 1]) + 1, ends[n] - 1))]
Rest(s) == IF Ends(s) = <<>> THEN s ELSE SubSeq(s, Last(Ends(s)) + 1, Len(s))

-----------------------------------------------------------------------------
\* The clients and the kernel's side of a connection (external).

FdOf(c) == {fd \in Fds : file[fd] = c}

\* tcp_poll
Mask(p) == (IF p.rx # <<>> \/ p.fin \/ p.rst THEN {"in"} ELSE {})
           \cup (IF Len(p.tx) < SndBuf \/ p.rst THEN {"out"} ELSE {})
           \cup (IF p.rst THEN {"err"} ELSE {})

Client(c, new, edge) ==
    /\ peer' = [peer EXCEPT ![c] = new]
    /\ ready' = IF edge THEN ready \cup FdOf(c) ELSE ready
    /\ UNCHANGED <<serverVars, pc, batch, cur, file, env>>

Alive(c) == peer[c].state \in {"backlog", "open"} /\ ~peer[c].rst

\* Descriptors do not run out: accept would fail and end the server.
Connect(c) ==
    /\ Cardinality({d \in Clients : peer[d].state \in {"backlog", "open"}}) < Cardinality(Fds)
    /\ c \in env.clients /\ peer[c].state = "idle" /\ pc \notin {"exited", "exception"}
    /\ Client(c, [peer[c] EXCEPT !.state = "backlog"], FALSE)

Send(c) ==
    /\ Alive(c) /\ peer[c].sent < Len(env.stream)
    /\ Client(c, [peer[c] EXCEPT !.sent = @ + 1, !.rx = Append(@, env.stream[peer[c].sent + 1])], TRUE)

ShutWrite(c) ==
    /\ Alive(c) /\ ~peer[c].fin /\ peer[c].sent = Len(env.stream)
    /\ Client(c, [peer[c] EXCEPT !.fin = TRUE], TRUE)

Receive(c) ==
    /\ peer[c].tx # <<>>
    /\ Client(c, [peer[c] EXCEPT !.got = Append(@, Head(peer[c].tx)), !.tx = Tail(@), !.nospace = FALSE],
              peer[c].nospace)

Reset(c) ==
    /\ env.resets /\ Alive(c)
    /\ Client(c, [peer[c] EXCEPT !.rst = TRUE, !.tx = <<>>], TRUE)

\* SigHandler
SigHandler ==
    /\ env.signals /\ ~timeToExit /\ pc \notin {"exited", "exception"}
    /\ timeToExit' = TRUE
    /\ UNCHANGED <<conns, nextConnId, sessions, pc, batch, cur, peer, file, ready, env>>

-----------------------------------------------------------------------------
\* Server::Start

Goto(next) == pc' = next
Throw == pc' = "exception"

\* ep.Wait: events of the ready descriptors in some order, none on a timeout or
\* a signal.  The listening socket is level-triggered.
Reported == {fd \in ready : Mask(peer[file[fd]]) # {}}
            \cup (IF Backlog # {} THEN {ListenFd} ELSE {})

Wait ==
    /\ pc = "wait"
    /\ \E S \in SUBSET Reported :
        /\ \/ S = {} /\ (timeToExit \/ Reported = {})
           \/ S # {} /\ Cardinality(S) <= MaxEvents
                     /\ (Cardinality(S) = MaxEvents \/ S = Reported)
        /\ batch' \in {[i \in DOMAIN q |-> [fd |-> q[i],
                          mask |-> IF q[i] = ListenFd THEN {"in"} ELSE Mask(peer[file[q[i]]])]] :
                       q \in SetToSeqs(S)}
        /\ ready' = ready \ S
        /\ peer' = [c \in Clients |-> IF FdOf(c) \cap S # {} /\ Len(peer[c].tx) = SndBuf
                                      THEN [peer[c] EXCEPT !.nospace = TRUE] ELSE peer[c]]
    /\ Goto("events")
    /\ UNCHANGED <<serverVars, cur, file>>

\* ProcessEvents takes the next event, or Start tests timeToExit.
ProcessEvents ==
    /\ pc = "events" /\ batch # <<>> /\ Head(batch).fd # ListenFd
    /\ cur' = [fd |-> Head(batch).fd, mask |-> Head(batch).mask, id |-> 0, ret |-> "none"]
    /\ batch' = Tail(batch)
    /\ IF conns[Head(batch).fd] = None THEN Throw ELSE Goto("in")
    /\ UNCHANGED <<serverVars, peer, file, ready>>

TestExit ==
    /\ pc = "events" /\ batch = <<>>
    /\ Goto(IF timeToExit THEN "release" ELSE "wait")
    /\ UNCHANGED <<serverVars, batch, cur, peer, file, ready>>

\* ProcessNewConnection with SessionManager::NewConnection
ProcessNewConnection ==
    /\ pc = "events" /\ batch # <<>> /\ Head(batch).fd = ListenFd
    /\ batch' = Tail(batch)
    /\ \E c \in Backlog :
        LET free == {fd \in Fds : file[fd] = None}
            fd == CHOOSE f \in free : \A g \in free : f <= g
            id == nextConnId + 1
        IN IF conns[fd] # None \/ sessions[id] # None
           THEN Throw /\ UNCHANGED <<conns, nextConnId, sessions, peer, file, ready>>
           ELSE /\ peer' = [peer EXCEPT ![c].state = "open"]
                /\ file' = [file EXCEPT ![fd] = c]
                /\ ready' = ready \cup {fd}
                /\ nextConnId' = id
                /\ sessions' = [sessions EXCEPT ![id] =
                        [fd |-> fd, input |-> <<>>, output |-> <<>>, isEof |-> FALSE,
                         isReadable |-> FALSE, isWritable |-> FALSE]]
                /\ conns' = [conns EXCEPT ![fd] = id]
                /\ UNCHANGED pc
    /\ UNCHANGED <<timeToExit, cur>>

-----------------------------------------------------------------------------
\* Mutant: the connection is not erased from conns.
Close_Remembers(id, next) ==
    LET fd == sessions[id].fd IN
    /\ file' = [file EXCEPT ![fd] = None]
    /\ ready' = ready \ {fd}
    /\ peer' = [peer EXCEPT ![file[fd]].state = "closed"]
    /\ sessions' = [sessions EXCEPT ![id] = None]
    /\ Goto(next)
    /\ UNCHANGED conns

\* Session::Close: the descriptor leaves epoll, is closed and forgotten, and the
\* session is released.
Close(id, next) ==
    LET fd == sessions[id].fd IN
    /\ conns' = [conns EXCEPT ![fd] = None]
    /\ file' = [file EXCEPT ![fd] = None]
    /\ ready' = ready \ {fd}
    /\ peer' = [peer EXCEPT ![file[fd]].state = "closed"]
    /\ sessions' = [sessions EXCEPT ![id] = None]
    /\ Goto(next)

\* conns[fd] and VerifySessionExist: a forgotten descriptor has the id 0, which
\* no session has.
Known(fd) == conns[fd] # None /\ sessions[conns[fd]] # None

\* The EPOLLIN branch of ProcessEvent: CanRead up to the first read
CanRead ==
    /\ pc = "in"
    /\ IF "in" \notin cur.mask THEN Goto("out") /\ UNCHANGED <<sessions, cur>>
       ELSE IF ~Known(cur.fd) THEN Throw /\ UNCHANGED <<sessions, cur>>
       ELSE /\ cur' = [cur EXCEPT !.id = conns[cur.fd], !.ret = "out"]
            /\ sessions' = [sessions EXCEPT ![conns[cur.fd]].isReadable = TRUE]
            /\ Goto("read")
    /\ UNCHANGED <<conns, nextConnId, timeToExit, batch, peer, file, ready>>

\* Mutant: one read per event.
ReadMore_Once(n) == FALSE

\* The loop of ConnHandler::Read goes on after a read of n > 0 bytes.
ReadMore(n) == n > 0

\* Session::Read behind the loop: the sentences move to output; Write() follows.
EndRead(s, text) ==
    LET all == s.input \o text IN
    [s EXCEPT !.input = Rest(all), !.output = @ \o Echo(all), !.isReadable = FALSE]

\* One read() of ConnHandler::Read; what it appends ends at the first NUL, and a
\* full buffer has none.
Read ==
    /\ pc = "read"
    /\ LET s == sessions[cur.id]
           c == file[cur.fd]
           n == IF Len(peer[c].rx) < BufSize THEN Len(peer[c].rx) ELSE BufSize
           after == IF s.isWritable THEN "write" ELSE cur.ret
       IN IF n > 0
          THEN \E g \in IF n = BufSize THEN env.garbage ELSE {<<>>} :
                LET text == SubSeq(peer[c].rx, 1, n) \o g IN
                /\ peer' = [peer EXCEPT ![c].rx = SubSeq(@, n + 1, Len(@))]
                /\ IF ReadMore(n)
                   THEN /\ sessions' = [sessions EXCEPT ![cur.id].input = @ \o text]
                        /\ UNCHANGED pc
                   ELSE /\ sessions' = [sessions EXCEPT ![cur.id] = EndRead(s, text)]
                        /\ Goto(after)
          ELSE /\ UNCHANGED peer
               /\ IF peer[c].rst THEN Throw /\ UNCHANGED sessions
                  ELSE /\ sessions' = [sessions EXCEPT ![cur.id] =
                            [EndRead(s, <<>>) EXCEPT !.isEof = @ \/ peer[c].fin]]
                       /\ Goto(after)
    /\ UNCHANGED <<conns, nextConnId, timeToExit, batch, cur, file, ready>>

\* The EPOLLOUT branch: CanWrite up to the first write
CanWrite ==
    /\ pc = "out"
    /\ IF "out" \notin cur.mask THEN Goto("err") /\ UNCHANGED <<sessions, cur>>
       ELSE IF ~Known(cur.fd) THEN Throw /\ UNCHANGED <<sessions, cur>>
       ELSE /\ cur' = [cur EXCEPT !.id = conns[cur.fd], !.ret = "err"]
            /\ sessions' = [sessions EXCEPT ![conns[cur.fd]].isWritable = TRUE]
            /\ Goto("write")
    /\ UNCHANGED <<conns, nextConnId, timeToExit, batch, peer, file, ready>>

\* One write() of ConnHandler::Write
WriteSome ==
    /\ pc = "write" /\ sessions[cur.id].output # <<>>
    /\ LET c == file[cur.fd]
           out == sessions[cur.id].output
           room == SndBuf - Len(peer[c].tx)
           n == IF Len(out) < room THEN Len(out) ELSE room
       IN /\ ~peer[c].rst /\ n > 0
          /\ peer' = [peer EXCEPT ![c].tx = @ \o SubSeq(out, 1, n)]
          /\ sessions' = [sessions EXCEPT ![cur.id].output = SubSeq(@, n + 1, Len(@))]
    /\ UNCHANGED <<conns, nextConnId, timeToExit, pc, batch, cur, file, ready>>

WriteFails ==
    /\ pc = "write" /\ sessions[cur.id].output # <<>> /\ peer[file[cur.fd]].rst
    /\ Throw
    /\ UNCHANGED <<serverVars, batch, cur, peer, file, ready>>

\* Mutant: a session whose answers are not all sent is closed at the end of file.
MayClose_Early(s) == s.isEof

\* PeerClosed() && output.empty()
MayClose(s) == s.isEof /\ s.output = <<>>

\* Nothing is left to write, or EAGAIN: the rest of Session::Write
EndWrite ==
    /\ pc = "write"
    /\ LET s == sessions[cur.id]
           c == file[cur.fd]
           full == s.output # <<>>
       IN /\ full => ~peer[c].rst /\ Len(peer[c].tx) = SndBuf
          /\ IF MayClose(s) THEN Close(cur.id, cur.ret)
             ELSE /\ sessions' = [sessions EXCEPT ![cur.id].isWritable = FALSE]
                  /\ peer' = IF full THEN [peer EXCEPT ![c].nospace = TRUE] ELSE peer
                  /\ Goto(cur.ret)
                  /\ UNCHANGED <<conns, file, ready>>
    /\ UNCHANGED <<nextConnId, timeToExit, batch, cur>>

\* The EPOLLERR branch: ErrorOccurred
ErrorOccurred ==
    /\ pc = "err"
    /\ cur' = NoCur
    /\ IF "err" \notin cur.mask THEN Goto("events") /\ UNCHANGED <<conns, sessions, peer, file, ready>>
       ELSE IF ~Known(cur.fd) THEN Throw /\ UNCHANGED <<conns, sessions, peer, file, ready>>
       ELSE Close(conns[cur.fd], "events")
    /\ UNCHANGED <<nextConnId, timeToExit, batch>>

\* Mutant: the connections are not told to exit.
Release_Silent ==
    /\ pc = "release"
    /\ Goto("exited")
    /\ UNCHANGED <<serverVars, batch, cur, peer, file, ready>>

\* Release: TimeToExit for the first of conns, until it is empty
Release ==
    /\ pc = "release"
    /\ LET open == {fd \in Fds : conns[fd] # None}
           first == CHOOSE fd \in open : \A f \in open : fd <= f
       IN IF open = {} THEN Goto("exited") /\ UNCHANGED <<conns, sessions, peer, file, ready>>
          ELSE IF ~Known(first) THEN Throw /\ UNCHANGED <<conns, sessions, peer, file, ready>>
          ELSE Close(conns[first], "release")
    /\ UNCHANGED <<nextConnId, timeToExit, batch, cur>>

ServerStep ==
    /\ \/ Wait \/ ProcessEvents \/ TestExit \/ ProcessNewConnection
       \/ CanRead \/ Read \/ CanWrite \/ WriteSome \/ WriteFails \/ EndWrite
       \/ ErrorOccurred \/ Release
    /\ UNCHANGED env

\* main has returned, or an exception has ended it.
Ended == pc \in {"exited", "exception"} /\ UNCHANGED vars

Next ==
    \/ ServerStep \/ SigHandler \/ Ended
    \/ \E c \in Clients : Connect(c) \/ Send(c) \/ ShutWrite(c) \/ Receive(c) \/ Reset(c)

Spec == Init /\ [][Next]_vars

\* The server runs, and clients fetch what was sent to them.
FairSpec ==
    /\ Spec /\ WF_vars(ServerStep)
    /\ \A c \in Clients : WF_vars(Receive(c))

-----------------------------------------------------------------------------
Open(fd) == file[fd] # None
Session(fd) == sessions[conns[fd]]

\* Between two batches Server and SessionManager agree: every open descriptor
\* is in conns under the id of the session that owns it, and no other is.  Within
\* one, while clients do not reset, main does not end with an exception: no event
\* is for a descriptor closed earlier in its batch, no accepted descriptor is
\* still in conns, and a session closed in one branch of ProcessEvent is not
\* looked up in the next.
DescriptorsAgree ==
    /\ ~env.resets => pc # "exception"
    /\ pc = "wait" =>
        /\ \A fd \in Fds : Open(fd) <=> conns[fd] # None
        /\ \A fd \in Fds : Open(fd) => Session(fd) # None /\ Session(fd).fd = fd
        /\ \A id \in DOMAIN sessions : sessions[id] # None => conns[sessions[id].fd] = id

\* What edge-triggered epoll is told only once is not forgotten: when the server
\* waits, unread input or an unread end of file has its edge to come, and so
\* have answers that are not sent, or a close that is due, unless the send
\* buffer is full and the kernel will report its room.
NoLostEdge ==
    pc = "wait" => \A fd \in Fds : Open(fd) /\ conns[fd] # None =>
        LET p == peer[file[fd]]  s == Session(fd) IN
        /\ p.rx # <<>> \/ (p.fin /\ ~s.isEof) => fd \in ready
        /\ s.output # <<>> \/ s.isEof => fd \in ready \/ (p.nospace /\ Len(p.tx) = SndBuf)

\* Session::Read finds the sentences however read() cut them, and Session::Write
\* sends each answer once and in order however write() took them; a connection
\* closed because its client had finished was answered completely.  It takes a
\* NUL behind the read buffer.
EchoExact ==
    env.garbage = {<<>>} => \A c \in Clients : LET p == peer[c] IN
        /\ p.state = "open" /\ ~p.rst => \E fd \in FdOf(c) :
            LET s == Session(fd)
                taken == SubSeq(env.stream, 1, p.sent - Len(p.rx))
            IN /\ p.got \o p.tx \o s.output \o Echo(s.input) = Echo(taken)
               /\ Rest(s.input) = Rest(taken)
        /\ p.state = "closed" /\ ~p.rst /\ ~timeToExit => p.got \o p.tx = Echo(env.stream)

\* A client that shuts down its side gets every answer, and is then closed.
Served == \A c \in Clients :
    (peer[c].fin /\ env.garbage = {<<>>} /\ ~env.resets /\ ~env.signals) ~> (peer[c].state = "closed" /\ peer[c].got = Echo(env.stream))

\* After SIGINT the server ends, even when the signal arrives just before
\* epoll_wait blocks (the wait has a timeout), and main returns with every
\* connection closed and every session released.
ExitsOnSignal ==
    timeToExit /\ ~env.resets
        ~> /\ pc = "exited"
           /\ \A fd \in Fds : ~Open(fd) /\ conns[fd] = None
           /\ \A id \in DOMAIN sessions : sessions[id] = None
=============================================================================
