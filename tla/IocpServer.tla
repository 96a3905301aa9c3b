----------------------------- MODULE IocpServer ------------------------------
(***************************************************************************)
(* The echo server of win32_programming/use_iocp: a starter thread, an     *)
(* accept thread driven by a network event, a pool of workers on one       *)
(* completion port, and stop() called by main.                             *)
(*                                                                         *)
(* A client connects once, so a ClientContext is named by its client.  A   *)
(* context lives while the table or a thread holds a shared_ptr to it, and *)
(* its destructor closes the socket.  Byte i of a client's stream is the   *)
(* number i.                                                               *)
(***************************************************************************)
EXTENDS Naturals, Sequences, FiniteSets, SequencesExt

CONSTANTS
    Clients, Workers,
    BufferSize,    \* BUFFER_SIZE
    IdSpace,       \* ids wrap at IdSpace (2^32)
    Envs,          \* the environments the server may run in
    None

ASSUME IocpAssumption ==
    /\ IsFiniteSet(Clients) /\ IsFiniteSet(Workers) /\ Workers # {}
    /\ BufferSize \in Nat \ {0}
    /\ IdSpace \in Nat /\ IdSpace > Cardinality(Clients) + 1
    /\ Envs \subseteq [clients : SUBSET Clients, workers : SUBSET Workers, streamLen : Nat,
                       ioErrors : BOOLEAN, stops : BOOLEAN]
    /\ None \notin Clients

Ids == 0..IdSpace - 1
INVALID_CLIENT_CONTEXT_ID == 1

VARIABLES
    env,             \* clients that connect, the pool, bytes a client sends, may clients
                     \* reset and system calls fail, may the operator type "exit"; never changes
    \* the clients and their sockets
    client,          \* what each client has done, sent and got
    backlog,         \* clients waiting for accept
    \* the accept event
    signaled,        \* FD_ACCEPT is recorded and acceptEvent is set
    enabled,         \* FD_ACCEPT may be recorded
    \* the completion port
    ops,             \* overlapped operations in progress
    port,            \* completion packets, first in first out
    \* IOCP
    stopped,
    clientContexts,  \* the context with each id, or None
    nextId,          \* createClientContext's static id
    context,         \* the fields of each client's ClientContext
    \* the threads
    starterPc,       \* the thread that calls start()
    mainPc,          \* main: waits for "exit", then stop()
    acceptPc, accepting,   \* the accept thread and the context it holds
    pool,            \* the workers created so far
    workerPc,
    packet,          \* the packet a worker has taken
    held             \* the context a worker holds a shared_ptr to

netVars    == <<client, backlog>>
eventVars  == <<signaled, enabled>>
portVars   == <<ops, port>>
tableVars  == <<clientContexts, nextId>>
acceptVars == <<acceptPc, accepting>>
workerVars == <<workerPc, packet, held>>
startVars  == <<starterPc, mainPc, pool>>
vars == <<env, netVars, eventVars, portVars, stopped, tableVars, context, startVars,
          acceptVars, workerVars>>

NoPacket == [key |-> INVALID_CLIENT_CONTEXT_ID, bytes |-> 0, ok |-> TRUE, of |-> None]
NewContext(id) == [id |-> id, lastOption |-> "NONE", buffer |-> <<>>,
                   numberOfBytesToSend |-> 0, numberOfBytesSent |-> 0]

Init ==
    /\ env \in Envs
    /\ client = [c \in Clients |-> [state |-> "idle", sent |-> 0, inbox |-> <<>>, got |-> <<>>]]
    /\ backlog = <<>> /\ signaled = FALSE /\ enabled = TRUE
    /\ ops = {} /\ port = <<>>
    /\ stopped = FALSE
    /\ clientContexts = [i \in Ids |-> None] /\ nextId = 0
    /\ context = [c \in Clients |-> NewContext(0)]
    /\ starterPc = "accept" /\ mainPc = "read"
    /\ acceptPc = "none" /\ accepting = None
    /\ pool = {}
    /\ workerPc = [w \in Workers |-> "none"]
    /\ packet = [w \in Workers |-> NoPacket]
    /\ held = [w \in Workers |-> None]

-----------------------------------------------------------------------------
\* The clients.

\* A connection request arrives; FD_ACCEPT is recorded if it is enabled.
Connect(c) ==
    /\ c \in env.clients /\ client[c].state = "idle"
    /\ client' = [client EXCEPT ![c].state = "open"]
    /\ backlog' = Append(backlog, c)
    /\ signaled' = (signaled \/ enabled)
    /\ enabled' = FALSE
    /\ UNCHANGED <<portVars, stopped, tableVars, context, startVars, acceptVars, workerVars>>

SendByte(c) ==
    /\ client[c].state = "open" /\ client[c].sent < env.streamLen
    /\ client' = [client EXCEPT ![c].sent = @ + 1, ![c].inbox = Append(@, client[c].sent + 1)]
    /\ UNCHANGED <<backlog, eventVars, portVars, stopped, tableVars, context, startVars, acceptVars, workerVars>>

\* The client shuts its sending side, or resets the connection.
HangUp(c) ==
    /\ client[c].state = "open"
    /\ \E s \in {"shut"} \cup (IF env.ioErrors THEN {"reset"} ELSE {}) :
           client' = [client EXCEPT ![c].state = s]
    /\ UNCHANGED <<backlog, eventVars, portVars, stopped, tableVars, context, startVars, acceptVars, workerVars>>

-----------------------------------------------------------------------------
\* The completion port.

\* WSARecv and WSASend with the context's OVERLAPPED: from and len delimit the
\* part of the context's buffer.
Overlapped(c, kind, from, len) == [of |-> c, kind |-> kind, from |-> from, len |-> len]

Completed(op, n, ok) ==
    Append(port, [key |-> context[op.of].id, bytes |-> n, ok |-> ok, of |-> op.of])

\* A receive completes with what has arrived, with nothing at the end of the
\* stream; a send completes with any part of its bytes; either may fail.
Complete(op) ==
    LET c == op.of
        inbox == client[c].inbox
    IN /\ ops' = ops \ {op}
       /\ \/ /\ op.kind = "recv" /\ client[c].state # "reset"
             /\ inbox # <<>> \/ client[c].state = "shut"
             /\ LET n == IF Len(inbox) < op.len THEN Len(inbox) ELSE op.len IN
                /\ client' = [client EXCEPT ![c].inbox = SubSeq(@, n + 1, Len(@))]
                /\ context' = [context EXCEPT ![c].buffer = SubSeq(inbox, 1, n)
                                                   \o SubSeq(@, n + 1, Len(@))]
                /\ port' = Completed(op, n, TRUE)
          \/ /\ op.kind = "send" /\ client[c].state # "reset"
             /\ \E n \in 1..op.len :
                /\ client' = [client EXCEPT ![c].got =
                                  @ \o SubSeq(context[c].buffer, op.from + 1, op.from + n)]
                /\ port' = Completed(op, n, TRUE)
             /\ UNCHANGED context
          \/ /\ client[c].state = "reset"
             /\ port' = Completed(op, 0, FALSE)
             /\ UNCHANGED <<client, context>>
       /\ UNCHANGED <<backlog, eventVars, stopped, tableVars, startVars, acceptVars, workerVars>>

\* A call that starts an operation fails at once only on a broken connection.
MayFail(c) == client[c].state = "reset"

-----------------------------------------------------------------------------
\* The table of contexts; each function holds clientContextsLock.

\* The while loop of createClientContext.
FreeId(table, id) ==
    LET free(n) == /\ table[(id + n) % IdSpace] = None
                   /\ (id + n) % IdSpace # INVALID_CLIENT_CONTEXT_ID
        steps == CHOOSE n \in 0..IdSpace : free(n) /\ \A m \in 0..n - 1 : ~free(m)
    IN (id + steps) % IdSpace

createClientContext(c) ==
    LET id == FreeId(clientContexts, nextId) IN
    /\ nextId' = id
    /\ clientContexts' = [clientContexts EXCEPT ![id] = c]
    /\ context' = [context EXCEPT ![c] = NewContext(id)]

removeClientContext(id) ==
    /\ clientContexts' = [clientContexts EXCEPT ![id] = None]
    /\ UNCHANGED nextId

-----------------------------------------------------------------------------
\* The accept thread.

AcceptTest ==
    /\ acceptPc = "test"
    /\ acceptPc' = IF stopped THEN "done" ELSE "wait"
    /\ UNCHANGED <<netVars, eventVars, portVars, stopped, tableVars, context, startVars, accepting, workerVars>>

\* WSAWaitForMultipleEvents returns because of the event or of the timeout.
AcceptWait ==
    /\ acceptPc = "wait"
    /\ \/ signaled /\ acceptPc' = "enum"
       \/ ~signaled /\ acceptPc' = "test"
    /\ UNCHANGED <<netVars, eventVars, portVars, stopped, tableVars, context, startVars, accepting, workerVars>>

\* WSAEnumNetworkEvents resets the event and clears the record.  With an error
\* code the thread does not call accept, which alone re-enables FD_ACCEPT.
AcceptEnum ==
    /\ acceptPc = "enum"
    /\ signaled' = FALSE
    /\ \/ acceptPc' = "accept"
       \/ env.ioErrors /\ acceptPc' = "test"
    /\ UNCHANGED <<netVars, enabled, portVars, stopped, tableVars, context, startVars, accepting, workerVars>>

\* accept() re-enables FD_ACCEPT, also when it fails, and records it again if
\* another request is waiting.
ReEnable(waiting) == signaled' = (waiting # <<>>) /\ enabled' = (waiting = <<>>)

\* accept fails for a client that has gone; its request is dropped.
Accept ==
    /\ acceptPc = "accept"
    /\ backlog' = Tail(backlog)
    /\ ReEnable(Tail(backlog))
    /\ \/ accepting' = Head(backlog) /\ acceptPc' = "create"
       \/ client[Head(backlog)].state = "reset" /\ acceptPc' = "test" /\ UNCHANGED accepting
    /\ UNCHANGED <<client, portVars, stopped, tableVars, context, startVars, workerVars>>

AcceptCreate ==
    /\ acceptPc = "create"
    /\ createClientContext(accepting)
    /\ acceptPc' = "associate"
    /\ UNCHANGED <<netVars, eventVars, portVars, stopped, startVars, accepting, workerVars>>

\* associateWithIOCP; on failure the context stays in the table.
Associate ==
    /\ acceptPc = "associate"
    /\ \/ acceptPc' = "recv"
       \/ env.ioErrors /\ acceptPc' = "return"
    /\ UNCHANGED <<netVars, eventVars, portVars, stopped, tableVars, context, startVars, accepting, workerVars>>

\* Mutant: WSA_IO_PENDING is taken for a failure.
InitialRecv_Pending ==
    /\ acceptPc = "recv"
    /\ ops' = ops \cup {Overlapped(accepting, "recv", 0, BufferSize)}
    /\ acceptPc' = "remove"
    /\ context' = [context EXCEPT ![accepting].lastOption = "RECV"]
    /\ UNCHANGED <<netVars, eventVars, port, stopped, tableVars, startVars, accepting, workerVars>>

\* The initial WSARecv.
InitialRecv ==
    /\ acceptPc = "recv"
    /\ context' = [context EXCEPT ![accepting].lastOption = "RECV"]
    /\ \/ /\ ops' = ops \cup {Overlapped(accepting, "recv", 0, BufferSize)}
          /\ acceptPc' = "return"
       \/ /\ MayFail(accepting)
          /\ acceptPc' = "remove"
          /\ UNCHANGED ops
    /\ UNCHANGED <<netVars, eventVars, port, stopped, tableVars, startVars, accepting, workerVars>>

AcceptRemove ==
    /\ acceptPc = "remove"
    /\ removeClientContext(context[accepting].id)
    /\ acceptPc' = "return"
    /\ UNCHANGED <<netVars, eventVars, portVars, stopped, context, startVars, accepting, workerVars>>

\* The end of acceptConnection drops its shared_ptr.
AcceptReturn ==
    /\ acceptPc = "return"
    /\ acceptPc' = "test" /\ accepting' = None
    /\ UNCHANGED <<netVars, eventVars, portVars, stopped, tableVars, context, startVars, workerVars>>

AcceptStep ==
    \/ AcceptTest \/ AcceptWait \/ AcceptEnum \/ Accept \/ AcceptCreate
    \/ Associate \/ InitialRecv \/ AcceptRemove \/ AcceptReturn

-----------------------------------------------------------------------------
\* A worker: while (!stopped) process();

WorkerTest(w) ==
    /\ workerPc[w] = "test"
    /\ workerPc' = [workerPc EXCEPT ![w] = IF stopped THEN "done" ELSE "get"]
    /\ UNCHANGED <<netVars, eventVars, portVars, stopped, tableVars, context, startVars, acceptVars, packet, held>>

\* Mutant: a completion without bytes is ignored.
GetPacket_IgnoresEnd(w) ==
    /\ workerPc[w] = "get" /\ port # <<>>
    /\ LET p == Head(port) IN
       /\ packet' = [packet EXCEPT ![w] = p]
       /\ workerPc' = [workerPc EXCEPT ![w] =
              IF ~p.ok \/ p.key = INVALID_CLIENT_CONTEXT_ID \/ p.bytes = 0 THEN "test" ELSE "lookup"]
    /\ port' = Tail(port)
    /\ UNCHANGED <<netVars, eventVars, ops, stopped, tableVars, context, startVars, acceptVars, held>>

\* GetQueuedCompletionStatus and the tests behind it.
GetPacket(w) ==
    /\ workerPc[w] = "get" /\ port # <<>>
    /\ LET p == Head(port) IN
       /\ packet' = [packet EXCEPT ![w] = p]
       /\ workerPc' = [workerPc EXCEPT ![w] =
              IF ~p.ok \/ p.key = INVALID_CLIENT_CONTEXT_ID THEN "test"
              ELSE IF p.bytes = 0 THEN "remove" ELSE "lookup"]
    /\ port' = Tail(port)
    /\ UNCHANGED <<netVars, eventVars, ops, stopped, tableVars, context, startVars, acceptVars, held>>

\* getClientContext
Lookup(w) ==
    /\ workerPc[w] = "lookup"
    /\ LET c == clientContexts[packet[w].key] IN
       /\ held' = [held EXCEPT ![w] = c]
       /\ workerPc' = [workerPc EXCEPT ![w] = IF c = None THEN "test" ELSE "handle"]
    /\ UNCHANGED <<netVars, eventVars, portVars, stopped, tableVars, context, startVars, acceptVars, packet>>

\* The context after the completion of n bytes, and the next operation.
Received(x, c, n) ==
    [after |-> [x EXCEPT !.lastOption = "SEND", !.numberOfBytesToSend = n, !.numberOfBytesSent = 0],
     op |-> Overlapped(c, "send", 0, n)]

\* Mutant: the rest is sent from the start of the buffer.
Sent_FromStart(x, c, n) ==
    LET sent == x.numberOfBytesSent + n IN
    IF sent < x.numberOfBytesToSend
    THEN [after |-> [x EXCEPT !.numberOfBytesSent = sent],
          op |-> Overlapped(c, "send", 0, x.numberOfBytesToSend - sent)]
    ELSE [after |-> [x EXCEPT !.numberOfBytesSent = sent, !.lastOption = "RECV"],
          op |-> Overlapped(c, "recv", 0, BufferSize)]

\* Mutant: a partial send counts as complete.
Sent_Always(x, c, n) ==
    [after |-> [x EXCEPT !.numberOfBytesSent = @ + n, !.lastOption = "RECV"],
     op |-> Overlapped(c, "recv", 0, BufferSize)]

Sent(x, c, n) ==
    LET sent == x.numberOfBytesSent + n IN
    IF sent < x.numberOfBytesToSend
    THEN [after |-> [x EXCEPT !.numberOfBytesSent = sent],
          op |-> Overlapped(c, "send", sent, x.numberOfBytesToSend - sent)]
    ELSE [after |-> [x EXCEPT !.numberOfBytesSent = sent, !.lastOption = "RECV"],
          op |-> Overlapped(c, "recv", 0, BufferSize)]

\* The rest of process: lastOption tells what has completed.
Handle(w) ==
    /\ workerPc[w] = "handle"
    /\ LET c == held[w]
           x == context[c]
           n == packet[w].bytes
           next == IF x.lastOption = "RECV" THEN Received(x, c, n) ELSE Sent(x, c, n)
       IN /\ context' = [context EXCEPT ![c] = next.after]
          /\ \/ /\ ops' = ops \cup {next.op}
                /\ workerPc' = [workerPc EXCEPT ![w] = "return"]
             \/ /\ MayFail(c)
                /\ workerPc' = [workerPc EXCEPT ![w] = "remove"]
                /\ UNCHANGED ops
    /\ UNCHANGED <<netVars, eventVars, port, stopped, tableVars, startVars, acceptVars, packet, held>>

WorkerRemove(w) ==
    /\ workerPc[w] = "remove"
    /\ removeClientContext(packet[w].key)
    /\ workerPc' = [workerPc EXCEPT ![w] = "return"]
    /\ UNCHANGED <<netVars, eventVars, portVars, stopped, context, startVars, acceptVars, packet, held>>

\* The end of process drops its shared_ptr.
WorkerReturn(w) ==
    /\ workerPc[w] = "return"
    /\ workerPc' = [workerPc EXCEPT ![w] = "test"]
    /\ held' = [held EXCEPT ![w] = None]
    /\ UNCHANGED <<netVars, eventVars, portVars, stopped, tableVars, context, startVars, acceptVars, packet>>

WorkerStep(w) ==
    \/ WorkerTest(w) \/ GetPacket(w) \/ Lookup(w) \/ Handle(w) \/ WorkerRemove(w) \/ WorkerReturn(w)

-----------------------------------------------------------------------------
\* start(), in its own thread, and stop(), called by main.

CreateAcceptThread ==
    /\ starterPc = "accept"
    /\ starterPc' = "pool" /\ acceptPc' = "test"
    /\ UNCHANGED <<netVars, eventVars, portVars, stopped, tableVars, context, mainPc, pool, accepting, workerVars>>

CreateWorker(w) ==
    /\ starterPc = "pool" /\ w \in env.workers \ pool
    /\ pool' = pool \cup {w}
    /\ workerPc' = [workerPc EXCEPT ![w] = "test"]
    /\ starterPc' = IF pool' = env.workers THEN "done" ELSE "pool"
    /\ UNCHANGED <<netVars, eventVars, portVars, stopped, tableVars, context, mainPc, acceptVars, packet, held>>

StarterStep == CreateAcceptThread \/ \E w \in Workers : CreateWorker(w)

Exit ==
    /\ env.stops /\ mainPc = "read"
    /\ stopped' = TRUE /\ mainPc' = "joinAccept"
    /\ UNCHANGED <<netVars, eventVars, portVars, tableVars, context, starterPc, pool, acceptVars, workerVars>>

\* join() of a thread that has not been created throws, and the exception
\* destroys the starter's joinable thread object: the program is terminated.
JoinAccept ==
    /\ mainPc = "joinAccept" /\ acceptPc \in {"none", "done"}
    /\ mainPc' = IF acceptPc = "none" THEN "terminated" ELSE "post"
    /\ UNCHANGED <<netVars, eventVars, portVars, stopped, tableVars, context, starterPc, pool, acceptVars, workerVars>>

\* Mutant: one packet too few.
PostStops_TooFew ==
    /\ mainPc = "post" /\ starterPc = "done"
    /\ port' = port \o [i \in 1..Cardinality(pool) - 1 |-> NoPacket]
    /\ mainPc' = "joinPool"
    /\ UNCHANGED <<netVars, eventVars, ops, stopped, tableVars, context, starterPc, pool, acceptVars, workerVars>>

\* stopThreadPool's first loop.  While start() still fills threadPool both
\* threads use the vector, and what happens is undefined.
PostStops ==
    /\ mainPc = "post"
    /\ IF starterPc = "done"
       THEN /\ port' = port \o [i \in 1..Cardinality(pool) |-> NoPacket]
            /\ mainPc' = "joinPool"
       ELSE mainPc' = "terminated" /\ UNCHANGED port
    /\ UNCHANGED <<netVars, eventVars, ops, stopped, tableVars, context, starterPc, pool, acceptVars, workerVars>>

\* stopThreadPool's second loop, and the closing of the handles.
JoinPool ==
    /\ mainPc = "joinPool" /\ \A w \in pool : workerPc[w] = "done"
    /\ mainPc' = "closed"
    /\ UNCHANGED <<netVars, eventVars, portVars, stopped, tableVars, context, starterPc, pool, acceptVars, workerVars>>

StopStep == JoinAccept \/ PostStops \/ JoinPool

-----------------------------------------------------------------------------
ClientStep(c) == Connect(c) \/ SendByte(c) \/ HangUp(c)
CompleteFor(c) == \E op \in {o \in ops : o.of = c} : Complete(op)
Alive == mainPc # "terminated"

Run(step) == Alive /\ step /\ UNCHANGED env

Next ==
    \/ Run(\E c \in Clients : ClientStep(c) \/ CompleteFor(c))
    \/ Run(AcceptStep)
    \/ Run(\E w \in Workers : WorkerStep(w))
    \/ Run(StarterStep)
    \/ Run(Exit \/ StopStep)

Spec == Init /\ [][Next]_vars

FairSpec ==
    /\ Spec
    /\ WF_vars(Run(AcceptStep)) /\ WF_vars(Run(StarterStep)) /\ WF_vars(Run(StopStep))
    /\ \A w \in Workers : WF_vars(Run(WorkerStep(w)))
    /\ \A c \in Clients : WF_vars(Run(CompleteFor(c)))

-----------------------------------------------------------------------------
\* Properties.

\* Whatever the sizes of the partial sends and receives, a client gets back the
\* bytes it sent, in order, none lost and none twice (process).
EchoExact ==
    \A c \in Clients : IsPrefix(client[c].got, [i \in 1..client[c].sent |-> i])

HasShared(c) ==
    \/ \E i \in Ids : clientContexts[i] = c
    \/ accepting = c
    \/ \E w \in Workers : held[w] = c

\* iocp.cpp:230: the OVERLAPPED is valid for the duration of its operation, and
\* no two outstanding operations share one: the context of an outstanding
\* operation is alive, although only ids and no references travel with it.  Ids
\* are reused at once, yet the key of a successful completion still names the
\* context whose operation completed, in the port and in a worker's hands.
OverlappedValid ==
    /\ \A op \in ops : HasShared(op.of) /\ \A other \in ops : other.of = op.of => other = op
    /\ \A i \in DOMAIN port : port[i].ok /\ port[i].of # None => clientContexts[port[i].key] = port[i].of
    /\ \A w \in Workers : workerPc[w] = "lookup" => clientContexts[packet[w].key] = packet[w].of

\* Unless a system call fails, every context in the table has exactly one
\* driver: its pending operation, its packet, or one thread that works on it.
OneDriver ==
    ~env.ioErrors => \A i \in Ids : clientContexts[i] # None =>
        LET c == clientContexts[i] IN
        Cardinality({op \in ops : op.of = c})
        + Cardinality({j \in DOMAIN port : port[j].of = c})
        + Cardinality({w \in Workers : workerPc[w] \in {"lookup", "handle", "remove"} /\ packet[w].of = c})
        + (IF accepting = c /\ acceptPc \in {"associate", "recv"} THEN 1 ELSE 0) = 1

\* Unless calls fail or the server is stopped, every byte is echoed in the end:
\* again and again there is nothing left to echo.
Served ==
    \A c \in Clients : []<>(env.ioErrors \/ stopped \/ Len(client[c].got) = client[c].sent)

\* iocp.cpp:459: stop() gets every thread out of GetQueuedCompletionStatus and
\* returns, unless it was called before start() had returned.
StopCompletes == (stopped /\ starterPc = "done") ~> (mainPc \in {"closed", "terminated"})
=============================================================================
