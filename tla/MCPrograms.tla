----------------------------- MODULE MCPrograms ------------------------------
(***************************************************************************)
(* The small components and the example programs in one run of TLC.  A     *)
(* behaviour is a behaviour of one of them, chosen in the initial state.   *)
(* The variables of the others keep an arbitrary value.                    *)
(***************************************************************************)
EXTENDS StreamSocket, FiniteSets, TLC

CONSTANTS
    KeySpace, NoKey,              \* keys of the handler table
    Callers, s1, s2               \* UDP clients and servers

VARIABLES
    program,
    env, pc, shown,                                     \* of several programs
    used, lastKey,                                      \* the handler table
    stream, consumed, request,                          \* the request parser
    watch, ready, w, taken, readStop, writeShutdown,    \* the consoles
    source, edge, todo, s, printed,                     \* the reading loops
    line, held, packets, refused,                       \* UDP
    demo, at, started, obj, owner, waiting, value, reg, future, report, left, stray, \* thread/
    writer, reader, server, toServer, toClient, closed, status  \* synchronous gRPC

tableVars   == <<used, lastKey>>
parserVars  == <<stream, consumed, request>>
smallVars   == <<tableVars, parserVars>>
consoleVars == <<watch, ready, w, taken, socketVars>>
stopVars    == <<readStop, writeShutdown>>
readVars    == <<source, edge, todo, s, printed>>
udpVars     == <<line, held, packets, refused>>
demoVars    == <<demo, at, started, obj, owner, waiting, value, reg, future, report, left, stray>>
callVars    == <<writer, reader, server, toServer, toClient, closed, status>>
exampleVars == <<env, shown, consoleVars, stopVars, readVars, udpVars, demoVars, callVars>>
vars == <<program, pc, smallVars, exampleVars>>

\* HTTP requests: a first line, which may be empty, up to two header lines (among
\* them a repeated Content-Length, a negative one and a line without separator),
\* an empty line, and a body that may be short, exact, too long or hold a line
\* end; and a length of two digits.
LineEnd == <<"CR", "LF">>
FirstLines == {<<>>, <<"x", "CR", "x">>}
HeaderLines == {<<"CL", ":", "sp", "2">>, <<"CL", ":", "1", "sp">>, <<"CL", ":", "-", "1">>,
                <<"x", ":", "x">>, <<"x">>}
Bodies == {<<>>, <<"x", "CR">>, <<"CR", "LF", "x">>}
Request(first, hs, body) ==
    first \o LineEnd \o FlattenSeq([i \in DOMAIN hs |-> hs[i] \o LineEnd]) \o LineEnd \o body
MCStreams ==
    {Request(first, hs, body) : first \in FirstLines, hs \in BoundedSeq(HeaderLines, 2), body \in Bodies}
    \cup {Request(<<"x">>, << <<"CL", ":", "1", "0", "x">> >>, [i \in 1..11 |-> "x"])}

\* Consoles: text, a NUL on the line, broken connections; every shutdown
\* command; one direction only; bad arguments.
Console(loop, args, lines, ends, inbound, breaks) ==
    [loop |-> loop, args |-> args, lines |-> lines, ends |-> ends, inbound |-> inbound, breaks |-> breaks]
Shutdowns == {"shutdown read", "shutdown write", "shutdown both"}
BadArguments == {<<"-c", "x">>, <<"-a">>, <<"-r", "-h">>, <<"-l", "-a", "-c", "x", "x">>, <<"q">>, <<"-l">>}
MCConsoles ==
    {Console(loop, <<"-c", "x", "x", "-r", "-w">>, <<"t1", "t2", "unwritten length">>, TRUE,
             inbound, TRUE) : loop \in {"poll", "select"}, inbound \in {<<"i1", "NUL", "i2">>, <<"i1", "i2", "i3">>}}
    \cup {Console(loop, <<"-l", "-a", "-r", "-w">>, <<"t1", "t2", c, "t3", "exit", "e">>, FALSE,
             <<"i1">>, FALSE) : loop \in {"poll", "select"}, c \in Shutdowns}
    \cup {Console(loop, <<"-b", "x", "x", "-c", "x", "x">> \o dirs, lines, FALSE, <<"i1">>, TRUE) :
             loop \in {"poll", "select"}, dirs \in {<<"-r">>, <<"-w">>, <<>>},
             lines \in {<<"t1", "shutdown both">>, <<"shutdown write", "t1">>}}
    \cup {Console("poll", args, <<"t1", "e">>, FALSE, <<>>, FALSE) : args \in BadArguments}

MCClients == {[lines |-> <<"t1", "t2", "t3">>, ends |-> e, inbound |-> i, breaks |-> ~e] :
                e \in BOOLEAN, i \in {<<"i1", "NUL", "i2">>, <<"i1", "i2">>}}

\* Readers: inputs of more and of less than a buffer
PipeReaders == {"pipePoll", "pipeSelect", "pipeLevel", "pipeEdge"}
StdinReaders == {"stdinPoll", "stdinSelect", "stdinLevel", "stdinEdge", "stdinLoop", "closedFd"}
MCLoops ==
    {[program |-> p, input |-> (1 :> <<"a", "b", "c", "d">> @@ 2 :> <<"e">>), ends |-> e, shared |-> FALSE] :
        p \in PipeReaders, e \in BOOLEAN}
    \cup {[program |-> p, input |-> (0 :> <<"a", "b", "c", "d", "e">>), ends |-> e, shared |-> sh] :
        p \in StdinReaders, e \in BOOLEAN, sh \in BOOLEAN}

\* One server and a network with each fault and with both; two servers and a
\* broadcast
MCNetworks ==
    {[client |-> "unicast", up |-> {s1, s2}, faults |-> f] : f \in {{"lose"}, {"duplicate"}, {"lose", "duplicate"}}}
    \cup {[client |-> c, up |-> u, faults |-> {}] : c \in {"unicast", "broadcast"}, u \in {{s1, s2}, {}}}

MCCalls == [call : {"sayHello", "sayHelloAgain", "sayGoodbye", "sayGoodbyeAgain",
                    "greet", "listen", "speak", "talk"}, breaks : BOOLEAN]

-----------------------------------------------------------------------------
Table  == INSTANCE HandlerTable
Parser == INSTANCE HttpRequest WITH Streams <- MCStreams, SizeSpace <- 2^16
Tcp   == INSTANCE TcpConsole WITH Consoles <- MCConsoles
Poll  == INSTANCE PollClient WITH Clients <- MCClients
Loops == INSTANCE ReadLoops WITH Loops <- MCLoops
Udp   == INSTANCE Datagrams WITH Servers <- {s1, s2}, Lines <- 2, Networks <- MCNetworks

Demos == INSTANCE ThreadDemos
Sync  == INSTANCE SyncChat WITH Window <- 1, Words <- 3, Responses <- 3, Calls <- MCCalls

StopOff    == readStop = 0 /\ writeShutdown = 0
ConsoleOff == watch = 0 /\ ready = 0 /\ w = 0 /\ taken = 0 /\ stdin = 0 /\ net = 0 /\ sock = 0
ReadOff    == source = 0 /\ edge = 0 /\ todo = 0 /\ s = 0 /\ printed = 0
UdpOff     == line = 0 /\ held = 0 /\ packets = 0 /\ refused = 0
DemoOff    == /\ demo = 0 /\ at = 0 /\ started = 0 /\ obj = 0 /\ owner = 0 /\ waiting = 0 /\ value = 0
              /\ reg = 0 /\ future = 0 /\ report = 0 /\ left = 0 /\ stray = 0
CallOff    == /\ writer = 0 /\ reader = 0 /\ server = 0 /\ toServer = 0 /\ toClient = 0
              /\ closed = 0 /\ status = 0
ThreadsOff == DemoOff /\ CallOff
IoOff      == ConsoleOff /\ StopOff /\ ReadOff /\ UdpOff
ExamplesOff == IoOff /\ ThreadsOff /\ env = 0 /\ shown = 0
TableOff   == used = {} /\ lastKey = 0
ParserOff  == stream = <<>> /\ consumed = 0 /\ request = 0
SmallOff   == TableOff /\ ParserOff

Init ==
    \/ program = "HandlerTable" /\ Table!Init /\ ParserOff /\ pc = 0 /\ ExamplesOff
    \/ program = "HttpRequest" /\ Parser!Init /\ TableOff /\ pc = 0 /\ ExamplesOff
    \/ /\ SmallOff
       /\ \/ program = "TcpConsole" /\ Tcp!Init /\ ReadOff /\ UdpOff /\ ThreadsOff
          \/ program = "PollClient" /\ Poll!Init /\ StopOff /\ ReadOff /\ UdpOff /\ ThreadsOff
          \/ /\ program = "ReadLoops" /\ Loops!Init /\ shown = 0
             /\ ConsoleOff /\ StopOff /\ UdpOff /\ ThreadsOff
          \/ program = "Datagrams" /\ Udp!Init /\ ConsoleOff /\ StopOff /\ ReadOff /\ ThreadsOff
          \/ program = "ThreadDemos" /\ Demos!Init /\ env = 0 /\ pc = 0 /\ shown = 0 /\ IoOff /\ CallOff
          \/ program = "SyncChat" /\ Sync!Init /\ pc = 0 /\ shown = 0 /\ IoOff /\ DemoOff

In(name, step, others) == program = name /\ step /\ UNCHANGED <<program, others>>
InTable(step)  == In("HandlerTable", step, <<pc, parserVars, exampleVars>>)
InParser(step) == In("HttpRequest", step, <<pc, tableVars, exampleVars>>)
InTcp(step)   == In("TcpConsole", step, <<smallVars, readVars, udpVars, demoVars, callVars>>)
InPoll(step)  == In("PollClient", step, <<smallVars, stopVars, readVars, udpVars, demoVars, callVars>>)
InLoops(step) == In("ReadLoops", step, <<smallVars, shown, consoleVars, stopVars, udpVars, demoVars, callVars>>)
InUdp(step)   == In("Datagrams", step, <<smallVars, consoleVars, stopVars, readVars, demoVars, callVars>>)
InDemos(step) == In("ThreadDemos", step, <<smallVars, env, pc, shown, consoleVars, stopVars, readVars, udpVars, callVars>>)
InSync(step)  == In("SyncChat", step, <<smallVars, pc, shown, consoleVars, stopVars, readVars, udpVars, demoVars>>)

Next ==
    \/ InTable(Table!Next) \/ InParser(Parser!Next)
    \/ InTcp(Tcp!Next) \/ InPoll(Poll!Next) \/ InLoops(Loops!Next) \/ InUdp(Udp!Next)
    \/ InDemos(Demos!Next) \/ InSync(Sync!Next)

\* The program under test runs, the user types, who writes to a pipe writes, the
\* peer reads, the service runs.  A thread is not kept from a mutex for ever.
Runs == \/ InTcp(Tcp!Program) \/ InPoll(Poll!Program) \/ InLoops(Loops!Program) \/ InUdp(Udp!Process)
        \/ InSync(Sync!Client)
External(step) ==
    \/ InTcp(step /\ UNCHANGED <<env, pc, shown, watch, ready, w, taken, stopVars>>)
    \/ InPoll(step /\ UNCHANGED <<env, pc, shown, watch, ready, w, taken>>)

FairSpec ==
    /\ Init /\ [][Next]_vars
    /\ WF_vars(Runs)
    /\ WF_vars(External(UserTypes) \/ InLoops(Loops!Writer) \/ InSync(Sync!Service))
    /\ WF_vars(External(PeerReads))
    /\ \A th \in {"main", "c1", "c2"} : SF_vars(InDemos(Demos!Thread(th)))

-----------------------------------------------------------------------------
\* HandlerTable: add() returns the first free key behind the cursor, if any.
NextFreeKey == program = "HandlerTable" => Table!NextFreeKey

\* HttpRequest: where Append's input was cut does not show in the request, and it
\* is complete exactly when head and body have arrived, unless its first line is
\* empty.
ParsedAsWhole == program = "HttpRequest" => Parser!ParsedAsWhole

\* The consoles send every character that was typed, and the readers print every
\* character that was written, once and in order.
TextExact == /\ program = "TcpConsole" => Tcp!TextExact
             /\ program = "PollClient" => Poll!TextExact
             /\ program = "ReadLoops" => Loops!PrintedExact

\* The consoles show what the peer sends once and in order, however it is cut into
\* buffers; only behind a NUL the rest of its buffer is missing.
ShownExact == /\ program = "TcpConsole" => Tcp!ShownExact
              /\ program = "PollClient" => Poll!ShownExact

\* The readers and the poll client: a read "will not block".
ReadNeverBlocks == /\ program = "ReadLoops" => Loops!ReadNeverBlocks
                   /\ program = "PollClient" => Poll!ReadNeverBlocks

\* socket/udp: an answer belongs to the line, as far as the network allows.
AnswersMatch == program = "Datagrams" => Udp!AnswersMatch

\* client/sync: status OK means that everything was said and heard.
OkMeansAll == program = "SyncChat" => Sync!OkMeansAll

\* thread/: the demos end as their calls say, and only those that detach use
\* their locals after they are gone.
DemoOutcome == program = "ThreadDemos" => Demos!DemoOutcome

\* Every example program comes to an end or to rest.  The consoles and readers drop no
\* interest and lose no event, so that all that is typed and received is served;
\* the UDP clients end if nothing is lost; the demos return and the calls end.
ComesToRest ==
    <>[](CASE program = "TcpConsole" -> Tcp!Served
           [] program = "PollClient" -> Poll!Served
           [] program = "ReadLoops" -> Loops!Prints => Loops!AllPrinted
           [] program = "Datagrams" -> Udp!Reliable => Udp!Ended
           [] program = "ThreadDemos" -> Demos!Over
           [] program = "SyncChat" -> Sync!Returned
           [] OTHER -> TRUE)
=============================================================================
