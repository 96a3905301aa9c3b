----------------------------- MODULE TcpConsole ------------------------------
(***************************************************************************)
(* socket/tcp/main.cpp: a TCP client or server that sends what the user    *)
(* types and prints what arrives, in a loop over poll or over select.      *)
(* A loop round is: wait, the socket's input, stdin, the socket's output.  *)
(***************************************************************************)
EXTENDS StreamSocket

CONSTANTS Consoles  \* programs to consider, see env

VARIABLES
    env,      \* never changes: [loop, args, lines, ends, inbound, breaks]
    pc,
    watch,    \* poll: what fds[].events asks for.  select: rSet and wSet, as
              \* "stdin" and "in" for reading, "out" for writing
    ready,    \* poll: revents
    readStop, writeShutdown,
    w,        \* text that is not written yet
    taken,    \* all text ever read from stdin
    shown     \* printed input

loopVars == <<watch, ready, readStop, writeShutdown, w, taken, shown>>
vars == <<env, pc, loopVars, socketVars>>

Commands == {"exit", "shutdown read", "shutdown write", "shutdown both", "unwritten length"}

-----------------------------------------------------------------------------
\* Config::set: the options seen, "help" for -h, "error" for a bad or a
\* contradictory list.  -b and -c take two operands.
Config(args) ==
    LET scan[i \in 1..Len(args) + 1] ==
            IF i > Len(args) THEN {}
            ELSE CASE args[i] = "-h" -> {"help"}
                   [] args[i] \in {"-r", "-w", "-l", "-a"} -> {args[i]} \cup scan[i + 1]
                   [] args[i] \in {"-b", "-c"} /\ i + 2 <= Len(args) -> {args[i]} \cup scan[i + 3]
                   [] OTHER -> {"error"}
        seen == scan[1]
    IN  IF "help" \notin seen /\ {"-a", "-c"} \subseteq seen THEN seen \cup {"error"} ELSE seen

config == Config(env.args)

Init ==
    /\ env \in Consoles
    /\ pc = "start"
    /\ SocketInit(env.lines, env.ends, env.inbound)
    /\ watch = {} /\ ready = {} /\ readStop = FALSE /\ writeShutdown = FALSE
    /\ w = Nil /\ taken = Nil /\ shown = Nil

\* Bind, Listen, Accept and Connect.  accept() on a socket that does not listen
\* throws; bind() and connect() may.
SetUpFails == "-a" \in config /\ "-l" \notin config
SetUpMayFail == SetUpFails \/ {"-b", "-c"} \cap config # {}

\* main and Run up to Process
Run ==
    /\ pc = "start"
    /\ \/ /\ {"error", "help"} \cap config # {} \/ SetUpMayFail
          /\ pc' = "over"
       \/ /\ {"error", "help"} \cap config = {} /\ ~SetUpFails
          /\ pc' = IF {"-a", "-c"} \cap config # {} THEN "process" ELSE "typeE"
    /\ UNCHANGED <<loopVars, socketVars>>

-----------------------------------------------------------------------------
\* The calls that both loops make

\* Mutant: buf[n] is not set to 0, and the tail of the buffer before is shown.
Chunks_Stale(chars) ==
    LET text[i \in 0..Len(chars)] ==
            IF i = Len(chars) THEN Nil
            ELSE LET n == Min({BufSize, Len(chars) - i})
                     rest == IF i = 0 THEN Nil ELSE SubSeq(chars, i - BufSize + n + 1, i)
                 IN  CString(SubSeq(chars, i + 1, i + n) \o rest) \o text[i + n]
    IN  text[0]

\* Read(fd, readStop), until EAGAIN or the end: buffer by buffer, each of them
\* up to its first NUL.  A reset throws, and what was read before it is lost.
Chunks(chars) ==
    LET text[i \in 0..Len(chars)] ==
            IF i = Len(chars) THEN Nil
            ELSE LET n == Min({BufSize, Len(chars) - i})
                 IN  CString(SubSeq(chars, i + 1, i + n)) \o text[i + n]
    IN  text[0]

ReadSocket ==
    /\ ~net.broken
    /\ shown' = shown \o Chunks(net.in)
    /\ net' = [net EXCEPT !.in = Nil]
    /\ readStop' = (net.fin \/ sock.shutRd)
    /\ UNCHANGED <<stdin, sock, ready, writeShutdown, w, taken>>

Throws ==
    /\ pc' = "thrown"
    /\ UNCHANGED <<loopVars, socketVars>>

ShutdownRead(s) == [s EXCEPT !.shutRd = TRUE]
ShutdownWrite(s) == [s EXCEPT !.shutWr = TRUE]
ShutdownBoth(s) == [s EXCEPT !.shutRd = TRUE, !.shutWr = TRUE]

\* shutdown() fails on a connection that is gone in both directions.
MayBeClosed == net.broken \/ (sock.shutWr /\ net.fin)

\* What is typed: a command only if it is all there is to read.
IsCommand(r) == Len(r) = 1 /\ r[1] \in Commands

Typed ==
    LET r == stdin.typed
        command == IF IsCommand(r) THEN r[1] ELSE "none"
    IN  /\ net.broken => command \notin {"shutdown read", "shutdown write", "shutdown both"}
        /\ stdin' = [stdin EXCEPT !.typed = Nil]
        /\ sock' = CASE command = "shutdown read" -> ShutdownRead(sock)
                     [] command = "shutdown write" -> ShutdownWrite(sock)
                     [] command = "shutdown both" -> ShutdownBoth(sock)
                     [] OTHER -> sock
        /\ writeShutdown' = (writeShutdown \/ command \in {"shutdown write", "shutdown both"})
        /\ LET text == IF IsCommand(r) \/ writeShutdown THEN Nil ELSE r
           IN  w' = w \o text /\ taken' = taken \o text
        /\ pc' = IF command = "exit" THEN "typeE" ELSE "out"
        /\ UNCHANGED <<net, ready, readStop, shown>>

TypedThrows ==
    /\ MayBeClosed
    /\ IsCommand(stdin.typed) /\ stdin.typed[1] \notin {"exit", "unwritten length"}
    /\ Throws

\* Mutant: the part that was written is not erased.
Write_Keeps ==
    LET n == Min({Len(w), Room}) IN
    /\ ~net.broken /\ ~sock.shutWr
    /\ sock' = [sock EXCEPT !.out = @ + n, !.sent = @ \o SubSeq(w, 1, n)]
    /\ w' = IF n = Len(w) THEN Nil ELSE w

\* Write(fd, w), until EAGAIN or nothing is left
Write ==
    LET n == Min({Len(w), Room}) IN
    /\ ~net.broken /\ ~sock.shutWr
    /\ sock' = [sock EXCEPT !.out = @ + n, !.sent = @ \o SubSeq(w, 1, n)]
    /\ w' = SubSeq(w, n + 1, Len(w))

\* The last part of a round, given whether the socket was reported writable.
Output(reported, keep) ==
    /\ IF reported /\ w # Nil THEN Write ELSE UNCHANGED <<sock, w>>
    /\ watch' = IF w' # Nil THEN keep \cup {"out"} ELSE keep \ {"out"}
    /\ pc' = "wait"
    /\ UNCHANGED <<stdin, net, ready, readStop, writeShutdown, taken, shown>>

\* Write throws when the connection is reset or its writing side shut down.
OutputThrows(reported) ==
    /\ reported /\ w # Nil /\ (net.broken \/ sock.shutWr)
    /\ Throws

-----------------------------------------------------------------------------
\* Process over poll

\* What can be reported now
Reportable ==
    {x \in {"stdin", "in", "out"} :
        CASE x = "stdin" -> StdinReadable
          [] x = "in" -> Readable
          [] x = "out" -> Writable}

\* Process shuts the directions down that it is not to use.
ShutAtStart ==
    /\ net.broken => {"-r", "-w"} \subseteq config
    /\ sock' = [sock EXCEPT !.shutRd = ("-r" \notin config), !.shutWr = ("-w" \notin config)]
    /\ writeShutdown' = ("-w" \notin config)

StartThrows ==
    /\ pc = "process" /\ net.broken /\ ~({"-r", "-w"} \subseteq config)
    /\ Throws

PollStart ==
    /\ pc = "process" /\ env.loop = "poll"
    /\ ShutAtStart
    /\ watch' = {"stdin"} \cup (IF "-r" \in config THEN {"in"} ELSE {})
                          \cup (IF "-w" \in config THEN {"out"} ELSE {})
    /\ pc' = "wait"
    /\ UNCHANGED <<stdin, net, ready, readStop, w, taken, shown>>

\* Poll also returns, with none of these, for a connection that is hung up.
Poll ==
    /\ pc = "wait" /\ env.loop = "poll"
    /\ ready' = watch \cap Reportable
    /\ ready' # {} \/ HungUp
    /\ pc' = "in"
    /\ UNCHANGED <<watch, readStop, writeShutdown, w, taken, shown, socketVars>>

PollIn ==
    /\ pc = "in" /\ env.loop = "poll"
    /\ IF "in" \in ready
       THEN ReadSocket /\ watch' = IF readStop' THEN watch \ {"in"} ELSE watch
       ELSE UNCHANGED <<loopVars, socketVars>>
    /\ pc' = "stdin"

PollStdin ==
    /\ pc = "stdin" /\ env.loop = "poll"
    /\ IF "stdin" \in ready THEN Typed /\ UNCHANGED watch
       ELSE pc' = "out" /\ UNCHANGED <<loopVars, socketVars>>

PollOut ==
    /\ pc = "out" /\ env.loop = "poll"
    /\ Output("out" \in ready, watch)

PollThrows ==
    /\ env.loop = "poll"
    /\ \/ pc = "in" /\ "in" \in ready /\ net.broken /\ Throws
       \/ pc = "stdin" /\ "stdin" \in ready /\ TypedThrows
       \/ pc = "out" /\ OutputThrows("out" \in ready)

-----------------------------------------------------------------------------
\* Process over select, whose sets are both what is asked and what is answered

SelectStart ==
    /\ pc = "process" /\ env.loop = "select"
    /\ ShutAtStart
    /\ watch' = IF "-r" \in config THEN {"stdin", "in"} ELSE {"in"}
    /\ pc' = "wait"
    /\ UNCHANGED <<stdin, net, ready, readStop, w, taken, shown>>

Select ==
    /\ pc = "wait" /\ env.loop = "select"
    /\ watch' = watch \cap Reportable
    /\ watch' # {}
    /\ pc' = "in"
    /\ UNCHANGED <<ready, readStop, writeShutdown, w, taken, shown, socketVars>>

SelectIn ==
    /\ pc = "in" /\ env.loop = "select"
    /\ IF "in" \in watch THEN ReadSocket
       ELSE UNCHANGED <<ready, readStop, writeShutdown, w, taken, shown, socketVars>>
    /\ watch' = IF readStop' THEN watch \ {"in"} ELSE watch \cup {"in"}
    /\ pc' = "stdin"

SelectStdin ==
    /\ pc = "stdin" /\ env.loop = "select"
    /\ IF "stdin" \in watch THEN Typed /\ UNCHANGED watch
       ELSE /\ watch' = watch \cup {"stdin"} /\ pc' = "out"
            /\ UNCHANGED <<ready, readStop, writeShutdown, w, taken, shown, socketVars>>

SelectOut ==
    /\ pc = "out" /\ env.loop = "select"
    /\ Output("out" \in watch, watch)

SelectThrows ==
    /\ env.loop = "select"
    /\ \/ pc = "in" /\ "in" \in watch /\ net.broken /\ Throws
       \/ pc = "stdin" /\ "stdin" \in watch /\ TypedThrows
       \/ pc = "out" /\ OutputThrows("out" \in watch)

-----------------------------------------------------------------------------
\* TypeEToExit: the connection stays open until the user types e.
TypeEToExit ==
    /\ pc = "typeE" /\ stdin.typed # Nil
    /\ stdin' = [stdin EXCEPT !.typed = Tail(@)]
    /\ pc' = IF Head(stdin.typed) = "e" THEN "over" ELSE "typeE"
    /\ UNCHANGED <<net, sock, loopVars>>

Program ==
    /\ \/ Run \/ TypeEToExit \/ StartThrows
       \/ PollStart \/ Poll \/ PollIn \/ PollStdin \/ PollOut \/ PollThrows
       \/ SelectStart \/ Select \/ SelectIn \/ SelectStdin \/ SelectOut \/ SelectThrows
    /\ UNCHANGED env

Environment ==
    /\ \/ UserTypes \/ PeerReads \/ PeerSends \/ PeerCloses
       \/ env.breaks /\ ConnectionBreaks
    /\ UNCHANGED <<env, pc, loopVars>>

Next == Program \/ Environment

Spec == Init /\ [][Next]_vars

-----------------------------------------------------------------------------
InLoop == pc \in {"wait", "in", "stdin", "out"}

\* Text goes out once and in order: what was handed to the kernel and what is
\* still in w are together what was taken from stdin, however short the writes.
TextExact == sock.sent \o w = taken

\* What the peer sends is shown once and in order.
ShownExact == ShownOf(env.inbound, shown)

\* No interest is dropped: as long as the loop runs, what the user types is read,
\* the text gets out to a peer that reads, and what the peer sends is read until
\* reading is shut down.
Served ==
    InLoop => /\ stdin.typed = Nil /\ stdin.toType = Nil /\ w = Nil
              /\ (sock.shutRd \/ net.in = Nil)
=============================================================================
