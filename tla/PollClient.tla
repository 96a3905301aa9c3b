----------------------------- MODULE PollClient ------------------------------
(***************************************************************************)
(* linux_programming/socket/client/use_poll: the client of the echo server,*)
(* a poll loop over stdin and one blocking socket.  A round is: poll,      *)
(* stdin, the socket's input, its output.                                  *)
(***************************************************************************)
EXTENDS StreamSocket

CONSTANTS Clients  \* users and servers to consider, see env

VARIABLES
    env,    \* never changes: [lines, ends, inbound, breaks]
    pc,
    watch,  \* {"out"} if pollFds[1].events has POLLOUT, else {}
    ready,  \* revents
    w,      \* `r` in the code: what is to be written
    taken,  \* all text ever read from stdin
    shown   \* what was printed of the server's

loopVars == <<watch, ready, w, taken, shown>>
vars == <<env, pc, loopVars, socketVars>>

Init ==
    /\ env \in Clients
    /\ pc = "connect"
    /\ SocketInit(env.lines, env.ends, env.inbound)
    /\ watch = {} /\ ready = {} /\ w = Nil /\ taken = Nil /\ shown = Nil

Connect ==
    /\ pc = "connect"
    /\ pc' \in {"wait", "thrown"}
    /\ UNCHANGED <<loopVars, socketVars>>

\* poll; its timeout after 3 seconds changes nothing.
Poll ==
    /\ pc = "wait"
    /\ ready' = {x \in {"stdin", "in", "out"} :
                    CASE x = "stdin" -> StdinReadable
                      [] x = "in" -> Readable
                      [] x = "out" -> Writable /\ "out" \in watch}
    /\ ready' # {}
    /\ pc' = "stdin"
    /\ UNCHANGED <<watch, w, taken, shown, socketVars>>

\* Read(fd): one buffer, up to its first NUL
Read(chars) == CString(SubSeq(chars, 1, Min({BufSize, Len(chars)})))
Rest(chars) == SubSeq(chars, Min({BufSize, Len(chars)}) + 1, Len(chars))

\* The line ends, which a line of the model does not have, are removed.
Stdin ==
    /\ pc = "stdin"
    /\ IF "stdin" \in ready
       THEN LET r == Read(stdin.typed) IN
            /\ w' = w \o r /\ taken' = taken \o r
            /\ watch' = IF w' # Nil THEN {"out"} ELSE watch
            /\ stdin' = [stdin EXCEPT !.typed = Rest(@)]
       ELSE UNCHANGED <<w, taken, watch, stdin>>
    /\ pc' = "in"
    /\ UNCHANGED <<ready, shown, net, sock>>

\* An empty string is taken for the end of the stream.
In ==
    /\ pc = "in"
    /\ IF "in" \in ready /\ ~net.broken
       THEN /\ shown' = shown \o Read(net.in)
            /\ net' = [net EXCEPT !.in = Rest(@)]
            /\ pc' = IF Read(net.in) = Nil THEN "closed" ELSE "out"
       ELSE /\ pc' = IF "in" \in ready THEN "thrown" ELSE "out"
            /\ UNCHANGED <<shown, net>>
    /\ UNCHANGED <<watch, ready, w, taken, stdin, sock>>

\* Write: the socket blocks until all of r is in the send buffer; this is what
\* fits now.
Write ==
    /\ w = Nil \/ Room > 0
    /\ LET n == Min({Len(w), Room}) IN
       /\ sock' = [sock EXCEPT !.out = @ + n, !.sent = @ \o SubSeq(w, 1, n)]
       /\ w' = SubSeq(w, n + 1, Len(w))

\* On a broken connection write() returns what it wrote so far or throws, or,
\* when the server had closed before, the process dies of SIGPIPE, which is not
\* ignored here.
Out ==
    /\ pc = "out"
    /\ \/ "out" \notin ready /\ pc' = "wait" /\ UNCHANGED <<w, watch, sock>>
       \/ /\ "out" \in ready /\ net.broken
          /\ pc' \in {"wait", IF net.fin THEN "killed" ELSE "thrown"}
          /\ UNCHANGED <<w, watch, sock>>
       \/ /\ "out" \in ready /\ ~net.broken
          /\ Write
          /\ IF w' = Nil THEN pc' = "wait" /\ watch' = {} ELSE UNCHANGED <<pc, watch>>
    /\ UNCHANGED <<ready, taken, shown, stdin, net>>

Program == (Connect \/ Poll \/ Stdin \/ In \/ Out) /\ UNCHANGED env

Environment ==
    /\ \/ UserTypes \/ PeerReads \/ PeerSends \/ PeerCloses
       \/ env.breaks /\ ConnectionBreaks
    /\ UNCHANGED <<env, pc, loopVars>>

Next == Program \/ Environment

-----------------------------------------------------------------------------
\* As for the other console: text goes out once and in order.
TextExact == sock.sent \o w = taken

\* What the server sends is shown once and in order.
ShownExact == ShownOf(env.inbound, shown)

\* The comment on the read of stdin and of the socket, "will not block": what
\* poll announced is still there when it is read.
ReadNeverBlocks ==
    /\ pc = "stdin" /\ "stdin" \in ready => StdinReadable
    /\ pc = "in" /\ "in" \in ready => Readable

\* Text gets out to a server that reads, and the server's gets printed, for as
\* long as the client runs: a blocked write is always left.
Served ==
    pc \in {"wait", "stdin", "in", "out"} =>
        stdin.typed = Nil /\ stdin.toType = Nil /\ w = Nil /\ net.in = Nil
=============================================================================
