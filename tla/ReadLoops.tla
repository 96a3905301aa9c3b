------------------------------ MODULE ReadLoops ------------------------------
(***************************************************************************)
(* The programs of linux_programming/read/nonblock_read and epoll_closed_fd*)
(* that read from two pipes or from stdin, each with another way to wait.  *)
(* The writers at the other end, the pipes, poll, select and epoll are     *)
(* external.  Inputs have no NUL.                                          *)
(***************************************************************************)
EXTENDS Naturals, Sequences, SequencesExt

CONSTANTS BufSize,  \* 3 in the code
          Loops     \* programs and inputs to consider, see env

VARIABLES
    env,      \* never changes: [program, input, ends, shared]: the input per
              \* descriptor, whether it ends, and whether another descriptor
              \* shares stdin's open file
    pc,       \* "start", "wait", "input", "over", "thrown"
    source,   \* per descriptor: [data, toCome, ended]
    edge,     \* descriptors with a change that epoll has not reported yet
    todo,     \* reported descriptors that are still to be read, in order
    s,        \* what an edge-triggered program has collected
    printed   \* per descriptor

vars == <<env, pc, source, edge, todo, s, printed>>

Fds == DOMAIN env.input
Edge == env.program \in {"pipeEdge", "stdinEdge"}
NonBlocking == Edge \/ env.program = "stdinLoop"
Readable(fd) == source[fd].data # <<>> \/ source[fd].ended

Init ==
    /\ env \in Loops
    /\ pc = "start"
    /\ source = [fd \in Fds |-> [data |-> <<>>, toCome |-> env.input[fd], ended |-> FALSE]]
    /\ edge = {} /\ todo = <<>> /\ s = <<>>
    /\ printed = [fd \in Fds |-> <<>>]

-----------------------------------------------------------------------------
\* The writers

Arrives(fd) ==
    /\ source[fd].toCome # <<>>
    /\ source' = [source EXCEPT ![fd].data = Append(@, Head(source[fd].toCome)), ![fd].toCome = Tail(@)]
    /\ edge' = edge \cup {fd}
    /\ UNCHANGED <<env, pc, todo, s, printed>>

Ends(fd) ==
    /\ env.ends /\ source[fd].toCome = <<>> /\ ~source[fd].ended
    /\ source' = [source EXCEPT ![fd].ended = TRUE]
    /\ edge' = edge \cup {fd}
    /\ UNCHANGED <<env, pc, todo, s, printed>>

-----------------------------------------------------------------------------
\* Epoll::Add reports what is there already.
Start ==
    /\ pc = "start" /\ pc' = "wait"
    /\ edge' = {fd \in Fds : Readable(fd)}
    /\ UNCHANGED <<source, todo, s, printed>>

\* The descriptors of `ready` are to be read, in ascending order or in any.
Report(ready, ordered) ==
    /\ pc = "wait" /\ ready # {}
    /\ \E order \in SetToSeqs(ready) :
        /\ ordered => \A i, j \in DOMAIN order : i < j => order[i] < order[j]
        /\ todo' = order
    /\ pc' = "input"
    /\ UNCHANGED <<source, s, printed>>

\* Mutant: revents is not looked at.
LevelWait_All(ordered) ==
    /\ \E fd \in Fds : Readable(fd)
    /\ Report(Fds, ordered) /\ UNCHANGED edge

\* poll, select, and epoll level-triggered: what is readable now; a timeout
\* changes nothing.
LevelWait(ordered) == Report({fd \in Fds : Readable(fd)}, ordered) /\ UNCHANGED edge

\* epoll edge-triggered: what has changed since it was last reported
EdgeWait == Report(edge, FALSE) /\ edge' = {}

\* One read.  A full buffer has no NUL behind it, unless there is room for one:
\* what is printed may go on with memory that is not the program's input.
Chunk(fd) == SubSeq(source[fd].data, 1, Min({BufSize, Len(source[fd].data)}))
Take(fd) == source' = [source EXCEPT ![fd].data = SubSeq(@, Len(Chunk(fd)) + 1, Len(@))]
Junk(chunk) == IF Len(chunk) = BufSize /\ env.program # "stdinLoop" THEN {<<>>, <<"?">>} ELSE {<<>>}

Next1 == /\ todo' = Tail(todo)
         /\ pc' = IF Len(todo) = 1 THEN "wait" ELSE "input"

\* GetInput with a blocking descriptor, and the same code inline for stdin.
\* The programs on pipes go on after the end, those on stdin leave.
GetInput(leaves) ==
    /\ pc = "input" /\ Readable(Head(todo))
    /\ LET fd == Head(todo) IN
       IF source[fd].data = <<>>
       THEN /\ IF leaves THEN pc' = "over" /\ UNCHANGED todo ELSE Next1
            /\ UNCHANGED <<source, printed>>
       ELSE /\ Take(fd)
            /\ \E junk \in Junk(Chunk(fd)) :
                printed' = [printed EXCEPT ![fd] = @ \o Chunk(fd) \o junk]
            /\ Next1
    /\ UNCHANGED <<edge, s>>

\* GetInput until EAGAIN, edge-triggered: the end is reached before what came
\* in front of it is printed.
GetAllInput(leaves) ==
    /\ pc = "input"
    /\ LET fd == Head(todo) IN
       IF source[fd].data # <<>>
       THEN /\ Take(fd)
            /\ \E junk \in Junk(Chunk(fd)) : s' = s \o Chunk(fd) \o junk
            /\ UNCHANGED <<pc, todo, printed>>
       ELSE /\ IF source[fd].ended /\ leaves THEN pc' = "over" /\ UNCHANGED todo ELSE Next1
            /\ printed' = IF source[fd].ended THEN printed ELSE [printed EXCEPT ![fd] = @ \o s]
            /\ s' = <<>>
            /\ UNCHANGED source
    /\ UNCHANGED edge

-----------------------------------------------------------------------------
In(program) == env.program = program /\ UNCHANGED env

PipePoll    == In("pipePoll") /\ (Start \/ LevelWait(TRUE) \/ GetInput(FALSE))
PipeSelect  == In("pipeSelect") /\ (Start \/ LevelWait(TRUE) \/ GetInput(FALSE))
PipeLevel   == In("pipeLevel") /\ (Start \/ LevelWait(FALSE) \/ GetInput(FALSE))
PipeEdge    == In("pipeEdge") /\ (Start \/ EdgeWait \/ GetAllInput(FALSE))
StdinPoll   == In("stdinPoll") /\ (Start \/ LevelWait(TRUE) \/ GetInput(TRUE))
StdinSelect == In("stdinSelect") /\ (Start \/ LevelWait(TRUE) \/ GetInput(TRUE))
StdinLevel  == In("stdinLevel") /\ (Start \/ LevelWait(FALSE) \/ GetInput(TRUE))
StdinEdge   == In("stdinEdge") /\ (Start \/ EdgeWait \/ GetAllInput(TRUE))

\* Reads once a second without waiting; EAGAIN changes nothing.
StdinLoop ==
    /\ In("stdinLoop")
    /\ \/ Start
       \/ pc = "wait" /\ todo' = <<0>> /\ pc' = "input" /\ UNCHANGED <<source, edge, s, printed>>
       \/ GetInput(TRUE)
       \/ /\ pc = "input" /\ ~Readable(Head(todo))
          /\ Next1 /\ UNCHANGED <<source, edge, s, printed>>

\* epoll_closed_fd: epoll goes on to watch an open file that another descriptor
\* still names, and read on the closed one throws.
ClosedFd ==
    /\ In("closedFd")
    /\ \/ Start
       \/ env.shared /\ LevelWait(FALSE)
       \/ pc = "input" /\ pc' = "thrown" /\ UNCHANGED <<source, edge, todo, s, printed>>

Program ==
    \/ PipePoll \/ PipeSelect \/ PipeLevel \/ PipeEdge
    \/ StdinPoll \/ StdinSelect \/ StdinLevel \/ StdinEdge \/ StdinLoop \/ ClosedFd

Writer == \E fd \in Fds : Arrives(fd) \/ Ends(fd)

Next == Program \/ Writer

-----------------------------------------------------------------------------
Text(chars) == SelectSeq(chars, LAMBDA c : c # "?")

\* The comment on every read of a blocking descriptor, "will not block".
ReadNeverBlocks == pc = "input" /\ ~NonBlocking /\ env.program # "closedFd" => Readable(Head(todo))

\* Every character is printed once and in order, whatever the cuts and however
\* it comes in while the program reads.  Only an edge-triggered program whose
\* input ends drops what it read just before, and a closed stdin prints nothing.
PrintedExact ==
    \A fd \in Fds :
        LET pending == IF todo # <<>> /\ Head(todo) = fd THEN s ELSE <<>> IN
        (Edge => ~source[fd].ended) =>
            Text(printed[fd] \o pending) \o source[fd].data \o source[fd].toCome = env.input[fd]

\* All input is printed in the end (but for those two): no event is lost, also
\* not the edge of a character that arrives while its descriptor is being read.
Prints == env.program # "closedFd" /\ ~(Edge /\ env.ends)
AllPrinted == \A fd \in Fds : Text(printed[fd]) = env.input[fd]
=============================================================================
