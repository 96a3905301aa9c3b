------------------------------ MODULE Datagrams ------------------------------
(***************************************************************************)
(* socket/udp: the echo server, the unicast client (compiled with CONNECT) *)
(* and the broadcasting client.  A client sends a line, waits for one      *)
(* answer and prints it.  The network (external) reorders, and may lose or *)
(* duplicate, datagrams.                                                   *)
(***************************************************************************)
EXTENDS Naturals, Sequences, FiniteSets

CONSTANTS Callers,    \* clients
          Servers,    \* hosts with the server's port
          Lines,      \* lines each client reads from its stdin
          Networks    \* see env

VARIABLES
    env,      \* never changes: [client, up, faults]: which client program, the
              \* servers that run, what the network may do ("lose", "duplicate")
    pc,       \* per client
    line,     \* per client: the number of its line
    held,     \* per server: the datagram in mesg and *pcliaddr, [from, by, line,
              \* copy] for the line'th line of client by; none if line = 0
    packets,  \* in flight: the same, and the host it goes to
    refused,  \* connected sockets with an ICMP error
    shown     \* per client: what it printed, [from, by, line] each

vars == <<env, pc, line, held, packets, refused, shown>>

Nothing == [from |-> "nobody", by |-> "nobody", line |-> 0, copy |-> 0]
Unicast == env.client = "unicast"
Dest(c) == IF Unicast THEN {CHOOSE s \in Servers : TRUE} ELSE Servers
Packet(from, to, by, n, copy) == [from |-> from, to |-> to, by |-> by, line |-> n, copy |-> copy]

Init ==
    /\ env \in Networks
    /\ pc = [c \in Callers |-> "fgets"]
    /\ line = [c \in Callers |-> 0]
    /\ held = [s \in Servers |-> Nothing]
    /\ packets = {} /\ refused = {}
    /\ shown = [c \in Callers |-> <<>>]

-----------------------------------------------------------------------------
\* DgCli of both clients: fgets and Write or SendTo
Send(c) ==
    /\ pc[c] = "fgets" /\ line[c] < Lines
    /\ line' = [line EXCEPT ![c] = @ + 1]
    /\ packets' = packets \cup {Packet(c, s, c, line[c] + 1, 1) : s \in Dest(c)}
    /\ pc' = [pc EXCEPT ![c] = "read"]
    /\ UNCHANGED <<held, refused, shown>>

EndOfInput(c) ==
    /\ pc[c] = "fgets" /\ line[c] = Lines
    /\ pc' = [pc EXCEPT ![c] = "over"]
    /\ UNCHANGED <<line, held, packets, refused, shown>>

\* Read or RecvFrom, and fputs: there is no timeout.
Receive(c) ==
    /\ pc[c] = "read" /\ c \notin refused
    /\ \E p \in packets :
        /\ p.to = c
        /\ packets' = packets \ {p}
        /\ shown' = [shown EXCEPT ![c] = Append(@, [from |-> p.from, by |-> p.by, line |-> p.line])]
    /\ pc' = [pc EXCEPT ![c] = "fgets"]
    /\ UNCHANGED <<line, held, refused>>

\* The exception ends the client.
ReceiveThrows(c) ==
    /\ pc[c] = "read" /\ c \in refused
    /\ pc' = [pc EXCEPT ![c] = "thrown"]
    /\ UNCHANGED <<line, held, packets, refused, shown>>

UnicastClient(c) == Unicast /\ (Send(c) \/ EndOfInput(c) \/ Receive(c) \/ ReceiveThrows(c))
BroadcastClient(c) == ~Unicast /\ (Send(c) \/ EndOfInput(c) \/ Receive(c))

\* Mutant: the sender's address is kept from the first datagram.
RecvFrom_KeepsAddress(s) ==
    /\ held[s].line = 0
    /\ \E p \in packets :
        /\ p.to = s
        /\ packets' = packets \ {p}
        /\ held' = [held EXCEPT ![s] = [from |-> IF @.from = "nobody" THEN p.from ELSE @.from,
                                        by |-> p.by, line |-> p.line, copy |-> p.copy]]
    /\ UNCHANGED <<pc, line, refused, shown>>

\* DgEcho
RecvFrom(s) ==
    /\ held[s].line = 0
    /\ \E p \in packets :
        /\ p.to = s
        /\ packets' = packets \ {p}
        /\ held' = [held EXCEPT ![s] = [from |-> p.from, by |-> p.by, line |-> p.line, copy |-> p.copy]]
    /\ UNCHANGED <<pc, line, refused, shown>>

SendTo(s) ==
    /\ held[s].line # 0
    /\ packets' = packets \cup {Packet(s, held[s].from, held[s].by, held[s].line, held[s].copy)}
    /\ held' = [held EXCEPT ![s].line = 0]
    /\ UNCHANGED <<pc, line, refused, shown>>

EchoServer(s) == s \in env.up /\ (RecvFrom(s) \/ SendTo(s))

-----------------------------------------------------------------------------
\* The network

Lose(p) ==
    /\ "lose" \in env.faults
    /\ packets' = packets \ {p}
    /\ UNCHANGED <<pc, line, held, refused, shown>>

\* A line and its answer are duplicated at most once between them.
Duplicate(p) ==
    /\ "duplicate" \in env.faults /\ p.copy = 1
    /\ packets' = (packets \ {p}) \cup {Packet(p.from, p.to, p.by, p.line, n) : n \in {2, 3}}
    /\ UNCHANGED <<pc, line, held, refused, shown>>

\* Nobody listens: a connected sender is told.
Refuse(p) ==
    /\ p.to \in Servers \ env.up
    /\ packets' = packets \ {p}
    /\ refused' = IF Unicast THEN refused \cup {p.from} ELSE refused
    /\ UNCHANGED <<pc, line, held, shown>>

Process ==
    /\ \/ \E c \in Callers : UnicastClient(c) \/ BroadcastClient(c)
       \/ \E s \in Servers : EchoServer(s)
       \/ \E p \in packets : Refuse(p)
    /\ UNCHANGED env

Network == (\E p \in packets : Lose(p) \/ Duplicate(p)) /\ UNCHANGED env

Next == Process \/ Network

Spec == Init /\ [][Next]_vars

-----------------------------------------------------------------------------
\* An answer is to a line that this client sent, not later than the one it
\* waits for.  One server and a network that duplicates nothing answer line by
\* line; behind a broadcast or a duplicate the answers may lag behind the lines.
AnswersMatch ==
    \A c \in Callers : \A i \in DOMAIN shown[c] :
        LET answer == shown[c][i] IN
        /\ answer.by = c /\ answer.from \in Dest(c) \cap env.up
        /\ answer.line <= i
        /\ Unicast /\ "duplicate" \notin env.faults => answer.line = i

\* Clients end: at the end of their input, or at the refusal of their server.
Ended == \A c \in Callers : pc[c] \in {"over", "thrown"}
Reliable == "lose" \notin env.faults /\ (Unicast \/ env.up # {})
=============================================================================
