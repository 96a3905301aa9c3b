---------------------------- MODULE StreamSocket -----------------------------
(***************************************************************************)
(* What the console programs stand between: the user at stdin, and one end *)
(* of a TCP connection (external: the terminal, the kernel and the peer).  *)
(* A character is a line of text, a command, or "NUL"; the send buffer     *)
(* holds SendRoom of them.                                                 *)
(***************************************************************************)
EXTENDS Integers, Sequences, FiniteSetsExt, SequencesExt

CONSTANTS SendRoom,  \* SO_SNDBUF
          BufSize    \* characters one read() takes: 1000 and 512 in the code

ASSUME SocketAssumption == SendRoom \in Nat \ {0} /\ BufSize \in Nat \ {0}

VARIABLES
    stdin,  \* [typed, toType, ends]: lines typed and not read yet, lines still to
            \* come, and whether stdin ends behind them
    net,    \* [in, toSend, fin, broken]: received and unread, still to be sent by
            \* the peer, the peer has closed, the connection is reset
    sock    \* [out, sent, shutRd, shutWr]: in the send buffer, all ever written,
            \* the directions shut down

socketVars == <<stdin, net, sock>>

SocketInit(lines, ends, inbound) ==
    /\ stdin = [typed |-> <<>>, toType |-> lines, ends |-> ends]
    /\ net = [in |-> <<>>, toSend |-> inbound, fin |-> FALSE, broken |-> FALSE]
    /\ sock = [out |-> 0, sent |-> <<>>, shutRd |-> FALSE, shutWr |-> FALSE]

Nil == <<>>
StdinReadable == stdin.typed # Nil \/ (stdin.ends /\ stdin.toType = Nil)
Room == SendRoom - sock.out
Readable == net.in # Nil \/ net.fin \/ net.broken \/ sock.shutRd
Writable == Room > 0 \/ net.broken \/ sock.shutWr
HungUp == net.broken \/ (sock.shutWr /\ (net.fin \/ sock.shutRd))

\* A C string ends at its first NUL.
CString(chars) ==
    LET nuls == {i \in DOMAIN chars : chars[i] = "NUL"}
    IN  IF nuls = {} THEN chars ELSE SubSeq(chars, 1, Min(nuls) - 1)

\* What was read of the peer's `inbound` appears in `shown`, in order and once,
\* but for characters that shared a buffer with a NUL in front of them.
ShownOf(inbound, shown) ==
    LET got == SubSeq(inbound, 1, Len(inbound) - Len(net.toSend) - Len(net.in))
        Nul(i) == i \in DOMAIN got /\ got[i] = "NUL"
    IN  \E kept \in SUBSET DOMAIN got :
            /\ LET order == SetToSortSeq(kept, <) IN shown = [i \in DOMAIN order |-> got[order[i]]]
            /\ \A i \in DOMAIN got \ kept : \E n \in 0..BufSize - 1 : Nul(i - n)

-----------------------------------------------------------------------------
UserTypes ==
    /\ stdin.toType # Nil
    /\ stdin' = [stdin EXCEPT !.typed = Append(@, Head(stdin.toType)), !.toType = Tail(@)]
    /\ UNCHANGED <<net, sock>>

PeerSends ==
    /\ net.toSend # Nil /\ ~net.broken
    /\ net' = [net EXCEPT !.in = Append(@, Head(net.toSend)), !.toSend = Tail(@)]
    /\ UNCHANGED <<stdin, sock>>

PeerCloses ==
    /\ net.toSend = Nil /\ ~net.fin /\ ~net.broken
    /\ net' = [net EXCEPT !.fin = TRUE]
    /\ UNCHANGED <<stdin, sock>>

\* The peer reads, and the send buffer empties.
PeerReads ==
    /\ sock.out > 0 /\ ~net.broken
    /\ sock' = [sock EXCEPT !.out = @ - 1]
    /\ UNCHANGED <<stdin, net>>

ConnectionBreaks ==
    /\ ~net.broken
    /\ net' = [net EXCEPT !.broken = TRUE]
    /\ UNCHANGED <<stdin, sock>>
=============================================================================
