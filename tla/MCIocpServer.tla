---------------------------- MODULE MCIocpServer -----------------------------
(***************************************************************************)
(* The environments of the completion-port server.                         *)
(***************************************************************************)
EXTENDS IocpServer

CONSTANTS c1, c2, w1, w2

\* Two clients, two workers: contexts come and go, and ids are reused.
Two == [clients |-> {c1, c2}, workers |-> {w1, w2}, streamLen |-> 1, ioErrors |-> FALSE, stops |-> FALSE]

\* One client that fills the buffer, with sends and receives cut anywhere.
Partial == [clients |-> {c1}, workers |-> {w1, w2}, streamLen |-> 3, ioErrors |-> FALSE, stops |-> FALSE]

\* Resets and failing calls.
Failing == [clients |-> {c1, c2}, workers |-> {w1}, streamLen |-> 1, ioErrors |-> TRUE, stops |-> FALSE]

\* "exit" at any time.
Stopping == [clients |-> {c1}, workers |-> {w1, w2}, streamLen |-> 1, ioErrors |-> TRUE, stops |-> TRUE]

AllEnvs == {Two, Partial, Failing, Stopping}
=============================================================================
