---------------------------- MODULE MCEpollServer ----------------------------
\* Environments of the epoll server for TLC.
EXTENDS EpollServer
CONSTANTS c1, c2

NulFollows     == {<<>>}
BytesMayFollow == {<<>>, <<".">>, <<"x">>}

\* One client whose sentences are cut by the reads.
Alone == [clients |-> {c1}, stream |-> <<"a", "b", ".", "c", ".">>,
          resets |-> FALSE, signals |-> TRUE, garbage |-> NulFollows]
\* Two clients whose answers fill the send buffer.
Busy == [clients |-> {c1, c2}, stream |-> <<".", ".", ".">>,
         resets |-> FALSE, signals |-> FALSE, garbage |-> NulFollows]
\* Two clients and a signal; the second may get the descriptor of the first.
Signalled == [clients |-> {c1, c2}, stream |-> <<"a", ".">>,
              resets |-> FALSE, signals |-> TRUE, garbage |-> NulFollows]
\* Connections that break.
Broken == [clients |-> {c1, c2}, stream |-> <<".">>,
           resets |-> TRUE, signals |-> FALSE, garbage |-> NulFollows]
\* Memory that is not zero behind the buffer.
Dirty == [clients |-> {c1}, stream |-> <<"a", ".", "b">>,
          resets |-> TRUE, signals |-> TRUE, garbage |-> BytesMayFollow]

AllEnvs == {Alone, Busy, Signalled, Broken, Dirty}
=============================================================================
