---------------------------- MODULE MCSimpleHttp -----------------------------
\* Surroundings of the HTTP server for TLC.
EXTENDS SimpleHttp

\* One client whose connection may break and whose response is cut.
Breaking == [clients |-> 1, chunks |-> 1, respLen |-> 2,
             partialWrites |-> TRUE, senders |-> Ids, resets |-> Ids, signals |-> FALSE]
\* Two clients who get the same descriptor number in turn.
InTurn == [clients |-> 2, chunks |-> 1, respLen |-> 1,
           partialWrites |-> FALSE, senders |-> Ids, resets |-> {}, signals |-> FALSE]
\* The same; the first connection may break, and nothing is sent.
BreakingInTurn == [InTurn EXCEPT !.senders = {}, !.resets = {1}]
\* A request in two pieces.
Chunked == [clients |-> 1, chunks |-> 2, respLen |-> 2,
            partialWrites |-> TRUE, senders |-> Ids, resets |-> {}, signals |-> FALSE]
\* A signal at any time.
Signalled == [clients |-> 1, chunks |-> 1, respLen |-> 1,
              partialWrites |-> FALSE, senders |-> Ids, resets |-> {}, signals |-> TRUE]

AllEnvs == {Breaking, InTurn, BreakingInTurn, Chunked}
OneRequest == {Signalled}
TwoRequests == {InTurn}
=============================================================================
