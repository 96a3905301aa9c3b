-------------------------- MODULE MCClientProactor ---------------------------
\* Client programs for TLC.
EXTENDS ClientProactor

\* One-shot calls and a stream in flight together.
Mixed == [script |-> <<"listen", "greet", "speak">>, words |-> 1, patientPoll |-> FALSE]
\* Several writes in a row.
Writers == [script |-> <<"speak", "talk">>, words |-> 2, patientPoll |-> FALSE]
\* No thread gives up early.
Patient == [script |-> <<"sayHello", "speak", "talk">>, words |-> 1, patientPoll |-> TRUE]

\* The one-shot calls, all in flight.
OneShots == [script |-> <<"sayHello", "sayHelloAgain", "sayGoodbye", "sayGoodbyeAgain">>, words |-> 0,
             patientPoll |-> TRUE]

AllEnvs == {Mixed, Writers, Patient, OneShots}
=============================================================================
