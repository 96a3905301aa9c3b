-------------------------- MODULE MCServerProactor ---------------------------
\* Servers and clients for TLC.
EXTENDS ServerProactor
CONSTANTS t1, t2

ChatServices == <<"greet", "listen", "speak", "talk">>
UnaryServices == <<"hello", "helloAgain", "goodbye", "goodbyeAgain">>

\* Two threads and a signal; two calls, or one that may be cancelled.
Pair(cancels, maxCalls) == [pool |-> {t1, t2}, services |-> <<"talk">>, cancels |-> cancels,
            stopWhen |-> "running", maxCalls |-> maxCalls]
\* One thread with every service of a kind and a signal; clients that cancel.
Stopped(services) == [pool |-> {t1}, services |-> services, cancels |-> {"greet", "hello", "listen", "speak", "talk"},
            stopWhen |-> "running", maxCalls |-> 1]
\* Clients that cancel, and no signal.
Cancelled == [pool |-> {t1}, services |-> ChatServices, cancels |-> {"greet", "listen", "speak", "talk"},
              stopWhen |-> "never", maxCalls |-> 2]

AllEnvs == {Pair({}, 2), Pair({"talk"}, 1), Stopped(ChatServices), Stopped(UnaryServices), Cancelled}
=============================================================================
