---------------------------- MODULE SemaphoreTestB ---------------------------
(***************************************************************************)
(* TestB of thread/semaphore/main.cpp: each of the acquiring threads takes *)
(* one permit; main waits until all of them have announced themselves in   *)
(* `ac`, sleeps, releases the permits that are missing and joins.          *)
(***************************************************************************)
EXTENDS Semaphore

CONSTANTS Acquirers,
          Main,      \* the thread that runs TestB
          Garbage    \* what the uninitialised std::atomic_int ac may hold: integers

VARIABLES ac,
          tpc,      \* where each thread is in its function
          released  \* releases that main has made

TestThreads == Acquirers \cup {Main}
testVars == <<ac, tpc, released>>

Missing == Cardinality(Acquirers) - Capacity

TestInit ==
    /\ Init
    /\ ac \in Garbage
    /\ tpc = [t \in TestThreads |-> IF t = Main THEN "poll" ELSE "start"]
    /\ released = 0

TestGoto(t, from, to) ==
    /\ tpc[t] = from
    /\ tpc' = [tpc EXCEPT ![t] = to]

\* ac++; s.acquire();
Announce(t) ==
    /\ TestGoto(t, "start", "acquire")
    /\ ac' = ac + 1
    /\ CallAcquire(t)
    /\ UNCHANGED released

AcquirerReturns(t) ==
    /\ t # Main
    /\ pc[t] = "idle"
    /\ TestGoto(t, "acquire", "done")
    /\ UNCHANGED <<ac, released, vars>>

\* An acquirer that has announced itself is inside cv.wait or has its permit.
Settled(t) == tpc[t] = "done" \/ pc[t] \in {"aTest", "aBlock", "aWake"}

\* while (ac < atn), then one second of sleep.  The second is taken to be long
\* enough for every thread that has announced itself to settle.
PollAndSleep ==
    /\ ac >= Cardinality(Acquirers)
    /\ \A t \in Acquirers : tpc[t] # "start" => Settled(t)
    /\ TestGoto(Main, "poll", "release")
    /\ UNCHANGED <<ac, released, vars>>

\* for atn - sn rounds: while (!s.release()).
CallsRelease ==
    /\ tpc[Main] = "release"
    /\ released < Missing
    /\ CallRelease(Main)
    /\ UNCHANGED testVars

\* The joins.
Join ==
    /\ pc[Main] = "idle"
    /\ released >= Missing
    /\ \A t \in Acquirers : tpc[t] = "done"
    /\ TestGoto(Main, "release", "done")
    /\ UNCHANGED <<ac, released, vars>>

SemaphoreStep(t) ==
    /\ Step(t)
    /\ released' = released + IF pc[t] \in {"rWaited", "rNotify"} /\ pc'[t] = "idle" THEN 1 ELSE 0
    /\ UNCHANGED <<ac, tpc>>

TestStep(t) ==
    \/ t \in Acquirers /\ (Announce(t) \/ AcquirerReturns(t))
    \/ t = Main /\ (PollAndSleep \/ CallsRelease \/ Join)
    \/ SemaphoreStep(t)

\* All joins of TestB have returned.
Returned == tpc[Main] = "done"
\* ac was negative to begin with, and is less than the threads that counted.
StartedNegative == ac < Cardinality({t \in Acquirers : tpc[t] # "start"})

TestNext ==
    \/ \E t \in TestThreads : TestStep(t) \/ (SpuriousWakeup(t) /\ UNCHANGED testVars)
    \/ Returned /\ UNCHANGED <<vars, testVars>>

TestSpec == TestInit /\ [][TestNext]_<<vars, testVars>>

\* The comment of line 196, "wait until all ac thread blocked": when main
\* starts to release, every acquirer has its permit or is inside cv.wait.
AllBlockedBeforeRelease ==
    [][PollAndSleep => \A t \in Acquirers : Settled(t)]_<<vars, testVars>>
=============================================================================
