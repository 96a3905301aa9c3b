---------------------------- MODULE SemaphoreTestA ---------------------------
(***************************************************************************)
(* TestA of thread/semaphore/main.cpp: acquiring threads reserve one of    *)
(* Count acquisitions each time round, releasing threads give back all but *)
(* the last Capacity of them, and `number` tracks how many are held.       *)
(***************************************************************************)
EXTENDS Semaphore

CONSTANTS Acquirers, Releasers,  \* the threads of the test
          Count                \* acquisitions in all, at least Capacity

VARIABLES number, acquireCount, releaseCount,
          ac,   \* the releasers' local copy of acquireCount
          tpc   \* where each thread is in its lambda

TestThreads == Acquirers \cup Releasers
testVars == <<number, acquireCount, releaseCount, ac, tpc>>

TestInit ==
    /\ Init
    /\ number = 0 /\ acquireCount = 0 /\ releaseCount = 0
    /\ ac = [t \in Releasers |-> 0]
    /\ tpc = [t \in TestThreads |-> IF t \in Acquirers THEN "reserve" ELSE "load"]

TestGoto(t, from, to) ==
    /\ tpc[t] = from
    /\ tpc' = [tpc EXCEPT ![t] = to]

-----------------------------------------------------------------------------
\* The lambda aq.  Its compare-and-swap loop is one increment below Count.
Reserve(t) ==
    /\ acquireCount < Count
    /\ acquireCount' = acquireCount + 1
    /\ TestGoto(t, "reserve", "acquire")
    /\ CallAcquire(t)
    /\ UNCHANGED <<number, releaseCount, ac>>

AcquirerBreaks(t) ==
    /\ acquireCount = Count
    /\ TestGoto(t, "reserve", "done")
    /\ UNCHANGED <<number, acquireCount, releaseCount, ac, vars>>

\* acquire() has returned: x = number.fetch_add(1), and x >= sn throws.
FetchAdd(t) ==
    /\ pc[t] = "idle"
    /\ TestGoto(t, "acquire", IF number >= Capacity THEN "thrown" ELSE "reserve")
    /\ number' = number + 1
    /\ UNCHANGED <<acquireCount, releaseCount, ac, vars>>

\* The lambda rl.
LoadAc(t) ==
    /\ TestGoto(t, "load", "reserveRelease")
    /\ ac' = [ac EXCEPT ![t] = acquireCount]
    /\ UNCHANGED <<number, acquireCount, releaseCount, vars>>

ReserveRelease(t) ==
    /\ \/ /\ releaseCount < ac[t] - Capacity
          /\ TestGoto(t, "reserveRelease", "decrement")
          /\ releaseCount' = releaseCount + 1
       \/ /\ releaseCount >= ac[t] - Capacity
          /\ TestGoto(t, "reserveRelease", IF releaseCount = Count - Capacity THEN "done" ELSE "load")
          /\ UNCHANGED releaseCount
    /\ UNCHANGED <<number, acquireCount, ac, vars>>

Decrement(t) ==
    /\ TestGoto(t, "decrement", "release")
    /\ number' = number - 1
    /\ UNCHANGED <<acquireCount, releaseCount, ac, vars>>

\* while (!s.release()): called again after a release that was lost.
CallsRelease(t) ==
    /\ tpc[t] = "release"
    /\ CallRelease(t)
    /\ UNCHANGED testVars

\* A step of acquire() or release(); release() returns true after its swap.
SemaphoreStep(t) ==
    /\ Step(t)
    /\ tpc' = [tpc EXCEPT ![t] =
                  IF pc[t] \in {"rWaited", "rNotify"} /\ pc'[t] = "idle" THEN "load" ELSE @]
    /\ UNCHANGED <<number, acquireCount, releaseCount, ac>>

-----------------------------------------------------------------------------
TestStep(t) ==
    \/ t \in Acquirers /\ (Reserve(t) \/ AcquirerBreaks(t) \/ FetchAdd(t))
    \/ t \in Releasers /\ (LoadAc(t) \/ ReserveRelease(t) \/ Decrement(t) \/ CallsRelease(t))
    \/ SemaphoreStep(t)

\* Every thread has been joined.
Joined == \A t \in TestThreads : tpc[t] = "done"

TestNext ==
    \/ \E t \in TestThreads : TestStep(t) \/ (SpuriousWakeup(t) /\ UNCHANGED testVars)
    \/ Joined /\ UNCHANGED <<vars, testVars>>

TestSpec == TestInit /\ [][TestNext]_<<vars, testVars>>

\* The check of line 80: an acquired permit never finds Capacity others in
\* use, although the releasers give back permits on behalf of threads that
\* have only announced their acquire.
HeldWithinCapacity == \A t \in TestThreads : tpc[t] # "thrown"
=============================================================================
