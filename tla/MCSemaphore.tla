----------------------------- MODULE MCSemaphore -----------------------------
(***************************************************************************)
(* The semaphore under its users in one run of TLC.  A behaviour is one of *)
(* the users', chosen in the initial state: threads that acquire and       *)
(* release as they like, TestA, or TestB.                                  *)
(***************************************************************************)
EXTENDS Semaphore

CONSTANTS Acquirers, Releasers,  \* the threads of TestA
          Main,                  \* the main thread of TestB
          Callers                \* the acquirers of TestB, or those that call as they like

VARIABLES
    user,
    number, acquireCount, releaseCount, ac, tpc, released  \* of the tests

testVars == <<number, acquireCount, releaseCount, ac, tpc, released>>
allVars == <<user, vars, testVars>>

A == INSTANCE SemaphoreTestA WITH Count <- 3
B == INSTANCE SemaphoreTestB WITH Acquirers <- Callers, Garbage <- -1..3

AOff == number = 0 /\ acquireCount = 0 /\ releaseCount = 0
BOff == released = 0

MCInit ==
    \/ user = "any" /\ Init /\ AOff /\ BOff /\ ac = 0 /\ tpc = 0
    \/ user = "TestA" /\ A!TestInit /\ BOff
    \/ user = "TestB" /\ B!TestInit /\ AOff

InAny(step)   == user = "any" /\ step /\ UNCHANGED <<user, testVars>>
InTestA(step) == user = "TestA" /\ step /\ UNCHANGED <<user, released>>
InTestB(step) == user = "TestB" /\ step /\ UNCHANGED <<user, number, acquireCount, releaseCount>>

MCNext ==
    \/ InAny(\E t \in Callers : Call(t) \/ Step(t) \/ SpuriousWakeup(t))
    \/ InTestA(A!TestNext)
    \/ InTestB(B!TestNext)

\* A step of thread t, and one that takes mtx
ThreadStep(t) ==
    \/ t \in Callers /\ InAny(Step(t))
    \/ t \in A!TestThreads /\ InTestA(A!TestStep(t))
    \/ t \in B!TestThreads /\ InTestB(B!TestStep(t))
TakesMutex(t) ==
    \/ t \in Callers /\ InAny(Locks(t))
    \/ t \in A!TestThreads /\ InTestA(Locks(t) /\ A!SemaphoreStep(t))
    \/ t \in B!TestThreads /\ InTestB(Locks(t) /\ B!SemaphoreStep(t))

\* Every thread that can run runs, and mtx is not withheld from one for ever.
MCSpec ==
    /\ MCInit /\ [][MCNext]_allVars
    /\ \A t \in Threads : WF_allVars(ThreadStep(t)) /\ SF_allVars(TakesMutex(t))

-----------------------------------------------------------------------------
\* TestA: the exception of line 80 is never thrown, no more permits are in use
\* than there are.
HeldWithinCapacity == user = "TestA" => A!HeldWithinCapacity

\* TestA and TestB: every join returns.  In TestB only if the uninitialised ac is
\* not negative: else main never leaves the loop of line 193.
TestJoins ==
    <>[](CASE user = "TestA" -> A!Joined
           [] user = "TestB" -> B!Returned \/ B!StartedNegative
           [] OTHER -> TRUE)
=============================================================================
