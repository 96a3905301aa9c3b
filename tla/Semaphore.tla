------------------------------ MODULE Semaphore ------------------------------
(***************************************************************************)
(* The semaphore of learn_grpc (lib/utils/semaphore.h) and of              *)
(* thread/semaphore/main.cpp: an atomic counter taken with a               *)
(* compare-and-swap loop, and a condition variable for the threads that    *)
(* find it at zero.  The counter changes outside the mutex, and the notify *)
(* is skipped when the atomic `waited` reads zero.                         *)
(*                                                                         *)
(* A step is one access to shared state.  A compare_exchange_weak that     *)
(* fails spuriously changes nothing: a stuttering step.                    *)
(***************************************************************************)
EXTENDS Integers, FiniteSets

CONSTANTS Threads, Capacity

ASSUME SemaphoreAssumption ==
    /\ IsFiniteSet(Threads)
    /\ Capacity \in Nat

VARIABLES
    remaining,  \* permits available
    waited,     \* threads between waited++ and waited--
    mtxFree,    \* nobody holds mtx
    blocked,    \* threads blocked in cv.wait
    pc,
    expected    \* the local variable of acquire() or release()

vars == <<remaining, waited, mtxFree, blocked, pc, expected>>

AcquirePc == {"aLoad", "aCas", "aLock", "aTest", "aBlock", "aWake", "aLeave"}
ReleasePc == {"rLoad", "rCas", "rWaited", "rNotify"}
Pc == {"idle"} \cup AcquirePc \cup ReleasePc

TypeOK ==
    /\ remaining \in 0..Capacity
    /\ waited \in Int
    /\ mtxFree \in BOOLEAN
    /\ blocked \in SUBSET Threads
    /\ pc \in [Threads -> Pc]
    /\ expected \in [Threads -> 0..Capacity]

Init ==
    /\ remaining = Capacity
    /\ waited = 0
    /\ mtxFree = TRUE
    /\ blocked = {}
    /\ pc = [t \in Threads |-> "idle"]
    /\ expected = [t \in Threads |-> 0]

Goto(t, from, to) ==
    /\ pc[t] = from
    /\ pc' = [pc EXCEPT ![t] = to]

-----------------------------------------------------------------------------
\* acquire()

CallAcquire(t) ==
    /\ Goto(t, "idle", "aLoad")
    /\ UNCHANGED <<remaining, waited, mtxFree, blocked, expected>>

\* expected = remaining.load(); the loop and the test that follow only look
\* at the local variable.
AcquireLoad(t) ==
    /\ Goto(t, "aLoad", IF remaining > 0 THEN "aCas" ELSE "aLock")
    /\ expected' = [expected EXCEPT ![t] = remaining]
    /\ UNCHANGED <<remaining, waited, mtxFree, blocked>>

\* Mutant: a store in place of the compare-and-swap.
AcquireCas_Store(t) ==
    /\ Goto(t, "aCas", "idle")
    /\ remaining' = expected[t] - 1
    /\ UNCHANGED <<waited, mtxFree, blocked, expected>>

\* compare_exchange_weak(expected, expected - 1) succeeds: acquire() returns.
AcquireCas(t) ==
    /\ Goto(t, "aCas", "idle")
    /\ remaining = expected[t]
    /\ remaining' = expected[t] - 1
    /\ UNCHANGED <<waited, mtxFree, blocked, expected>>

\* It fails and stores the value it saw in expected.
AcquireCasFails(t) ==
    /\ remaining # expected[t]
    /\ Goto(t, "aCas", IF remaining > 0 THEN "aCas" ELSE "aLock")
    /\ expected' = [expected EXCEPT ![t] = remaining]
    /\ UNCHANGED <<remaining, waited, mtxFree, blocked>>

\* Lock mtx and count itself as a waiter.
AcquireLock(t) ==
    /\ Goto(t, "aLock", "aTest")
    /\ mtxFree
    /\ mtxFree' = FALSE
    /\ waited' = waited + 1
    /\ UNCHANGED <<remaining, blocked, expected>>

\* The predicate of cv.wait, which reads the counter that others change
\* without the mutex.
TestPredicate(t) ==
    /\ Goto(t, "aTest", IF remaining > 0 THEN "aLeave" ELSE "aBlock")
    /\ UNCHANGED <<remaining, waited, mtxFree, blocked, expected>>

\* cv.wait unlocks and blocks in one step.
Block(t) ==
    /\ Goto(t, "aBlock", "aWake")
    /\ blocked' = blocked \cup {t}
    /\ mtxFree' = TRUE
    /\ UNCHANGED <<remaining, waited, expected>>

\* A woken thread locks mtx again and goes back to the predicate.
Relock(t) ==
    /\ Goto(t, "aWake", "aTest")
    /\ t \notin blocked
    /\ mtxFree
    /\ mtxFree' = FALSE
    /\ UNCHANGED <<remaining, waited, blocked, expected>>

\* waited--, unlock, and back to the head of the loop.
AcquireLeave(t) ==
    /\ Goto(t, "aLeave", "aLoad")
    /\ waited' = waited - 1
    /\ mtxFree' = TRUE
    /\ UNCHANGED <<remaining, blocked, expected>>

SpuriousWakeup(t) ==
    /\ t \in blocked
    /\ blocked' = blocked \ {t}
    /\ UNCHANGED <<remaining, waited, mtxFree, pc, expected>>

-----------------------------------------------------------------------------
\* release()

CallRelease(t) ==
    /\ Goto(t, "idle", "rLoad")
    /\ UNCHANGED <<remaining, waited, mtxFree, blocked, expected>>

ReleaseLoad(t) ==
    /\ Goto(t, "rLoad", "rCas")
    /\ expected' = [expected EXCEPT ![t] = remaining]
    /\ UNCHANGED <<remaining, waited, mtxFree, blocked>>

\* compare_exchange_weak(expected, expected + 1) succeeds.
ReleaseCas(t) ==
    /\ Goto(t, "rCas", "rWaited")
    /\ expected[t] < Capacity
    /\ remaining = expected[t]
    /\ remaining' = expected[t] + 1
    /\ UNCHANGED <<waited, mtxFree, blocked, expected>>

ReleaseCasFails(t) ==
    /\ pc[t] = "rCas"
    /\ expected[t] < Capacity
    /\ remaining # expected[t]
    /\ expected' = [expected EXCEPT ![t] = remaining]
    /\ UNCHANGED <<remaining, waited, mtxFree, blocked, pc>>

\* expected == capacity: return false, the release is lost.
ReleaseLost(t) ==
    /\ Goto(t, "rCas", "idle")
    /\ expected[t] = Capacity
    /\ UNCHANGED <<remaining, waited, mtxFree, blocked, expected>>

\* waited > 0 decides between notifying and returning true at once.
TestWaited(t) ==
    /\ Goto(t, "rWaited", IF waited > 0 THEN "rNotify" ELSE "idle")
    /\ UNCHANGED <<remaining, waited, mtxFree, blocked, expected>>

\* Mutant: cv.notify_one() without mtx.
Notify_Unlocked(t) ==
    /\ Goto(t, "rNotify", "idle")
    /\ \/ blocked = {} /\ UNCHANGED blocked
       \/ \E u \in blocked : blocked' = blocked \ {u}
    /\ UNCHANGED <<remaining, waited, mtxFree, expected>>

\* cv.notify_one() under mtx, then return true.
Notify(t) ==
    /\ Goto(t, "rNotify", "idle")
    /\ mtxFree
    /\ \/ blocked = {} /\ UNCHANGED blocked
       \/ \E u \in blocked : blocked' = blocked \ {u}
    /\ UNCHANGED <<remaining, waited, mtxFree, expected>>

-----------------------------------------------------------------------------
Call(t) == CallAcquire(t) \/ CallRelease(t)

Step(t) ==
    \/ AcquireLoad(t) \/ AcquireCas(t) \/ AcquireCasFails(t) \/ AcquireLock(t)
    \/ TestPredicate(t) \/ Block(t) \/ Relock(t) \/ AcquireLeave(t)
    \/ ReleaseLoad(t) \/ ReleaseCas(t) \/ ReleaseCasFails(t) \/ ReleaseLost(t)
    \/ TestWaited(t) \/ Notify(t)

Next == \E t \in Threads : Call(t) \/ Step(t) \/ SpuriousWakeup(t)

Spec == Init /\ [][Next]_vars

\* The steps that lock mtx.
Locks(t) == AcquireLock(t) \/ Relock(t) \/ Notify(t)

\* Every thread that can run runs, and one that wants mtx gets it when it is
\* free again and again.  Nobody is forced to call.
FairSpec ==
    /\ Spec
    /\ \A t \in Threads : WF_vars(Step(t)) /\ SF_vars(Locks(t))

-----------------------------------------------------------------------------
\* Threads that are asleep, or have decided to sleep and will whatever happens.
Asleep == {t \in Threads : t \in blocked \/ pc[t] = "aBlock"}

\* Threads that will still take a permit, or will still look at `waited` and
\* notify: a releaser that is past its compare-and-swap, and an acquirer that
\* has not decided to sleep.
Helpers ==
    {t \in Threads : \/ pc[t] \in {"rWaited", "rNotify"}
                     \/ pc[t] \in AcquirePc /\ t \notin Asleep}

\* The argument of the comment at semaphore.h:53.  While a thread sleeps there
\* are at least as many threads on their way to a permit or to a notify as
\* there are permits, so no sleeper is needed to use one up: reading `waited`
\* without the mutex loses no wake-up.
EnoughHelpers ==
    Asleep # {} => remaining <= Cardinality(Helpers)

\* The threads between waited++ and waited--, and those of them that hold mtx.
Counted == {t \in Threads : pc[t] \in {"aTest", "aBlock", "aWake", "aLeave"}}
Owning  == {t \in Threads : pc[t] \in {"aTest", "aBlock", "aLeave"}}

\* `waited` counts the threads between waited++ and waited--: a release that
\* reads zero skips nobody who is asleep.
WaitedIsExact == waited = Cardinality(Counted)

\* mtx has one owner at a time: cv.wait decides to block, and a release
\* notifies, one after the other.
MutexOwned ==
    /\ \A t, u \in Owning : t = u
    /\ mtxFree <=> Owning = {}

\* The rest of the inductive invariant: who is blocked, and a swap is only
\* tried with a permit in sight.
LocalsOK ==
    /\ \A t \in blocked : pc[t] = "aWake"
    /\ \A t \in Threads : pc[t] = "aCas" => expected[t] > 0

IInv == TypeOK /\ LocalsOK /\ MutexOwned /\ WaitedIsExact /\ EnoughHelpers

-----------------------------------------------------------------------------
\* The calls as a caller sees them: an acquire takes effect at its successful
\* compare-and-swap, a release at its compare-and-swap or where it reads that
\* the semaphore is full.
Phase(t) ==
    CASE pc[t] = "idle"                               -> "idle"
      [] pc[t] \in AcquirePc                          -> "acquiring"
      [] pc[t] = "rLoad"                              -> "releasing"
      [] pc[t] = "rCas" /\ expected[t] < Capacity     -> "releasing"
      [] pc[t] = "rCas" /\ expected[t] = Capacity     -> "refused"
      [] pc[t] \in {"rWaited", "rNotify"}             -> "given"

Abstract == INSTANCE CountingSemaphore WITH
                permits <- remaining,
                phase <- [t \in Threads |-> Phase(t)]

\* Every behaviour of the code is one of the counting semaphore.
ImplementsSemaphore == Abstract!Spec

\* As long as a permit is available some acquire() returns, as long as a
\* release() is outstanding one is answered, and an answered one returns.
MakesProgress == Abstract!Fairness
=============================================================================
