--------------------------- MODULE SemaphoreProofs ---------------------------
(***************************************************************************)
(* Proofs about Semaphore, for any finite set of threads and any capacity: *)
(* no wake-up is lost, and the code implements CountingSemaphore.          *)
(***************************************************************************)
EXTENDS Semaphore, FiniteSetTheorems, TLAPS

\* The sets of threads the invariant counts are finite.
LEMMA FiniteParts ==
    /\ IsFiniteSet(Counted) /\ Cardinality(Counted) \in Nat
    /\ IsFiniteSet(Helpers) /\ Cardinality(Helpers) \in Nat
<1>1. Counted \in SUBSET Threads /\ Helpers \in SUBSET Threads
  BY DEF Counted, Helpers
<1> QED
  BY <1>1, SemaphoreAssumption, FS_Subset, FS_CardinalityType DEF SemaphoreAssumption

LEMMA InitIInv == Init => IInv
<1> SUFFICES ASSUME Init PROVE IInv
  OBVIOUS
<1> USE SemaphoreAssumption DEF SemaphoreAssumption, Init
<1>1. TypeOK
  BY DEF TypeOK, Pc
<1>2. Counted = {} /\ Owning = {} /\ Asleep = {}
  BY DEF Counted, Owning, Asleep
<1> QED
  BY <1>1, <1>2, FS_EmptySet DEF IInv, LocalsOK, MutexOwned, WaitedIsExact, EnoughHelpers

LEMMA TypeStep == TypeOK /\ LocalsOK /\ [Next]_vars => TypeOK' /\ LocalsOK'
<1> SUFFICES ASSUME TypeOK, LocalsOK, [Next]_vars PROVE TypeOK' /\ LocalsOK'
  OBVIOUS
<1> USE SemaphoreAssumption DEF SemaphoreAssumption, TypeOK, LocalsOK, Pc, AcquirePc, ReleasePc, Goto
<1>1. ASSUME NEW t \in Threads, Call(t) PROVE TypeOK' /\ LocalsOK'
  BY <1>1 DEF Call, CallAcquire, CallRelease
<1>2. ASSUME NEW t \in Threads, Step(t) PROVE TypeOK' /\ LocalsOK'
  <2>1. CASE AcquireLoad(t)
    BY <2>1 DEF AcquireLoad
  <2>2. CASE AcquireCas(t)
    BY <2>2 DEF AcquireCas
  <2>3. CASE AcquireCasFails(t)
    BY <2>3 DEF AcquireCasFails
  <2>4. CASE AcquireLock(t)
    <3>1. mtxFree' \in BOOLEAN
      BY <2>4, Zenon DEF AcquireLock
    <3>2. waited' \in Int
      BY <2>4 DEF AcquireLock
    <3> QED
      BY <2>4, <3>1, <3>2 DEF AcquireLock
  <2>5. CASE TestPredicate(t)
    BY <2>5 DEF TestPredicate
  <2>6. CASE Block(t)
    BY <2>6 DEF Block
  <2>7. CASE Relock(t)
    BY <2>7 DEF Relock
  <2>8. CASE AcquireLeave(t)
    BY <2>8 DEF AcquireLeave
  <2>9. CASE ReleaseLoad(t)
    BY <2>9 DEF ReleaseLoad
  <2>10. CASE ReleaseCas(t)
    BY <2>10 DEF ReleaseCas
  <2>11. CASE ReleaseCasFails(t)
    BY <2>11 DEF ReleaseCasFails
  <2>12. CASE ReleaseLost(t)
    BY <2>12 DEF ReleaseLost
  <2>13. CASE TestWaited(t)
    BY <2>13 DEF TestWaited
  <2>14. CASE Notify(t)
    BY <2>14 DEF Notify
  <2> QED
    BY <1>2, <2>1, <2>2, <2>3, <2>4, <2>5, <2>6, <2>7, <2>8, <2>9, <2>10, <2>11, <2>12, <2>13, <2>14 DEF Step
<1>3. ASSUME NEW t \in Threads, SpuriousWakeup(t) PROVE TypeOK' /\ LocalsOK'
  BY <1>3 DEF SpuriousWakeup
<1>4. CASE UNCHANGED vars
  BY <1>4 DEF vars
<1> QED
  BY <1>1, <1>2, <1>3, <1>4 DEF Next

LEMMA CountStep == IInv /\ TypeOK' /\ LocalsOK' /\ [Next]_vars => IInv'
<1> SUFFICES ASSUME IInv, TypeOK', LocalsOK', [Next]_vars
             PROVE  MutexOwned' /\ WaitedIsExact' /\ EnoughHelpers'
  BY DEF IInv
<1> USE DEF IInv, TypeOK, LocalsOK, Pc, AcquirePc, ReleasePc, Goto
<1> DEFINE Sets == <<Counted, Owning, Asleep, Helpers>>
<1>1. ASSUME UNCHANGED <<remaining, waited, mtxFree>>, UNCHANGED Sets
      PROVE  MutexOwned' /\ WaitedIsExact' /\ EnoughHelpers'
  BY <1>1 DEF MutexOwned, WaitedIsExact, EnoughHelpers
<1>2. ASSUME NEW t \in Threads,
             \/ CallRelease(t) \/ AcquireLoad(t) \/ AcquireCasFails(t)
             \/ ReleaseLoad(t) \/ ReleaseCasFails(t) \/ ReleaseLost(t)
      PROVE  MutexOwned' /\ WaitedIsExact' /\ EnoughHelpers'
  <2>1. UNCHANGED Sets
    <3>1. Counted' = Counted /\ Owning' = Owning
      BY <1>2 DEF CallRelease, AcquireLoad, AcquireCasFails, ReleaseLoad, ReleaseCasFails, ReleaseLost,
                  Counted, Owning
    <3>2. Asleep' = Asleep
      BY <1>2 DEF CallRelease, AcquireLoad, AcquireCasFails, ReleaseLoad, ReleaseCasFails, ReleaseLost, Asleep
    <3>3. Helpers' = Helpers
      BY <1>2, <3>2 DEF CallRelease, AcquireLoad, AcquireCasFails, ReleaseLoad, ReleaseCasFails, ReleaseLost, Helpers
    <3> QED
      BY <3>1, <3>2, <3>3
  <2>2. UNCHANGED <<remaining, waited, mtxFree>>
    BY <1>2 DEF CallRelease, AcquireLoad, AcquireCasFails, ReleaseLoad, ReleaseCasFails, ReleaseLost
  <2> QED
    BY <1>1, <2>1, <2>2
<1>3. ASSUME NEW t \in Threads, CallAcquire(t)
      PROVE  MutexOwned' /\ WaitedIsExact' /\ EnoughHelpers'
  <2>1. Counted' = Counted /\ Owning' = Owning /\ Asleep' = Asleep
    BY <1>3 DEF CallAcquire, Counted, Owning, Asleep
  <2>2. t \notin Helpers /\ Helpers' = Helpers \cup {t}
    BY <1>3, <2>1 DEF CallAcquire, Helpers, Asleep
  <2>3. Cardinality(Helpers') = Cardinality(Helpers) + 1
    BY <2>2, FiniteParts, FS_AddElement
  <2> QED
    BY <1>3, <2>1, <2>3, FiniteParts DEF CallAcquire, MutexOwned, WaitedIsExact, EnoughHelpers
<1>4. ASSUME NEW t \in Threads, AcquireCas(t)
      PROVE  MutexOwned' /\ WaitedIsExact' /\ EnoughHelpers'
  <2>1. Counted' = Counted /\ Owning' = Owning /\ Asleep' = Asleep
    BY <1>4 DEF AcquireCas, Counted, Owning, Asleep
  <2>2. t \in Helpers /\ Helpers' = Helpers \ {t}
    BY <1>4, <2>1 DEF AcquireCas, Helpers, Asleep
  <2>3. Cardinality(Helpers') = Cardinality(Helpers) - 1
    BY <2>2, FiniteParts, FS_RemoveElement
  <2> QED
    BY <1>4, <2>1, <2>3, FiniteParts DEF AcquireCas, MutexOwned, WaitedIsExact, EnoughHelpers
<1>5. ASSUME NEW t \in Threads, AcquireLock(t)
      PROVE  MutexOwned' /\ WaitedIsExact' /\ EnoughHelpers'
  <2>1. /\ t \notin Counted /\ Counted' = Counted \cup {t}
        /\ Owning' = Owning \cup {t}
        /\ Asleep' = Asleep
    BY <1>5 DEF AcquireLock, Counted, Owning, Asleep
  <2>2. Helpers' = Helpers
    BY <1>5, <2>1 DEF AcquireLock, Helpers, Asleep
  <2>3. Cardinality(Counted') = Cardinality(Counted) + 1
    BY <2>1, FiniteParts, FS_AddElement
  <2> QED
    BY <1>5, <2>1, <2>2, <2>3, FiniteParts DEF AcquireLock, MutexOwned, WaitedIsExact, EnoughHelpers
<1>6. ASSUME NEW t \in Threads, TestPredicate(t)
      PROVE  MutexOwned' /\ WaitedIsExact' /\ EnoughHelpers'
  <2>1. Counted' = Counted /\ Owning' = Owning
    BY <1>6 DEF TestPredicate, Counted, Owning
  <2>2. CASE remaining > 0
    <3>1. Asleep' = Asleep /\ Helpers' = Helpers
      BY <1>6, <2>2 DEF TestPredicate, Helpers, Asleep
    <3> QED
      BY <1>1, <1>6, <2>1, <3>1 DEF TestPredicate
  <2>3. CASE ~(remaining > 0)
    <3>1. remaining' = 0
      BY <1>6, <2>3 DEF TestPredicate
    <3>2. Helpers' \in SUBSET Threads
      BY DEF Helpers
    <3>3. Cardinality(Helpers') \in Nat
      BY <3>2, SemaphoreAssumption, FS_Subset, FS_CardinalityType DEF SemaphoreAssumption
    <3> QED
      BY <1>6, <2>1, <3>1, <3>3 DEF TestPredicate, MutexOwned, WaitedIsExact, EnoughHelpers
  <2> QED
    BY <2>2, <2>3
<1>7. ASSUME NEW t \in Threads, Block(t)
      PROVE  MutexOwned' /\ WaitedIsExact' /\ EnoughHelpers'
  <2>1. Counted' = Counted /\ t \in Owning /\ Owning' = Owning \ {t} /\ Asleep' = Asleep
    BY <1>7 DEF Block, Counted, Owning, Asleep
  <2>2. Helpers' = Helpers
    BY <1>7, <2>1 DEF Block, Helpers, Asleep
  <2> QED
    BY <1>7, <2>1, <2>2 DEF Block, MutexOwned, WaitedIsExact, EnoughHelpers
<1>8. ASSUME NEW t \in Threads, Relock(t)
      PROVE  MutexOwned' /\ WaitedIsExact' /\ EnoughHelpers'
  <2>1. Counted' = Counted /\ Owning' = Owning \cup {t} /\ Asleep' = Asleep
    BY <1>8 DEF Relock, Counted, Owning, Asleep
  <2>2. Helpers' = Helpers
    BY <1>8, <2>1 DEF Relock, Helpers, Asleep
  <2> QED
    BY <1>8, <2>1, <2>2 DEF Relock, MutexOwned, WaitedIsExact, EnoughHelpers
<1>9. ASSUME NEW t \in Threads, AcquireLeave(t)
      PROVE  MutexOwned' /\ WaitedIsExact' /\ EnoughHelpers'
  <2>1. /\ t \in Counted /\ Counted' = Counted \ {t}
        /\ t \in Owning /\ Owning' = Owning \ {t}
        /\ Asleep' = Asleep
    BY <1>9 DEF AcquireLeave, Counted, Owning, Asleep
  <2>2. Helpers' = Helpers
    BY <1>9, <2>1 DEF AcquireLeave, Helpers, Asleep
  <2>3. Cardinality(Counted') = Cardinality(Counted) - 1
    BY <2>1, FiniteParts, FS_RemoveElement
  <2> QED
    BY <1>9, <2>1, <2>2, <2>3, FiniteParts
       DEF AcquireLeave, MutexOwned, WaitedIsExact, EnoughHelpers
<1>10. ASSUME NEW t \in Threads, ReleaseCas(t)
       PROVE  MutexOwned' /\ WaitedIsExact' /\ EnoughHelpers'
  <2>1. Counted' = Counted /\ Owning' = Owning /\ Asleep' = Asleep
    BY <1>10 DEF ReleaseCas, Counted, Owning, Asleep
  <2>2. t \notin Helpers /\ Helpers' = Helpers \cup {t}
    BY <1>10, <2>1 DEF ReleaseCas, Helpers, Asleep
  <2>3. Cardinality(Helpers') = Cardinality(Helpers) + 1
    BY <2>2, FiniteParts, FS_AddElement
  <2> QED
    BY <1>10, <2>1, <2>3, FiniteParts DEF ReleaseCas, MutexOwned, WaitedIsExact, EnoughHelpers
<1>11. ASSUME NEW t \in Threads, TestWaited(t)
       PROVE  MutexOwned' /\ WaitedIsExact' /\ EnoughHelpers'
  <2>1. Counted' = Counted /\ Owning' = Owning /\ Asleep' = Asleep
    BY <1>11 DEF TestWaited, Counted, Owning, Asleep
  <2>2. CASE waited > 0
    <3>1. Helpers' = Helpers
      BY <1>11, <2>1, <2>2 DEF TestWaited, Helpers, Asleep
    <3> QED
      BY <1>1, <1>11, <2>1, <3>1 DEF TestWaited
  <2>3. CASE ~(waited > 0)
    <3>1. Counted = {}
      BY <2>3, FiniteParts, FS_EmptySet DEF WaitedIsExact
    <3>2. Asleep = {}
      BY <3>1 DEF Asleep, Counted
    <3> QED
      BY <1>11, <2>1, <3>2 DEF TestWaited, MutexOwned, WaitedIsExact, EnoughHelpers
  <2> QED
    BY <2>2, <2>3
<1>12. ASSUME NEW t \in Threads, Notify(t)
       PROVE  MutexOwned' /\ WaitedIsExact' /\ EnoughHelpers'
  <2>1. Counted' = Counted /\ Owning' = Owning
    BY <1>12 DEF Notify, Counted, Owning
  <2>2. Asleep = blocked /\ Asleep' = blocked'
    BY <1>12 DEF Notify, MutexOwned, Owning, Asleep
  <2>3. CASE blocked = {}
    BY <1>12, <2>1, <2>2, <2>3 DEF Notify, MutexOwned, WaitedIsExact, EnoughHelpers
  <2>4. CASE blocked # {}
    <3>1. PICK u \in blocked : blocked' = blocked \ {u}
      BY <1>12, <2>4 DEF Notify
    <3>2. /\ t \in Helpers
          /\ u \notin Helpers \ {t}
          /\ Helpers' = (Helpers \ {t}) \cup {u}
      BY <1>12, <2>2, <3>1 DEF Notify, Helpers
    <3>3. Cardinality(Helpers') = Cardinality(Helpers)
      <4>1. IsFiniteSet(Helpers \ {t}) /\ Cardinality(Helpers \ {t}) = Cardinality(Helpers) - 1
        BY <3>2, FiniteParts, FS_RemoveElement
      <4>2. Cardinality((Helpers \ {t}) \cup {u}) = Cardinality(Helpers \ {t}) + 1
        BY <3>2, <4>1, FS_AddElement
      <4> QED
        BY <3>2, <4>1, <4>2, FiniteParts
    <3> QED
      BY <1>12, <2>1, <2>2, <2>4, <3>3 DEF Notify, MutexOwned, WaitedIsExact, EnoughHelpers
  <2> QED
    BY <2>3, <2>4
<1>13. ASSUME NEW t \in Threads, SpuriousWakeup(t)
       PROVE  MutexOwned' /\ WaitedIsExact' /\ EnoughHelpers'
  <2>1. Counted' = Counted /\ Owning' = Owning /\ Asleep' = Asleep \ {t} /\ Asleep # {}
    BY <1>13 DEF SpuriousWakeup, Counted, Owning, Asleep
  <2>2. t \notin Helpers /\ Helpers' = Helpers \cup {t}
    BY <1>13, <2>1 DEF SpuriousWakeup, Helpers, Asleep
  <2>3. Cardinality(Helpers') = Cardinality(Helpers) + 1
    BY <2>2, FiniteParts, FS_AddElement
  <2> QED
    BY <1>13, <2>1, <2>3, FiniteParts DEF SpuriousWakeup, MutexOwned, WaitedIsExact, EnoughHelpers
<1>14. CASE UNCHANGED vars
  BY <1>1, <1>14 DEF vars, Counted, Owning, Asleep, Helpers
<1> QED
  BY <1>2, <1>3, <1>4, <1>5, <1>6, <1>7, <1>8, <1>9, <1>10, <1>11, <1>12, <1>13, <1>14
     DEF Next, Call, Step

\* IInv holds in every reachable state.
THEOREM Invariance == Spec => []IInv
<1>1. IInv /\ [Next]_vars => IInv'
  BY TypeStep, CountStep DEF IInv
<1> QED
  BY <1>1, InitIInv, PTL DEF Spec

\* While a thread sleeps in acquire(), every available permit has a thread
\* that will take it or a releaser that will notify: no wake-up is lost.
THEOREM NoWakeupLost == Spec => []EnoughHelpers
BY Invariance, PTL DEF IInv

\* `waited` is exactly the number of threads inside the waiting section.
THEOREM WaitersCounted == Spec => []WaitedIsExact
BY Invariance, PTL DEF IInv

LEMMA RefinedStep == TypeOK /\ LocalsOK /\ TypeOK' /\ [Next]_vars => [Abstract!Next]_(Abstract!vars)
<1> DEFINE phase == [t \in Threads |-> Phase(t)]
<1> SUFFICES ASSUME TypeOK, LocalsOK, TypeOK', [Next]_vars
             PROVE  Abstract!Next \/ (remaining' = remaining /\ phase' = phase)
  BY DEF Abstract!vars
<1> USE DEF TypeOK, LocalsOK, Pc, AcquirePc, ReleasePc, Goto
\* A thread whose pc and expected do not change keeps its phase.
<1>1. ASSUME NEW t \in Threads,
             \A u \in Threads \ {t} : pc'[u] = pc[u] /\ expected'[u] = expected[u]
      PROVE  phase' = [phase EXCEPT ![t] = Phase(t)']
  <2>1. ASSUME NEW u \in Threads, u # t PROVE Phase(u)' = Phase(u)
    <3>1. pc'[u] = pc[u] /\ expected'[u] = expected[u]
      BY <1>1, <2>1
    <3> QED
      BY <3>1 DEF Phase
  <2> QED
    BY <2>1
<1>2. ASSUME NEW t \in Threads, Call(t) PROVE Abstract!Next
  <2>1. phase[t] = "idle" /\ Phase(t)' \in {"acquiring", "releasing"} /\ remaining' = remaining
    BY <1>2 DEF Call, CallAcquire, CallRelease, Phase
  <2>2. phase' = [phase EXCEPT ![t] = Phase(t)']
    BY <1>1, <1>2 DEF Call, CallAcquire, CallRelease
  <2> QED
    BY <2>1, <2>2 DEF Abstract!Next, Abstract!Call, Abstract!Move
\* The inner steps of acquire() are invisible to the callers.
<1>3. ASSUME NEW t \in Threads,
             \/ AcquireLoad(t) \/ AcquireCasFails(t) \/ AcquireLock(t) \/ TestPredicate(t)
             \/ Block(t) \/ Relock(t) \/ AcquireLeave(t) \/ SpuriousWakeup(t)
      PROVE  remaining' = remaining /\ phase' = phase
  <2>1. /\ pc[t] \in AcquirePc /\ pc'[t] \in AcquirePc
        /\ \A u \in Threads \ {t} : pc'[u] = pc[u] /\ expected'[u] = expected[u]
        /\ remaining' = remaining
    BY <1>3 DEF AcquireLoad, AcquireCasFails, AcquireLock, TestPredicate, Block, Relock,
                AcquireLeave, SpuriousWakeup
  <2>2. phase[t] = "acquiring" /\ Phase(t)' = "acquiring"
    BY <2>1 DEF Phase
  <2>3. ASSUME NEW u \in Threads PROVE Phase(u)' = Phase(u)
    <3>1. CASE u = t
      BY <2>2, <3>1
    <3>2. CASE u # t
      <4>1. pc'[u] = pc[u] /\ expected'[u] = expected[u]
        BY <2>1, <3>2
      <4> QED
        BY <4>1 DEF Phase
    <3> QED
      BY <3>1, <3>2
  <2> QED
    BY <2>1, <2>3
<1>4. ASSUME NEW t \in Threads, AcquireCas(t) PROVE Abstract!Next
  <2>1. /\ phase[t] = "acquiring" /\ Phase(t)' = "idle"
        /\ remaining > 0 /\ remaining' = remaining - 1
    BY <1>4 DEF AcquireCas, Phase
  <2>2. phase' = [phase EXCEPT ![t] = Phase(t)']
    BY <1>1, <1>4 DEF AcquireCas
  <2> QED
    BY <2>1, <2>2 DEF Abstract!Next, Abstract!Take, Abstract!Move
<1>5. ASSUME NEW t \in Threads, ReleaseLoad(t) \/ ReleaseCasFails(t)
      PROVE  Abstract!Next \/ (remaining' = remaining /\ phase' = phase)
  <2>1. /\ phase[t] = "releasing"
        /\ Phase(t)' = IF remaining < Capacity THEN "releasing" ELSE "refused"
        /\ remaining' = remaining
    BY <1>5, SemaphoreAssumption DEF ReleaseLoad, ReleaseCasFails, Phase, SemaphoreAssumption
  <2>2. phase' = [phase EXCEPT ![t] = Phase(t)']
    BY <1>1, <1>5 DEF ReleaseLoad, ReleaseCasFails
  <2>3. CASE remaining < Capacity
    <3>1. Phase(t)' = "releasing" /\ phase[t] = "releasing"
      BY <2>1, <2>3
    <3>2. phase' = phase
      BY <2>2, <3>1
    <3> QED
      BY <2>1, <3>2
  <2>4. CASE remaining = Capacity
    <3>1. Phase(t)' = "refused"
      BY <2>1, <2>4, SemaphoreAssumption DEF SemaphoreAssumption
    <3> QED
      BY <2>1, <2>2, <2>4, <3>1 DEF Abstract!Next, Abstract!Refuse, Abstract!Move
  <2> QED
    BY <2>3, <2>4, SemaphoreAssumption DEF SemaphoreAssumption
<1>6. ASSUME NEW t \in Threads, ReleaseCas(t) PROVE Abstract!Next
  <2>1. /\ phase[t] = "releasing" /\ Phase(t)' = "given"
        /\ remaining < Capacity /\ remaining' = remaining + 1
    BY <1>6 DEF ReleaseCas, Phase
  <2>2. phase' = [phase EXCEPT ![t] = Phase(t)']
    BY <1>1, <1>6 DEF ReleaseCas
  <2> QED
    BY <2>1, <2>2 DEF Abstract!Next, Abstract!Give, Abstract!Move
<1>7. ASSUME NEW t \in Threads, ReleaseLost(t) \/ TestWaited(t) \/ Notify(t)
      PROVE  Abstract!Next \/ (remaining' = remaining /\ phase' = phase)
  <2>1. /\ phase[t] \in {"given", "refused"}
        /\ Phase(t)' = "idle" \/ Phase(t)' = phase[t]
        /\ remaining' = remaining
    BY <1>7, SemaphoreAssumption DEF ReleaseLost, TestWaited, Notify, Phase, SemaphoreAssumption
  <2>2. phase' = [phase EXCEPT ![t] = Phase(t)']
    BY <1>1, <1>7 DEF ReleaseLost, TestWaited, Notify
  <2> QED
    BY <2>1, <2>2 DEF Abstract!Next, Abstract!Return, Abstract!Move
<1>8. CASE UNCHANGED vars
  BY <1>8 DEF vars, Phase
<1> QED
  BY <1>2, <1>3, <1>4, <1>5, <1>6, <1>7, <1>8 DEF Next, Step

\* Every behaviour of acquire() and release() is one of the abstract counting
\* semaphore: each call takes effect in one step, and permits are conserved.
THEOREM Refinement == Spec => ImplementsSemaphore
<1>1. Init => Abstract!Init
  <2> SUFFICES ASSUME Init PROVE Abstract!Init
    OBVIOUS
  <2>1. \A t \in Threads : Phase(t) = "idle"
    BY DEF Init, Phase, AcquirePc
  <2> QED
    BY <2>1 DEF Init, Abstract!Init
<1>2. IInv /\ IInv' /\ [Next]_vars => [Abstract!Next]_(Abstract!vars)
  BY RefinedStep DEF IInv
<1> QED
  BY <1>1, <1>2, Invariance, PTL DEF Spec, ImplementsSemaphore, Abstract!Spec
=============================================================================
