---------------------------- MODULE EventNotifier ----------------------------
(***************************************************************************)
(* The auto-reset event of simple_http/tcp_server/include/utils.h: a flag  *)
(* protected by a mutex and a condition variable.  Each action below is    *)
(* one critical section of the class (or the notify_one outside of it).    *)
(* `sleeping` is the set of threads blocked inside cv.wait.                *)
(***************************************************************************)
VARIABLES signaled, sleeping

notifierVars == <<signaled, sleeping>>

NotifierInit ==
    /\ signaled = FALSE
    /\ sleeping = {}

\* Set(), first half: the flag is raised under the lock.
SetSignaled ==
    /\ signaled' = TRUE
    /\ UNCHANGED sleeping

\* Set(), second half: cv.notify_one() after the lock has been released.
NotifyOne ==
    /\ \/ sleeping = {} /\ UNCHANGED sleeping
       \/ \E t \in sleeping : sleeping' = sleeping \ {t}
    /\ UNCHANGED signaled

\* Wait() finds the flag raised, lowers it and returns.
TakeSignal(t) ==
    /\ t \notin sleeping
    /\ signaled
    /\ signaled' = FALSE
    /\ UNCHANGED sleeping

\* Wait() finds the flag lowered: cv.wait releases the lock and blocks.
FallAsleep(t) ==
    /\ t \notin sleeping
    /\ ~signaled
    /\ sleeping' = sleeping \cup {t}
    /\ UNCHANGED signaled

\* A condition variable may wake a thread that nobody notified.
SpuriousWakeup(t) ==
    /\ t \in sleeping
    /\ sleeping' = sleeping \ {t}
    /\ UNCHANGED signaled
=============================================================================
