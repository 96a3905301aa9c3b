-------------------------- MODULE CountingSemaphore --------------------------
(***************************************************************************)
(* What a bounded counting semaphore promises to its callers: `permits`    *)
(* is taken from and given to in one indivisible step of each call, an     *)
(* acquire returns only with a permit, and a release is refused exactly    *)
(* when the semaphore is full.                                             *)
(***************************************************************************)
EXTENDS Naturals

CONSTANTS Threads, Capacity

VARIABLES permits, phase

vars == <<permits, phase>>

Phases == {"idle", "acquiring", "releasing", "given", "refused"}

Init ==
    /\ permits = Capacity
    /\ phase = [t \in Threads |-> "idle"]

Move(t, from, to) ==
    /\ phase[t] = from
    /\ phase' = [phase EXCEPT ![t] = to]

Call(t) ==
    /\ \/ Move(t, "idle", "acquiring")
       \/ Move(t, "idle", "releasing")
    /\ UNCHANGED permits

Take(t) ==
    /\ Move(t, "acquiring", "idle")
    /\ permits > 0
    /\ permits' = permits - 1

Give(t) ==
    /\ Move(t, "releasing", "given")
    /\ permits < Capacity
    /\ permits' = permits + 1

Refuse(t) ==
    /\ Move(t, "releasing", "refused")
    /\ permits = Capacity
    /\ UNCHANGED permits

\* release() returns true or false.
Return(t) ==
    /\ Move(t, "given", "idle") \/ Move(t, "refused", "idle")
    /\ UNCHANGED permits

Next == \E t \in Threads : Call(t) \/ Take(t) \/ Give(t) \/ Refuse(t) \/ Return(t)

Spec == Init /\ [][Next]_vars

\* Some acquire returns while a permit stays available, some release is
\* answered while one is outstanding, and an answered release returns.
Fairness ==
    /\ WF_vars(\E t \in Threads : Take(t))
    /\ WF_vars(\E t \in Threads : Give(t) \/ Refuse(t))
    /\ \A t \in Threads : WF_vars(Return(t))
=============================================================================
