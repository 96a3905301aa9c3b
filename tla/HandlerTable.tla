---------------------------- MODULE HandlerTable -----------------------------
(***************************************************************************)
(* EventHandlerManager on its own: handlers come and go in any order.      *)
(***************************************************************************)
EXTENDS EventHandlerManager

VARIABLES
    used,     \* the keys of `handlers`
    lastKey
vars == <<used, lastKey>>

\* EventHandlerManager::EventHandlerManager
Init ==
    /\ used = {}
    /\ lastKey = 0

\* add(); the exception leaves lastKey where the search began.
Add ==
    LET key == AddKey(used, lastKey) IN
    IF key = NoKey THEN UNCHANGED vars
    ELSE used' = used \cup {key} /\ lastKey' = key

\* remove(): an absent key is no error.
Remove(key) ==
    /\ used' = used \ {key}
    /\ UNCHANGED lastKey

\* clear()
Clear ==
    /\ used' = {}
    /\ UNCHANGED lastKey

Next == Add \/ Clear \/ \E key \in Keys : Remove(key)

Spec == Init /\ [][Next]_vars

\* add() fails only when all 2^32 keys are in use, and otherwise returns the
\* first free key behind the cursor, around the end of the key space: a late
\* event of a removed handler meets a new handler of its key as late as possible.
NextFreeKey ==
    LET key == AddKey(used, lastKey)
        Distance(k) == (k + KeySpace - lastKey - 1) % KeySpace
    IN  IF used = Keys THEN key = NoKey
        ELSE key \in Keys \ used /\ \A k \in Keys \ used : Distance(key) <= Distance(k)
=============================================================================
