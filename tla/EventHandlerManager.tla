------------------------- MODULE EventHandlerManager -------------------------
(***************************************************************************)
(* The handler table of both gRPC proactors                                *)
(* (learn_grpc/hello_world/src/lib/event/event_handler_manager.h): handlers*)
(* under keys of event_key_t, a 32-bit counter that wraps around.  Here    *)
(* there are KeySpace keys.  Every method holds the mutex: one step.       *)
(***************************************************************************)
EXTENDS Naturals, FiniteSets

CONSTANTS KeySpace,  \* 2^32 in the code
          NoKey      \* stands for the exception "no more space"

ASSUME KeySpaceAssumption == KeySpace \in Nat \ {0} /\ NoKey \notin Nat

Keys == 0..KeySpace - 1

\* Mutant: the loop gives up one key early.
AddKey_StopsEarly(used, lastKey) ==
    LET try[n \in 1..KeySpace] ==
            LET key == (lastKey + n) % KeySpace
            IN  IF key = lastKey THEN NoKey
                ELSE IF key \notin used THEN key ELSE try[n + 1]
    IN  try[1]

\* add(): `while (handlers.count(++lastKey) > 0)`, until the search is back at
\* the key it started from.
AddKey(used, lastKey) ==
    LET try[n \in 1..KeySpace] ==
            LET key == (lastKey + n) % KeySpace
            IN  IF key \notin used THEN key
                ELSE IF key = lastKey THEN NoKey ELSE try[n + 1]
    IN  try[1]
=============================================================================
