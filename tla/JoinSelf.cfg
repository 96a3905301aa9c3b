SPECIFICATION Spec
INVARIANT JoinSelfDetected
CHECK_DEADLOCK FALSE
