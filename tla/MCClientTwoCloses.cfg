SPECIFICATION Spec
INVARIANT ConnectionClosedOnce
CHECK_DEADLOCK FALSE
