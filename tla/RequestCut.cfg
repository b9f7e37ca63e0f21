SPECIFICATION Spec
INVARIANT HeaderCutAwaited
CHECK_DEADLOCK FALSE
