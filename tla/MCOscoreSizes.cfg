CONSTANT Longest = 130
SPECIFICATION Spec
INVARIANT PreflightSettlesSize
CHECK_DEADLOCK FALSE
