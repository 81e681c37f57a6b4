CONSTANT Lines = 1
CONSTANT Msgs = 1
SPECIFICATION Spec
CHECK_DEADLOCK FALSE
INVARIANT CloseIsClean
