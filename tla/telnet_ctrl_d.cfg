CONSTANT Lines = 1
CONSTANT Msgs = 1
SPECIFICATION FairSpec
CHECK_DEADLOCK FALSE
PROPERTY CtrlDEnds
