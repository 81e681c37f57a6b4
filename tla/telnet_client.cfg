\* Two lines, so that two writers are at work at once, and a message, against
\* every end at any moment: the input's, the peer's, and our Close.
CONSTANT Lines = 2
CONSTANT Msgs = 1
SPECIFICATION FairSpec
\* Send and Receive end, or the process crashed.
CHECK_DEADLOCK FALSE
INVARIANTS Inv NilMeansAllLines NilMeansAllOut
PROPERTIES CloseReturns PeerEndsReceive
