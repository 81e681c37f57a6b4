\* Two messages, so that they could change places; Close only from main.
CONSTANT Lines = 1
CONSTANT Msgs = 2
SPECIFICATION FairSpec
\* The program ends, crashes, or hangs in wg.Wait (see telnet_ctrl_d).
CHECK_DEADLOCK FALSE
INVARIANTS OutIsPrefix PanicIsFailure ExitIsAfterClose
PROPERTY ErrorEndsProgram
