\* Two messages, one dropped socket, no fault: the second is shown before the
\* first is fanned out.
CONSTANTS
    MaxMessages = 2
    MaxDrops = 1
    MaxFaults = 0
SPECIFICATION Spec
INVARIANT Lossless
CHECK_DEADLOCK FALSE
