\* Two messages in any order, one drop between two connects, one fault.
CONSTANTS
    MaxMessages = 2
    MaxDrops = 1
    MaxFaults = 1
SPECIFICATION Spec
INVARIANTS TypeOK MissedIsExcused TickIsTrue
PROPERTIES OnlyRise
CHECK_DEADLOCK FALSE
