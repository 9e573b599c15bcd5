\* Two founders who want one name; a confirm and a webhook at a time, two faults,
\* three interferences.
CONSTANTS
    p1 = p1
    p2 = p2
    u1 = u1
    u2 = u2
    n1 = n1
    Signups = {p1, p2}
    Founders = {u1, u2}
    FounderOf <- Rivals
    Names = {n1}
    NameOf <- SameName
    Clients = {c1}
    Hooks = {h1}
    Personal = Personal
    Elsewhere = Elsewhere
    MaxFaults = 2
    MaxEdits = 3
SPECIFICATION FairSpec
INVARIANTS TypeOK FoundedOnce
PROPERTIES NeverMovedOut PaidIsServed
CHECK_DEADLOCK FALSE
