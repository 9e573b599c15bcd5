\* Two subscriptions of one owner, two events of one and one of the other, in any
\* order and any number of copies; one crash, failed statement or lost dedup row.
CONSTANTS
    s1 = s1
    s2 = s2
    owner = owner
    Subs = {s1, s2}
    Owners = {owner}
    OwnerOf <- PaidBy
    Free = Free
    Handlers = {h1, h2}
    MaxFirst = 2
    MaxSecond = 1
    MaxEvents <- EventBounds
    MaxFaults = 1
SPECIFICATION FairSpec
INVARIANTS TypeOK AckedIsServed GrantWasPaid WrongOnlyIfLate
PROPERTIES EventsServed LapsedIsDeactivated
CHECK_DEADLOCK FALSE
