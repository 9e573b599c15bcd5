SPECIFICATION Spec
CONSTANTS
    Users = {ana, ben, xia}
    Conns = {a1, a2, b1}
    MaxSignals = 4
    ana = ana
    ben = ben
    xia = xia
    a1 = a1
    a2 = a2
    b1 = b1
    acme = acme
    globex = globex
    Orgs = {acme, globex}
    NoOrg = NoOrg
    NoConn = NoConn
    NoScope = NoScope
    UserOf <- MCUserOf
    ScopeOf <- MCScopeOf
INVARIANTS
    TypeOK
    CallsHeldByLiveConns
PROPERTIES
    NoCrossScopeCall
    OnlyItsTabsResolveACall
    KeepsTheBook
CHECK_DEADLOCK FALSE
