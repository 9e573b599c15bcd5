SPECIFICATION SessionSpec
CONSTANTS
    ana = ana
    ben = ben
    anasTab = anasTab
    bensTab = bensTab
    a1 = a1
    b1 = b1
    b2 = b2
    Users = {ana, ben}
    Tabs = {anasTab, bensTab}
    Conns = {a1, b1, b2}
    UserOf <- MCUserOf
    TabOf <- MCTabOf
    ScopeOf <- MCScopeOf
    Orgs = {}
    NoOrg = NoOrg
    NoConn = NoConn
    NoScope = NoScope
    NoUser = NoUser
    MaxSignals = 0
    MaxCalls = 1
    MaxBreaks = 1
    MaxCloses = 1
    MaxLosses = 0
INVARIANTS
    SessionTypeOK
    AnsweredIsShown
CHECK_DEADLOCK FALSE
SYMMETRY BensSockets
