\* Two tabs on two instances, two connects or status changes, a crash,
\* failed command or lost frame.
CONSTANTS
    t1 = t1
    t2 = t2
    i1 = i1
    i2 = i2
    Tabs = {t1, t2}
    Instances = {i1, i2}
    At <- Apart
    MaxActs = 2
    MaxFaults = 1
SPECIFICATION FairSpec
INVARIANTS TypeOK OneOfflineEach
PROPERTIES DotSettles
