CONSTANTS
    Messages = {m1, m2}
    Syncs = {s1, s2}
    None = None
    Overlap = 1
    MaxTime = 3
    MaxChanges = 2
    MaxFaults = 2
SPECIFICATION Spec
INVARIANTS TypeOK NothingSkipped LabelsAgree UnsavedIsExcused
CONSTRAINT RacesUnlabelled
ACTION_CONSTRAINT BodiesLast
SYMMETRY Alike
