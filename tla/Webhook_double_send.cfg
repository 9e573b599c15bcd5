\* Two dispatchers, one endpoint and one event, no fault and no edit.
SPECIFICATION Spec
CONSTANTS
    Dispatchers = {w1, w2}
    Endpoints = {e1}
    Events = {v1}
    BatchSize = 2
    Retries = 2
    Threshold = 2
    MaxFaults = 0
    MaxEdits = 0
SYMMETRY Symmetry
PROPERTIES
    NoResendAfterSuccess
CHECK_DEADLOCK FALSE
