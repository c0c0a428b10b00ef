SPECIFICATION Spec
CONSTANTS
    Reasons = {r1}
    NoObj = NoObj
    MaxEdits = 1
INVARIANTS EndpointWakes
\* A calm cluster with nothing left to do stops.
CHECK_DEADLOCK FALSE
