SPECIFICATION FairSpec
CONSTANTS
    Reasons = {r1}
    NoObj = NoObj
    MaxEdits = 2
INVARIANTS TypeOK StatusAtRest
PROPERTIES FinalizerStays DeletionCompletes BecomesReady
\* A calm cluster with nothing left to do stops.
CHECK_DEADLOCK FALSE
