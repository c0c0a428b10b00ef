CONSTANTS
  UIDs = {u1}
  None = None
  NoObj = NoObj
  NoDom = NoDom
  Faults = {"isActive", "hostStart", "poolGone"}
SPECIFICATION FairSpec
INVARIANTS
  TypeOK
  NoLostWakeup
  LeftoverIsTransient
PROPERTIES
  LiveNeverDismantled
  DeletionCompletes
  Converges
\* After Calm a deleted machine leaves nothing to do.
CHECK_DEADLOCK FALSE
