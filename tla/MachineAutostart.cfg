CONSTANTS
  UIDs = {u1, u2}
  None = None
  NoObj = NoObj
  NoDom = NoDom
  Faults = {}
SYMMETRY UIDSymmetry
SPECIFICATION Spec
INVARIANTS
  AutostartWhenProvisioned
\* After Calm a deleted machine leaves nothing to do.
CHECK_DEADLOCK FALSE
