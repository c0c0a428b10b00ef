CONSTANTS
  UIDs = {u1, u2, u3}
  None = None
  NoObj = NoObj
  NoDom = NoDom
  Faults = {}
SYMMETRY UIDSymmetry
SPECIFICATION Spec
INVARIANTS
  NoOrphan
  DomainBacked
  IdentityAgrees
  InstanceIdAgrees
PROPERTIES
  DismantleOnlyDeleted
  ImplementsLifecycle
\* After Calm a deleted machine leaves nothing to do.
CHECK_DEADLOCK FALSE
