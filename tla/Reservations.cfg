CONSTANTS
  Width = 4
  BlockSize = 3
  a = a
  b = b
  Machines = {a, b}
  Others = {o}
  Hash <- SameHash
  Networks <- AllNetworks
  StaticIPs = {5, 9}
  NoRange = NoRange
  NoPlan = NoPlan
SPECIFICATION FairSpec
INVARIANTS
  TypeOK
  DistinctAddresses
  BuiltIsReserved
  NeverExhausted
PROPERTIES
  AddressStable
  Settles
\* After Calm a machine that has its address leaves nothing to do.
CHECK_DEADLOCK FALSE
