CONSTANTS
  Width = 4
  BlockSize = 3
  a = a
  b = b
  Machines = {a, b}
  Others = {o}
  Hash <- SameHash
  Networks <- DefaultNetwork
  StaticIPs = {5}
  NoRange = NoRange
  NoPlan = NoPlan
SPECIFICATION FairSpec
PROPERTY MachinesServed
CHECK_DEADLOCK FALSE
