SPECIFICATION Spec
CONSTANTS
  a1 = a1
  a2 = a2
  b1 = b1
  alice = alice
  bob = bob
  g1 = g1
  g2 = g2
  g3 = g3
  Channel = {a1, a2, b1}
  User = {alice, bob}
  Group = {g1, g2, g3}
  UserOf <- MCUserOf
  Numeric <- MCBobNumeric
  InitialMember <- MCInitialMember
  None = None
  MaxSend = 2
  MaxRest = 1
  MaxCreate = 0
SYMMETRY Tabs
INVARIANTS HomeOrSending SenderExcluded RoutesToOwner SplitNeedsRace
