SPECIFICATION Spec
CONSTANTS
  a1 = a1
  a2 = a2
  b1 = b1
  alice = alice
  bob = bob
  g1 = g1
  g2 = g2
  g3 = g3
  Channel = {a1, b1}
  User = {alice, bob}
  Group = {g1, g2, g3}
  UserOf <- MCUserOf
  Numeric <- MCNumeric
  InitialMember <- MCInitialMember
  None = None
  MaxSend = 1
  MaxRest = 0
  MaxCreate = 1
INVARIANTS MembersHaveSession GroupBeforeMembers
PROPERTIES SenderReturns
