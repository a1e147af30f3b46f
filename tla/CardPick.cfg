SPECIFICATION Spec
CONSTANTS
  a1 = a1
  b1 = b1
  alice = alice
  bob = bob
  Conn = {a1, b1}
  User = {alice, bob}
  UserOf <- MCUserOf
  Creator = alice
  None = None
  N = 2
  Rest = 0
  Filled = 2
  MaxStart = 2
  MaxPlay = 4
INVARIANTS InHandIsPicked SharedOnlyByPickUp DealtBehind
PROPERTIES MessagesEnd
