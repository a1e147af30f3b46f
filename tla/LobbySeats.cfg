SPECIFICATION Spec
CONSTANTS
  a1 = a1
  a2 = a2
  b1 = b1
  alice = alice
  bob = bob
  Conn = {a1, a2, b1}
  User = {alice, bob}
  UserOf <- MCUserOf
  None = None
  N = 2
  MaxLobby = 2
  MaxReq = 3
INVARIANTS OneSeatPerUser SeatStaysFree LeaverIsOut
PROPERTIES MessagesEnd SeatNotStolen SeatsRefineTable
