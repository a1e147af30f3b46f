----------------------------- MODULE LobbySeats -----------------------------
(***************************************************************************)
(* The seats of one group's game room: GameController.setProperties opens  *)
(* a Lobby, a message of fileType 80 sits down (Lobby.setPlayer), one of   *)
(* fileType 81 leaves (Lobby.offPlayer, the heir of the owner, the end of  *)
(* the room).                                                              *)
(*                                                                         *)
(* setPlayer holds the monitor of the Lobby; the handler of 81 holds the   *)
(* monitor of GroupMessageRequestHandler.INSTANCE and not that of the      *)
(* Lobby. The array players is therefore read and written by a sitter and  *)
(* a leaver at once, and each access below is a step of its own: the test  *)
(* of players[i] for null and the use of players[i] are two reads.         *)
(* Seats are numbered from 1. A Player is its user and its isOwner flag;   *)
(* isReady is written only and the card is the subject of CardPick.        *)
(***************************************************************************)
EXTENDS Naturals

CONSTANTS
  Conn,      \* connections, each with its own event loop
  User,
  UserOf,    \* the user of each connection
  None,      \* Java's null
  N,         \* seats of a room
  MaxLobby,  \* bound: rooms opened for the group
  MaxReq     \* bound: messages 80 and 81

ASSUME UserOfAssumption == UserOf \in [Conn -> User]
ASSUME NAssumption      == N \in Nat \ {0}
ASSUME BoundAssumption  == MaxLobby \in Nat /\ MaxReq \in Nat
ASSUME NoneAssumption   == None \notin User \cup [user : User, owner : BOOLEAN] \cup Nat

Seat   == 1..N
Lobby  == 1..MaxLobby
Player == [user : User, owner : BOOLEAN]

VARIABLES
  current,  \* SessionUtil.groupIdLobbyMap at the group
  made,     \* rooms opened so far
  players,  \* players[l][s] of every room
  pc,       \* where the handler of each connection stands
  lob,      \* local: the lobby the handler looked up on entry
  seat,     \* local: the seat asked for
  at,       \* local: the loop index
  asked     \* messages handled so far

vars == <<current, made, players, pc, lob, seat, at, asked>>

Sitting == {"sitTest", "sitCmp"}                           \* in the Lobby's monitor
Leaving == {"offTest", "offCmp", "offPut", "ownTest", "ownSet"}  \* in the handler's
PCs == {"idle", "sitWait", "leaveWait"} \cup Sitting \cup Leaving

TypeOK ==
  /\ current \in Lobby \cup {None}
  /\ made \in 0..MaxLobby
  /\ players \in [Lobby -> [Seat -> Player \cup {None}]]
  /\ pc \in [Conn -> PCs]
  /\ lob \in [Conn -> Lobby \cup {None}]
  /\ seat \in [Conn -> Seat]
  /\ at \in [Conn -> 1..N+1]
  /\ asked \in Nat

Empty == [s \in Seat |-> None]

Init ==
  /\ current = None
  /\ made = 0
  /\ players = [l \in Lobby |-> Empty]
  /\ pc = [c \in Conn |-> "idle"]
  /\ lob = [c \in Conn |-> None]
  /\ seat = [c \in Conn |-> 1]
  /\ at = [c \in Conn |-> 1]
  /\ asked = 0

-----------------------------------------------------------------------------
Goto(c, from, to) == pc[c] = from /\ pc' = [pc EXCEPT ![c] = to]

\* The handler returns or raises; monitors are released, locals are gone.
Return(c, from) ==
  /\ Goto(c, from, "idle")
  /\ lob' = [lob EXCEPT ![c] = None]
  /\ seat' = [seat EXCEPT ![c] = 1]
  /\ at' = [at EXCEPT ![c] = 1]

Advance(c) == at' = [at EXCEPT ![c] = @ + 1]

Here(c)       == players[lob[c]][at[c]]
Own(c, p)     == p # None /\ p.user = UserOf[c]
PutAt(c, s, p) == players' = [players EXCEPT ![lob[c]][s] = p]

(***************************************************************************)
(* GameController.setProperties: only the bind touches shared state        *)
(***************************************************************************)
SetProperties(u) ==
  /\ made < MaxLobby /\ made' = made + 1
  /\ players' = [players EXCEPT ![made + 1] =
                   [s \in Seat |-> IF s = 1 THEN [user |-> u, owner |-> TRUE] ELSE None]]
  /\ current' = made + 1
  /\ UNCHANGED <<pc, lob, seat, at, asked>>

(***************************************************************************)
(* 80: Lobby.setPlayer                                                     *)
(***************************************************************************)

\* The lobby is looked up before any monitor is entered; null raises.
SitRequest(c, s) ==
  /\ asked < MaxReq /\ asked' = asked + 1
  /\ current # None /\ Goto(c, "idle", "sitWait")
  /\ lob' = [lob EXCEPT ![c] = current] /\ seat' = [seat EXCEPT ![c] = s]
  /\ UNCHANGED <<current, made, players, at>>

\* Seeded fault: setPlayer is not synchronized.
MonitorFree_Unlocked(l) == l \in Lobby

MonitorFree(l) == \A d \in Conn : lob[d] = l => pc[d] \notin Sitting

SitEnter(c) ==
  /\ Goto(c, "sitWait", "sitTest")
  /\ MonitorFree(lob[c]) /\ players[lob[c]][seat[c]] = None
  /\ UNCHANGED <<current, made, players, lob, seat, at, asked>>

SitRefused(c) ==
  /\ pc[c] = "sitWait" /\ MonitorFree(lob[c]) /\ players[lob[c]][seat[c]] # None
  /\ Return(c, "sitWait")
  /\ UNCHANGED <<current, made, players, asked>>

SitTest(c) ==
  /\ pc[c] = "sitTest" /\ at[c] <= N
  /\ IF Here(c) = None THEN Advance(c) /\ pc' = pc
                       ELSE Goto(c, "sitTest", "sitCmp") /\ at' = at
  /\ UNCHANGED <<current, made, players, lob, seat, asked>>

\* A leaver emptied the seat since the test: NullPointerException.
SitFails(c) ==
  /\ pc[c] = "sitCmp" /\ Here(c) = None /\ Return(c, "sitCmp")
  /\ UNCHANGED <<current, made, players, asked>>

\* Seeded fault: the user's old seat is not cleared.
SitCmp_NoClear(c) ==
  /\ pc[c] = "sitCmp" /\ Here(c) # None
  /\ Goto(c, "sitCmp", "sitTest") /\ Advance(c)
  /\ UNCHANGED players
  /\ UNCHANGED <<current, made, lob, seat, asked>>

SitCmp(c) ==
  /\ pc[c] = "sitCmp" /\ Here(c) # None
  /\ Goto(c, "sitCmp", "sitTest") /\ Advance(c)
  /\ IF Own(c, Here(c)) THEN PutAt(c, at[c], None) ELSE UNCHANGED players
  /\ UNCHANGED <<current, made, lob, seat, asked>>

\* A new Player, whose isOwner is false whoever sits down.
SitPut(c) ==
  /\ pc[c] = "sitTest" /\ at[c] = N + 1 /\ Return(c, "sitTest")
  /\ PutAt(c, seat[c], [user |-> UserOf[c], owner |-> FALSE])
  /\ UNCHANGED <<current, made, asked>>

(***************************************************************************)
(* 81: Lobby.offPlayer and the rest of the branch                          *)
(***************************************************************************)
LeaveRequest(c) ==
  /\ asked < MaxReq /\ asked' = asked + 1
  /\ current # None /\ Goto(c, "idle", "leaveWait")
  /\ lob' = [lob EXCEPT ![c] = current]
  /\ UNCHANGED <<current, made, players, seat, at>>

LeaveEnter(c) ==
  /\ \A d \in Conn : pc[d] \notin Leaving
  /\ Goto(c, "leaveWait", "offTest")
  /\ UNCHANGED <<current, made, players, lob, seat, at, asked>>

\* Seeded fault: the loop does not get past an empty seat.
OffTest_Stuck(c) ==
  /\ pc[c] = "offTest" /\ at[c] <= N
  /\ IF Here(c) = None THEN at' = at /\ pc' = pc
                       ELSE Goto(c, "offTest", "offCmp") /\ at' = at
  /\ UNCHANGED <<current, made, players, lob, seat, asked>>

OffTest(c) ==
  /\ pc[c] = "offTest" /\ at[c] <= N
  /\ IF Here(c) = None THEN Advance(c) /\ pc' = pc
                       ELSE Goto(c, "offTest", "offCmp") /\ at' = at
  /\ UNCHANGED <<current, made, players, lob, seat, asked>>

\* Seeded fault: the ids are not compared.
OffCmp_AnyUser(c) ==
  /\ pc[c] = "offCmp" /\ Here(c) # None
  /\ Goto(c, "offCmp", "offPut") /\ at' = at
  /\ UNCHANGED <<current, made, players, lob, seat, asked>>

OffCmp(c) ==
  /\ pc[c] = "offCmp" /\ Here(c) # None
  /\ IF Own(c, Here(c)) THEN Goto(c, "offCmp", "offPut") /\ at' = at
                        ELSE Goto(c, "offCmp", "offTest") /\ Advance(c)
  /\ UNCHANGED <<current, made, players, lob, seat, asked>>

OffPut(c) ==
  /\ Goto(c, "offPut", "offTest") /\ Advance(c)
  /\ PutAt(c, at[c], None)
  /\ UNCHANGED <<current, made, lob, seat, asked>>

\* Seeded fault: the loop of offPlayer stops one seat early.
OwnScan_Short(c) ==
  /\ at[c] >= N /\ Goto(c, "offTest", "ownTest")
  /\ at' = [at EXCEPT ![c] = 1]
  /\ UNCHANGED <<current, made, players, lob, seat, asked>>

OwnScan(c) ==
  /\ at[c] = N + 1 /\ Goto(c, "offTest", "ownTest")
  /\ at' = [at EXCEPT ![c] = 1]
  /\ UNCHANGED <<current, made, players, lob, seat, asked>>

OwnTest(c) ==
  /\ pc[c] = "ownTest" /\ at[c] <= N
  /\ IF Here(c) = None THEN Advance(c) /\ pc' = pc
                       ELSE Goto(c, "ownTest", "ownSet") /\ at' = at
  /\ UNCHANGED <<current, made, players, lob, seat, asked>>

OwnSet(c) ==
  /\ pc[c] = "ownSet" /\ Here(c) # None /\ Return(c, "ownSet")
  /\ PutAt(c, at[c], [Here(c) EXCEPT !.owner = TRUE])
  /\ UNCHANGED <<current, made, asked>>

\* A sitter emptied the seat since the test, in offPlayer or in the scan.
LeaveFails(c) ==
  /\ \E from \in {"offCmp", "ownSet"} : Return(c, from)
  /\ Here(c) = None
  /\ UNCHANGED <<current, made, players, asked>>

\* dropLobby goes by the group id: it drops whatever lobby is bound by now.
LeaveDrop(c) ==
  /\ pc[c] = "ownTest" /\ at[c] = N + 1 /\ Return(c, "ownTest")
  /\ current' = None
  /\ UNCHANGED <<made, players, asked>>

-----------------------------------------------------------------------------
Handler(c) ==
  \/ SitEnter(c) \/ SitRefused(c) \/ SitTest(c) \/ SitFails(c) \/ SitCmp(c) \/ SitPut(c)
  \/ LeaveEnter(c) \/ OffTest(c) \/ OffCmp(c) \/ OffPut(c) \/ OwnScan(c)
  \/ OwnTest(c) \/ OwnSet(c) \/ LeaveFails(c) \/ LeaveDrop(c)

Quiet ==
  /\ \A c \in Conn : pc[c] = "idle"
  /\ UNCHANGED vars

Next ==
  \/ \E c \in Conn : Handler(c) \/ LeaveRequest(c) \/ \E s \in Seat : SitRequest(c, s)
  \/ \E u \in User : SetProperties(u)
  \/ Quiet

\* Handlers are runnable threads, and a monitor is handed to a waiting one.
Fairness == \A c \in Conn : WF_vars(Handler(c))

Spec == Init /\ [][Next]_vars /\ Fairness

-----------------------------------------------------------------------------
(***************************************************************************)
(* Properties                                                              *)
(***************************************************************************)
\* A user holds at most one seat of a room, however sitting down, moving and
\* leaving interleave (Lobby.setPlayer clears the old seat before it takes the
\* new one while a leaver walks the same array without the monitor).
OneSeatPerUser ==
  \A l \in Lobby : \A s, t \in Seat :
    players[l][s] # None /\ players[l][t] # None /\ players[l][s].user = players[l][t].user
      => s = t

\* The seat setPlayer found free is still free when it is filled, though other
\* handlers wrote to the array in between.
SeatStaysFree ==
  \A c \in Conn : pc[c] \in Sitting => players[lob[c]][seat[c]] = None

\* The user of c has no other connection.
Alone(c) == \A d \in Conn : UserOf[d] = UserOf[c] => d = c

\* The handler of a user's only connection takes nobody else off a seat: offPlayer
\* tests the seat's occupant and empties the seat in separate unlocked steps, with
\* sitters in between. (With two, the user may move between the two steps and
\* another user take the seat that the leaver then empties.)
SeatNotStolen ==
  [][\A l \in Lobby, s \in Seat, c \in Conn :
       Alone(c) /\ Handler(c) /\ players[l][s] # None /\ players'[l][s] = None
         => players[l][s].user = UserOf[c]]_vars

\* A leaver that has finished offPlayer holds no seat of that room while it looks
\* for an heir, so it never inherits itself, unless another connection of the same
\* user sits down meanwhile.
LeaverIsOut ==
  \A c \in Conn : Alone(c) /\ pc[c] \in {"ownTest", "ownSet"} =>
    \A s \in Seat : ~ Own(c, players[lob[c]][s])

\* Every message comes to its end: the two monitors are never nested, so sitters
\* and leavers cannot wait for each other.
MessagesEnd == \A c \in Conn : pc[c] # "idle" ~> pc[c] = "idle"

\* The rooms implement the seat table.
occ == [l \in Lobby |-> [s \in Seat |->
          IF players[l][s] = None THEN None ELSE players[l][s].user]]

Table == INSTANCE SeatTable WITH occupant <- occ

SeatsRefineTable == Table!Spec

(***************************************************************************)
(* The inductive invariant behind the safety properties                    *)
(***************************************************************************)

\* Locals point at an opened room and a seat of it where they are used.
LocalsSet ==
  /\ current # None => current <= made
  /\ \A l \in Lobby : l > made => players[l] = Empty
  /\ \A c \in Conn :
       /\ pc[c] # "idle" => lob[c] \in 1..made
       /\ pc[c] \in {"sitCmp", "offCmp", "offPut", "ownSet"} => at[c] <= N
       /\ pc[c] \in {"idle", "sitWait", "leaveWait"} => at[c] = 1

\* One sitter in the monitor of a room, one leaver in that of the handler.
Exclusion ==
  \A c, d \in Conn :
    /\ pc[c] \in Sitting /\ pc[d] \in Sitting /\ lob[c] = lob[d] => c = d
    /\ pc[c] \in Leaving /\ pc[d] \in Leaving => c = d

\* The seats a sitter has passed are not its user's.
Cleared ==
  \A c \in Conn : pc[c] \in Sitting =>
    \A s \in Seat : s < at[c] => ~ Own(c, players[lob[c]][s])

\* The seats a leaver has passed are not its user's, and the one it is about to
\* empty is.
Vacated ==
  \A c \in Conn : Alone(c) =>
    /\ pc[c] \in {"offTest", "offCmp", "offPut"} =>
         \A s \in Seat : s < at[c] => ~ Own(c, players[lob[c]][s])
    /\ pc[c] = "offPut" => Own(c, players[lob[c]][at[c]])

\* The inductive invariant: a sitter alone in the monitor finds its target free
\* and its user on no seat it has passed, so filling the target keeps both.
IInv == /\ TypeOK /\ LocalsSet /\ Exclusion /\ SeatStaysFree /\ Cleared
        /\ OneSeatPerUser /\ Vacated /\ LeaverIsOut

(***************************************************************************)
(* What the comment in the 81 branch says: "there are players in the room, *)
(* do not close it, a player inherits the owner"                           *)
(***************************************************************************)

\* A room that is closed has nobody on its seats.
ClosedRoomIsEmpty ==
  [][current # None /\ current' = None => players[current] = Empty]_vars

\* With no message under way, a room with players has an owner.
RoomHasOwner ==
  (current # None /\ \A c \in Conn : pc[c] = "idle")
    => \/ players[current] = Empty
       \/ \E s \in Seat : players[current][s] # None /\ players[current][s].owner

=============================================================================
