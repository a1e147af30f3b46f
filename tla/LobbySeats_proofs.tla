------------------------- MODULE LobbySeats_proofs -------------------------
(***************************************************************************)
(* The seats of a game room, proved for every number of connections, users *)
(* seats, rooms and messages: the inductive invariant of LobbySeats, the   *)
(* safety properties that follow from it, and the refinement of SeatTable. *)
(*                                                                         *)
(* The steps that write to the board are described once, by an effect      *)
(* lemma each; the lemmas <Action>Step show that each action keeps every   *)
(* conjunct of IInv.                                                       *)
(***************************************************************************)
EXTENDS LobbySeats, TLAPS

Board == [Lobby -> [Seat -> Player \cup {None}]]

\* Only seat s of room l may change.
Touch(l, s) == /\ \A m \in Lobby : m # l => players'[m] = players[m]
               /\ \A t \in Seat : t # s => players'[l][t] = players[l][t]

\* No seat gets another occupant than it had: it keeps it or is emptied.
Shrinks == \A m \in Lobby, t \in Seat :
  /\ players[m][t] = None => players'[m][t] = None
  /\ players'[m][t] # None => players'[m][t].user = players[m][t].user

LEMMA PutEffect ==
  ASSUME players \in Board, NEW c \in Conn, lob[c] \in Lobby, NEW s \in Seat,
         NEW p \in Player \cup {None}, PutAt(c, s, p)
  PROVE  players' \in Board /\ Touch(lob[c], s) /\ players'[lob[c]][s] = p
BY DEF Board, PutAt, Touch

LEMMA SitCmpEffect ==
  ASSUME IInv, NEW c \in Conn, SitCmp(c)
  PROVE  /\ players' \in Board /\ lob[c] \in Lobby /\ at[c] \in Seat
         /\ pc[c] = "sitCmp" /\ pc' = [pc EXCEPT ![c] = "sitTest"]
         /\ at' = [at EXCEPT ![c] = @ + 1]
         /\ UNCHANGED <<current, made, lob, seat, asked>>
         /\ Touch(lob[c], at[c])
         /\ ~ Own(c, players'[lob[c]][at[c]])
         /\ Shrinks
         /\ Own(c, players[lob[c]][at[c]]) \/ players' = players
<1> USE BoundAssumption, NAssumption DEF IInv
<1>1. players \in Board /\ lob[c] \in Lobby /\ at[c] \in Seat
  BY DEF TypeOK, LocalsSet, SitCmp, Goto, Board, Seat, Lobby
<1>2. CASE Own(c, Here(c))
  BY <1>1, <1>2, PutEffect DEF SitCmp, Goto, Advance, Here, Player, Board, Touch, Shrinks,
                               Own
<1>3. CASE ~ Own(c, Here(c))
  BY <1>1, <1>3 DEF SitCmp, Goto, Advance, Here, Touch, Shrinks
<1> QED
  BY <1>2, <1>3

LEMMA SitPutEffect ==
  ASSUME IInv, NEW c \in Conn, SitPut(c)
  PROVE  /\ players' \in Board /\ lob[c] \in Lobby /\ seat[c] \in Seat
         /\ pc[c] = "sitTest" /\ at[c] = N + 1 /\ Return(c, "sitTest")
         /\ UNCHANGED <<current, made, asked>>
         /\ Touch(lob[c], seat[c])
         /\ players'[lob[c]][seat[c]] = [user |-> UserOf[c], owner |-> FALSE]
<1>1. players \in Board /\ lob[c] \in Lobby /\ seat[c] \in Seat
  BY BoundAssumption, NAssumption DEF IInv, TypeOK, LocalsSet, SitPut, Board, Seat, Lobby
<1>2. [user |-> UserOf[c], owner |-> FALSE] \in Player
  BY UserOfAssumption DEF Player
<1> QED
  BY <1>1, <1>2, PutEffect DEF SitPut

LEMMA OffPutEffect ==
  ASSUME IInv, NEW c \in Conn, OffPut(c)
  PROVE  /\ players' \in Board /\ lob[c] \in Lobby /\ at[c] \in Seat
         /\ pc[c] = "offPut" /\ pc' = [pc EXCEPT ![c] = "offTest"]
         /\ at' = [at EXCEPT ![c] = @ + 1]
         /\ UNCHANGED <<current, made, lob, seat, asked>>
         /\ Touch(lob[c], at[c])
         /\ ~ Own(c, players'[lob[c]][at[c]])
         /\ Shrinks
<1>1. players \in Board /\ lob[c] \in Lobby /\ at[c] \in Seat
  BY BoundAssumption, NAssumption DEF IInv, TypeOK, LocalsSet, OffPut, Goto, Board, Seat,
                                      Lobby
<1> QED
  BY <1>1, PutEffect DEF OffPut, Goto, Advance, Touch, Shrinks, Own

LEMMA OwnSetEffect ==
  ASSUME IInv, NEW c \in Conn, OwnSet(c)
  PROVE  /\ players' \in Board /\ lob[c] \in Lobby /\ at[c] \in Seat
         /\ pc[c] = "ownSet" /\ Return(c, "ownSet")
         /\ UNCHANGED <<current, made, asked>>
         /\ Touch(lob[c], at[c])
         /\ Shrinks /\ players'[lob[c]][at[c]] # None
<1>1. players \in Board /\ lob[c] \in Lobby /\ at[c] \in Seat
  BY BoundAssumption, NAssumption DEF IInv, TypeOK, LocalsSet, OwnSet, Board, Seat, Lobby
<1>2. players[lob[c]][at[c]] \in Player
  BY <1>1 DEF OwnSet, Here, Board
<1> DEFINE heir == [players[lob[c]][at[c]] EXCEPT !.owner = TRUE]
<1>3. heir \in Player /\ heir.user = players[lob[c]][at[c]].user
  BY <1>2 DEF Player
<1>4. heir # None
  BY <1>3, NoneAssumption DEF Player
<1>5. PutAt(c, at[c], heir)
  BY DEF OwnSet, Here
<1>6. players' \in Board /\ Touch(lob[c], at[c]) /\ players'[lob[c]][at[c]] = heir
  BY <1>1, <1>3, <1>5, PutEffect
<1> HIDE DEF heir
<1> QED
  BY <1>1, <1>2, <1>3, <1>4, <1>6 DEF OwnSet, Here, Touch, Shrinks

LEMMA SetPropertiesEffect ==
  ASSUME IInv, NEW u \in User, SetProperties(u)
  PROVE  /\ players' \in Board /\ made + 1 \in Lobby /\ made' = made + 1 /\ current' = made + 1
         /\ UNCHANGED <<pc, lob, seat, at, asked>>
         /\ \A l \in Lobby : l # made + 1 => players'[l] = players[l]
         /\ \A s \in Seat : players'[made + 1][s] =
              IF s = 1 THEN [user |-> u, owner |-> TRUE] ELSE None
<1> USE BoundAssumption, NAssumption DEF IInv
<1>1. made + 1 \in Lobby /\ players \in Board
  BY DEF TypeOK, SetProperties, Lobby, Board
<1>2. [s \in Seat |-> IF s = 1 THEN [user |-> u, owner |-> TRUE] ELSE None]
        \in [Seat -> Player \cup {None}]
  BY DEF Player
<1> QED
  BY <1>1, <1>2 DEF SetProperties, Board

-----------------------------------------------------------------------------
(***************************************************************************)
(* Every action keeps the invariant                                        *)
(***************************************************************************)

LEMMA SetPropertiesStep ==
  ASSUME IInv, NEW u \in User, SetProperties(u)
  PROVE  IInv'
<1> USE UserOfAssumption, NAssumption, BoundAssumption, NoneAssumption DEF IInv
<1>0. /\ players' \in Board /\ made + 1 \in Lobby /\ made' = made + 1 /\ current' = made + 1
      /\ UNCHANGED <<pc, lob, seat, at, asked>>
      /\ \A l \in Lobby : l # made + 1 => players'[l] = players[l]
      /\ \A s \in Seat : players'[made + 1][s] =
           IF s = 1 THEN [user |-> u, owner |-> TRUE] ELSE None
  <2> HIDE DEF IInv
  <2> QED
    BY SetPropertiesEffect
<1>1. TypeOK'
  BY <1>0 DEF TypeOK, LocalsSet, Board, Player, PCs, Sitting, Leaving, Seat, Lobby
<1>2. LocalsSet'
  <2>1. \A l \in Lobby : l > made' => players'[l] = Empty
    BY <1>0 DEF TypeOK, LocalsSet, Lobby
  <2>2. \A d \in Conn : pc'[d] # "idle" => lob'[d] \in 1..made'
    BY <1>0 DEF TypeOK, LocalsSet, Lobby
  <2>3. current' <= made' /\ made' \in Nat
    BY <1>0 DEF TypeOK
  <2> QED
    BY <1>0, <2>1, <2>2, <2>3 DEF LocalsSet
<1>3. Exclusion'
  BY <1>0 DEF TypeOK, Exclusion, MonitorFree, Sitting, Leaving
<1>4. SeatStaysFree'
  <2> SUFFICES ASSUME NEW d \in Conn, pc'[d] \in Sitting
               PROVE  players'[lob'[d]][seat'[d]] = None
    BY DEF SeatStaysFree
  <2>0. \A c \in Conn : pc[c] # "idle" => lob[c] \in Lobby /\ players'[lob[c]] = players[lob[c]]
    BY <1>0 DEF TypeOK, LocalsSet, Lobby
  <2> QED
    BY <1>0, <2>0 DEF SeatStaysFree, Sitting
<1>5. Cleared'
  <2> SUFFICES ASSUME NEW d \in Conn, pc'[d] \in Sitting, NEW s \in Seat, s < at'[d]
               PROVE  ~ Own(d, players'[lob'[d]][s])
    BY DEF Cleared, Own
  <2>0. \A c \in Conn : pc[c] # "idle" => lob[c] \in Lobby /\ players'[lob[c]] = players[lob[c]]
    BY <1>0 DEF TypeOK, LocalsSet, Lobby
  <2> QED
    BY <1>0, <2>0 DEF Cleared, Sitting, Own
<1>6. OneSeatPerUser'
  <2> SUFFICES ASSUME NEW l \in Lobby, NEW s \in Seat, NEW t \in Seat, players'[l][s] # None,
                      players'[l][t] # None, players'[l][s].user = players'[l][t].user
               PROVE  s = t
    BY DEF OneSeatPerUser
  <2>1. CASE l = made + 1
    BY <1>0, <2>1 DEF Player
  <2>2. CASE l # made + 1
    BY <1>0, <2>2 DEF OneSeatPerUser
  <2> QED
    BY <2>1, <2>2
<1>7. Vacated'
  <2> SUFFICES ASSUME NEW d \in Conn, Alone(d)
               PROVE  /\ pc'[d] \in {"offTest", "offCmp", "offPut"} =>
                           \A s \in Seat : s < at'[d] => ~ Own(d, players'[lob'[d]][s])
                      /\ pc'[d] = "offPut" => Own(d, players'[lob'[d]][at'[d]])
    BY DEF Vacated, Alone, Own
  <2>0. \A c \in Conn : pc[c] # "idle" => lob[c] \in Lobby /\ players'[lob[c]] = players[lob[c]]
    BY <1>0 DEF TypeOK, LocalsSet, Lobby
  <2> QED
    BY <1>0, <2>0 DEF Vacated, Own
<1>8. LeaverIsOut'
  <2> SUFFICES ASSUME NEW d \in Conn, Alone(d), pc'[d] \in {"ownTest", "ownSet"},
                      NEW s \in Seat
               PROVE  ~ Own(d, players'[lob'[d]][s])
    BY DEF LeaverIsOut, Alone, Own
  <2>0. \A c \in Conn : pc[c] # "idle" => lob[c] \in Lobby /\ players'[lob[c]] = players[lob[c]]
    BY <1>0 DEF TypeOK, LocalsSet, Lobby
  <2> QED
    BY <1>0, <2>0 DEF LeaverIsOut, Own
<1> QED
  BY <1>1, <1>2, <1>3, <1>4, <1>5, <1>6, <1>7, <1>8

LEMMA SitRequestStep ==
  ASSUME IInv, NEW c \in Conn, NEW s \in Seat, SitRequest(c, s)
  PROVE  IInv'
<1> USE UserOfAssumption, NAssumption, BoundAssumption, NoneAssumption DEF IInv
<1>1. TypeOK'
  BY DEF SitRequest, Goto, TypeOK, LocalsSet, PCs, Sitting, Leaving, Seat,
         Lobby
<1>2. LocalsSet'
  BY DEF SitRequest, Goto, TypeOK, LocalsSet, Seat, Lobby
<1>3. Exclusion'
  BY DEF SitRequest, Goto, TypeOK, Exclusion, MonitorFree, Sitting, Leaving
<1>4. SeatStaysFree'
  BY DEF SitRequest, Goto, TypeOK, LocalsSet, Exclusion, SeatStaysFree,
         MonitorFree, Sitting, Seat, Lobby
<1>5. Cleared'
  BY DEF SitRequest, Goto, TypeOK, LocalsSet, Exclusion, Cleared,
         MonitorFree, Sitting, Own, Seat, Lobby
<1>6. OneSeatPerUser'
  BY DEF SitRequest, Goto, TypeOK, LocalsSet, OneSeatPerUser, Cleared,
         Sitting, Own, Seat, Lobby
<1>7. Vacated'
  BY DEF SitRequest, Goto, TypeOK, LocalsSet, Vacated, SeatStaysFree,
         Sitting, Own, Seat, Lobby
<1>8. LeaverIsOut'
  BY DEF SitRequest, Goto, TypeOK, LocalsSet, Vacated, LeaverIsOut, Own,
         Seat, Lobby
<1> QED
  BY <1>1, <1>2, <1>3, <1>4, <1>5, <1>6, <1>7, <1>8

LEMMA SitEnterStep ==
  ASSUME IInv, NEW c \in Conn, SitEnter(c)
  PROVE  IInv'
<1> USE UserOfAssumption, NAssumption, BoundAssumption, NoneAssumption DEF IInv
<1>1. TypeOK'
  BY DEF SitEnter, Goto, TypeOK, LocalsSet, PCs, Sitting, Leaving, Seat, Lobby
<1>2. LocalsSet'
  BY DEF SitEnter, Goto, TypeOK, LocalsSet, Seat, Lobby
<1>3. Exclusion'
  BY DEF SitEnter, Goto, TypeOK, Exclusion, MonitorFree, Sitting, Leaving
<1>4. SeatStaysFree'
  BY DEF SitEnter, Goto, TypeOK, LocalsSet, Exclusion, SeatStaysFree,
         MonitorFree, Sitting, Seat, Lobby
<1>5. Cleared'
  <2> SUFFICES ASSUME NEW d \in Conn, pc'[d] \in Sitting, NEW s \in Seat, s < at'[d]
               PROVE  ~ Own(d, players'[lob'[d]][s])
    BY DEF Cleared, Own
  <2>1. CASE d = c
    BY <2>1 DEF SitEnter, Goto, Advance, Here, TypeOK, LocalsSet, Cleared, Sitting, Own,
                Seat, Lobby, Shrinks
  <2>2. CASE d # c
    BY <2>2 DEF SitEnter, Goto, Advance, Here, TypeOK, LocalsSet, Cleared, Sitting, Own,
                Seat, Lobby, Shrinks
  <2> QED
    BY <2>1, <2>2
<1>6. OneSeatPerUser'
  BY DEF SitEnter, Goto, TypeOK, LocalsSet, OneSeatPerUser, Cleared, Sitting,
         Own, Seat, Lobby
<1>7. Vacated'
  BY DEF SitEnter, Goto, TypeOK, LocalsSet, Vacated, SeatStaysFree, Sitting,
         Own, Seat, Lobby
<1>8. LeaverIsOut'
  BY DEF SitEnter, Goto, TypeOK, LocalsSet, Vacated, LeaverIsOut, Own, Seat,
         Lobby
<1> QED
  BY <1>1, <1>2, <1>3, <1>4, <1>5, <1>6, <1>7, <1>8

LEMMA SitRefusedStep ==
  ASSUME IInv, NEW c \in Conn, SitRefused(c)
  PROVE  IInv'
<1> USE UserOfAssumption, NAssumption, BoundAssumption, NoneAssumption DEF IInv
<1>1. TypeOK'
  BY DEF SitRefused, Return, Goto, TypeOK, LocalsSet, PCs, Sitting, Leaving,
         Seat, Lobby
<1>2. LocalsSet'
  BY DEF SitRefused, Return, Goto, TypeOK, LocalsSet, Seat, Lobby
<1>3. Exclusion'
  BY DEF SitRefused, Return, Goto, TypeOK, Exclusion, MonitorFree, Sitting, Leaving
<1>4. SeatStaysFree'
  BY DEF SitRefused, Return, Goto, TypeOK, LocalsSet, Exclusion,
         SeatStaysFree, MonitorFree, Sitting, Seat, Lobby
<1>5. Cleared'
  BY DEF SitRefused, Return, Goto, TypeOK, LocalsSet, Exclusion, Cleared,
         MonitorFree, Sitting, Own, Seat, Lobby
<1>6. OneSeatPerUser'
  BY DEF SitRefused, Return, Goto, TypeOK, LocalsSet, OneSeatPerUser,
         Cleared, Sitting, Own, Seat, Lobby
<1>7. Vacated'
  BY DEF SitRefused, Return, Goto, TypeOK, LocalsSet, Vacated, SeatStaysFree,
         Sitting, Own, Seat, Lobby
<1>8. LeaverIsOut'
  BY DEF SitRefused, Return, Goto, TypeOK, LocalsSet, Vacated, LeaverIsOut,
         Own, Seat, Lobby
<1> QED
  BY <1>1, <1>2, <1>3, <1>4, <1>5, <1>6, <1>7, <1>8

LEMMA SitTestStep ==
  ASSUME IInv, NEW c \in Conn, SitTest(c)
  PROVE  IInv'
<1> USE UserOfAssumption, NAssumption, BoundAssumption, NoneAssumption DEF IInv
<1>1. TypeOK'
  <2>1. at[c] \in 1..N
    BY DEF SitTest, TypeOK, LocalsSet, Goto
  <2>2. at' \in [Conn -> 1..N+1]
    <3>1. at' = at \/ at' = [at EXCEPT ![c] = @ + 1]
      BY DEF SitTest, Goto, Advance
    <3>2. at[c] + 1 \in 1..N+1
      BY <2>1
    <3> QED
      BY <3>1, <3>2 DEF TypeOK
  <2>3. pc' \in [Conn -> PCs]
    BY DEF SitTest, Goto, TypeOK, PCs, Sitting, Leaving
  <2> QED
    BY <2>2, <2>3 DEF SitTest, TypeOK
<1>2. LocalsSet'
  BY DEF SitTest, Goto, Advance, Here, TypeOK, LocalsSet, Seat, Lobby
<1>3. Exclusion'
  BY DEF SitTest, Goto, Advance, Here, TypeOK, Exclusion, MonitorFree,
         Sitting, Leaving
<1>4. SeatStaysFree'
  BY DEF SitTest, Goto, Advance, Here, TypeOK, LocalsSet, Exclusion,
         SeatStaysFree, MonitorFree, Sitting, Seat, Lobby
<1>5. Cleared'
  <2> SUFFICES ASSUME NEW d \in Conn, pc'[d] \in Sitting, NEW s \in Seat, s < at'[d]
               PROVE  ~ Own(d, players'[lob'[d]][s])
    BY DEF Cleared, Own
  <2>1. CASE d = c
    BY <2>1 DEF SitTest, Goto, Advance, Here, TypeOK, LocalsSet, Cleared, Sitting, Own,
                Seat, Lobby, Shrinks
  <2>2. CASE d # c
    BY <2>2 DEF SitTest, Goto, Advance, Here, TypeOK, LocalsSet, Cleared, Sitting, Own,
                Seat, Lobby, Shrinks
  <2> QED
    BY <2>1, <2>2
<1>6. OneSeatPerUser'
  BY DEF SitTest, Goto, Advance, Here, TypeOK, LocalsSet, OneSeatPerUser,
         Cleared, Sitting, Own, Seat, Lobby
<1>7. Vacated'
  BY DEF SitTest, Goto, Advance, Here, TypeOK, LocalsSet, Vacated,
         SeatStaysFree, Sitting, Own, Seat, Lobby
<1>8. LeaverIsOut'
  BY DEF SitTest, Goto, Advance, Here, TypeOK, LocalsSet, Vacated,
         LeaverIsOut, Own, Seat, Lobby
<1> QED
  BY <1>1, <1>2, <1>3, <1>4, <1>5, <1>6, <1>7, <1>8

LEMMA SitFailsStep ==
  ASSUME IInv, NEW c \in Conn, SitFails(c)
  PROVE  IInv'
<1> USE UserOfAssumption, NAssumption, BoundAssumption, NoneAssumption DEF IInv
<1>1. TypeOK'
  BY DEF SitFails, Return, Here, Goto, TypeOK, LocalsSet, PCs, Sitting,
         Leaving, Seat, Lobby
<1>2. LocalsSet'
  BY DEF SitFails, Return, Here, Goto, TypeOK, LocalsSet, Seat, Lobby
<1>3. Exclusion'
  BY DEF SitFails, Return, Here, Goto, TypeOK, Exclusion, MonitorFree, Sitting, Leaving
<1>4. SeatStaysFree'
  BY DEF SitFails, Return, Here, Goto, TypeOK, LocalsSet, Exclusion,
         SeatStaysFree, MonitorFree, Sitting, Seat, Lobby
<1>5. Cleared'
  BY DEF SitFails, Return, Here, Goto, TypeOK, LocalsSet, Exclusion, Cleared,
         MonitorFree, Sitting, Own, Seat, Lobby
<1>6. OneSeatPerUser'
  BY DEF SitFails, Return, Here, Goto, TypeOK, LocalsSet, OneSeatPerUser,
         Cleared, Sitting, Own, Seat, Lobby
<1>7. Vacated'
  BY DEF SitFails, Return, Here, Goto, TypeOK, LocalsSet, Vacated,
         SeatStaysFree, Sitting, Own, Seat, Lobby
<1>8. LeaverIsOut'
  BY DEF SitFails, Return, Here, Goto, TypeOK, LocalsSet, Vacated,
         LeaverIsOut, Own, Seat, Lobby
<1> QED
  BY <1>1, <1>2, <1>3, <1>4, <1>5, <1>6, <1>7, <1>8

LEMMA SitCmpStep ==
  ASSUME IInv, NEW c \in Conn, SitCmp(c)
  PROVE  IInv'
<1> USE UserOfAssumption, NAssumption, BoundAssumption, NoneAssumption DEF IInv
<1>0. /\ players' \in Board /\ lob[c] \in Lobby /\ at[c] \in Seat
      /\ pc[c] = "sitCmp" /\ pc' = [pc EXCEPT ![c] = "sitTest"]
      /\ at' = [at EXCEPT ![c] = @ + 1]
      /\ UNCHANGED <<current, made, lob, seat, asked>>
      /\ Touch(lob[c], at[c])
      /\ ~ Own(c, players'[lob[c]][at[c]])
      /\ Shrinks
      /\ Own(c, players[lob[c]][at[c]]) \/ players' = players
  <2> HIDE DEF IInv
  <2> QED
    BY SitCmpEffect
<1>1. TypeOK'
  BY <1>0 DEF TypeOK, LocalsSet, Board, Player, PCs, Sitting, Leaving, Seat, Lobby
<1>2. LocalsSet'
  <2>1. lob[c] <= made /\ made \in Nat /\ at[c] \in 1..N
    BY <1>0 DEF TypeOK, LocalsSet, Lobby, Seat
  <2>2. \A l \in Lobby : l > made => players'[l] = Empty
    BY <1>0, <2>1 DEF LocalsSet, Touch, Lobby
  <2>3. \A d \in Conn : pc'[d] # "idle" => lob'[d] \in 1..made'
    BY <1>0 DEF LocalsSet, TypeOK
  <2>4. \A d \in Conn : /\ pc'[d] \in {"sitCmp", "offCmp", "offPut", "ownSet"} => at'[d] <= N
                        /\ pc'[d] \in {"idle", "sitWait", "leaveWait"} => at'[d] = 1
    BY <1>0 DEF LocalsSet, TypeOK
  <2> QED
    BY <1>0, <2>2, <2>3, <2>4 DEF LocalsSet
<1>3. Exclusion'
  BY <1>0 DEF TypeOK, Exclusion, MonitorFree, Sitting, Leaving
<1>4. SeatStaysFree'
  BY <1>0 DEF TypeOK, LocalsSet, Exclusion, SeatStaysFree, MonitorFree, Sitting,
         Board, Shrinks, Seat, Lobby
<1>5. Cleared'
  <2> SUFFICES ASSUME NEW d \in Conn, pc'[d] \in Sitting, NEW s \in Seat, s < at'[d]
               PROVE  ~ Own(d, players'[lob'[d]][s])
    BY DEF Cleared, Own
  <2>1. CASE d = c
    <3>1. lob'[c] = lob[c] /\ at'[c] = at[c] + 1 /\ at[c] \in Nat
      BY <1>0 DEF TypeOK
    <3>2. CASE s = at[c]
      BY <1>0, <2>1, <3>1, <3>2
    <3>3. CASE s # at[c]
      <4>1. s < at[c]
        BY <2>1, <3>1, <3>3 DEF Seat
      <4> QED
        BY <1>0, <2>1, <3>1, <4>1 DEF Cleared, Sitting, Own, Shrinks
    <3> QED
      BY <3>2, <3>3
  <2>2. CASE d # c
    <3>1. pc'[d] = pc[d] /\ lob'[d] = lob[d] /\ at'[d] = at[d]
      BY <1>0, <2>2 DEF TypeOK, Return, Goto
    <3>2. lob[d] \in Lobby
      BY <2>2, <3>1 DEF TypeOK, LocalsSet, Sitting
    <3> QED
      BY <1>0, <3>1, <3>2 DEF Cleared, Own, Shrinks
  <2> QED
    BY <2>1, <2>2
<1>6. OneSeatPerUser'
  BY <1>0 DEF TypeOK, LocalsSet, OneSeatPerUser, Cleared, Sitting, Board, Shrinks,
         Own, Seat, Lobby, Player
<1>7. Vacated'
  <2> SUFFICES ASSUME NEW d \in Conn, Alone(d)
               PROVE  /\ pc'[d] \in {"offTest", "offCmp", "offPut"} =>
                           \A s \in Seat : s < at'[d] => ~ Own(d, players'[lob'[d]][s])
                      /\ pc'[d] = "offPut" => Own(d, players'[lob'[d]][at'[d]])
    BY DEF Vacated, Alone, Own
  <2>1. CASE d = c
    BY <1>0, <2>1 DEF TypeOK, Return, Goto
  <2>2. CASE d # c
    <3>1. pc'[d] = pc[d] /\ lob'[d] = lob[d] /\ at'[d] = at[d]
      BY <1>0, <2>2 DEF TypeOK, Return, Goto
    <3>2. UserOf[c] # UserOf[d]
      BY <2>2 DEF Alone
    <3>3. ASSUME NEW q \in Seat, pc[d] # "idle"
          PROVE  Own(d, players'[lob[d]][q]) <=> Own(d, players[lob[d]][q])
      <4>1. lob[d] \in Lobby
        BY <3>3 DEF TypeOK, LocalsSet
      <4>2. CASE lob[d] # lob[c] \/ q # at[c]
        BY <1>0, <4>1, <4>2 DEF Touch
      <4>3. CASE lob[d] = lob[c] /\ q = at[c]
        BY <1>0, <3>2, <4>1, <4>3 DEF Own, Shrinks
      <4> QED
        BY <4>2, <4>3
    <3>4. pc[d] = "offPut" => at[d] \in Seat
      BY DEF TypeOK, LocalsSet, Seat
    <3> QED
      BY <3>1, <3>3, <3>4 DEF Vacated
  <2> QED
    BY <2>1, <2>2
<1>8. LeaverIsOut'
  <2> SUFFICES ASSUME NEW d \in Conn, Alone(d), pc'[d] \in {"ownTest", "ownSet"},
                      NEW s \in Seat
               PROVE  ~ Own(d, players'[lob'[d]][s])
    BY DEF LeaverIsOut, Alone, Own
  <2>1. lob'[d] = lob[d] /\ lob[d] \in Lobby /\ pc[d] \in {"ownTest", "ownSet"}
    BY <1>0 DEF TypeOK, LocalsSet
  <2> QED
    BY <1>0, <2>1 DEF LeaverIsOut, Own, Shrinks
<1> QED
  BY <1>1, <1>2, <1>3, <1>4, <1>5, <1>6, <1>7, <1>8

LEMMA SitPutStep ==
  ASSUME IInv, NEW c \in Conn, SitPut(c)
  PROVE  IInv'
<1> USE UserOfAssumption, NAssumption, BoundAssumption, NoneAssumption DEF IInv
<1>0. /\ players' \in Board /\ lob[c] \in Lobby /\ seat[c] \in Seat
      /\ pc[c] = "sitTest" /\ at[c] = N + 1 /\ Return(c, "sitTest")
      /\ UNCHANGED <<current, made, asked>>
      /\ Touch(lob[c], seat[c])
      /\ players'[lob[c]][seat[c]] = [user |-> UserOf[c], owner |-> FALSE]
  <2> HIDE DEF IInv
  <2> QED
    BY SitPutEffect
<1>1. TypeOK'
  BY <1>0 DEF TypeOK, LocalsSet, Board, Player, PCs, Sitting, Leaving, Seat,
         Lobby, Return, Goto
<1>2. LocalsSet'
  <2>1. lob[c] <= made /\ made \in Nat
    BY <1>0 DEF TypeOK, LocalsSet, Lobby
  <2>2. \A l \in Lobby : l > made => players'[l] = Empty
    BY <1>0, <2>1 DEF LocalsSet, Touch, Lobby
  <2> QED
    BY <1>0, <2>2 DEF LocalsSet, TypeOK, Return, Goto
<1>3. Exclusion'
  BY <1>0 DEF TypeOK, Exclusion, MonitorFree, Sitting, Leaving, Return, Goto
<1>4. SeatStaysFree'
  BY <1>0 DEF TypeOK, LocalsSet, Exclusion, SeatStaysFree, MonitorFree, Sitting,
         Board, Touch, Seat, Lobby, Return, Goto
<1>5. Cleared'
  BY <1>0 DEF TypeOK, LocalsSet, Exclusion, Cleared, MonitorFree, Sitting, Board,
         Touch, Own, Seat, Lobby, Return, Goto
<1>6. OneSeatPerUser'
  <2> SUFFICES ASSUME NEW l \in Lobby, NEW s \in Seat, NEW t \in Seat, players'[l][s] # None,
                      players'[l][t] # None, players'[l][s].user = players'[l][t].user
               PROVE  s = t
    BY DEF OneSeatPerUser
  <2>1. \A r \in Seat : ~ Own(c, players[lob[c]][r])
    BY <1>0 DEF Cleared, Sitting, Seat
  <2>2. CASE l # lob[c]
    BY <1>0, <2>2 DEF OneSeatPerUser, Touch
  <2>3. CASE l = lob[c] /\ s # seat[c] /\ t # seat[c]
    BY <1>0, <2>3 DEF OneSeatPerUser, Touch
  <2>4. CASE l = lob[c] /\ (s = seat[c] \/ t = seat[c])
    BY <1>0, <2>1, <2>4 DEF Touch, Own
  <2> QED
    BY <2>2, <2>3, <2>4
<1>7. Vacated'
  <2> SUFFICES ASSUME NEW d \in Conn, Alone(d)
               PROVE  /\ pc'[d] \in {"offTest", "offCmp", "offPut"} =>
                           \A s \in Seat : s < at'[d] => ~ Own(d, players'[lob'[d]][s])
                      /\ pc'[d] = "offPut" => Own(d, players'[lob'[d]][at'[d]])
    BY DEF Vacated, Alone, Own
  <2>1. CASE d = c
    BY <1>0, <2>1 DEF TypeOK, Return, Goto
  <2>2. CASE d # c
    <3>1. pc'[d] = pc[d] /\ lob'[d] = lob[d] /\ at'[d] = at[d]
      BY <1>0, <2>2 DEF TypeOK, Return, Goto
    <3>2. UserOf[c] # UserOf[d]
      BY <2>2 DEF Alone
    <3>3. ASSUME NEW q \in Seat, pc[d] # "idle"
          PROVE  Own(d, players'[lob[d]][q]) <=> Own(d, players[lob[d]][q])
      <4>1. lob[d] \in Lobby
        BY <3>3 DEF TypeOK, LocalsSet
      <4>2. CASE lob[d] # lob[c] \/ q # seat[c]
        BY <1>0, <4>1, <4>2 DEF Touch
      <4>3. CASE lob[d] = lob[c] /\ q = seat[c]
        BY <1>0, <3>2, <4>1, <4>3 DEF Own, SeatStaysFree, Sitting
      <4> QED
        BY <4>2, <4>3
    <3>4. pc[d] = "offPut" => at[d] \in Seat
      BY DEF TypeOK, LocalsSet, Seat
    <3> QED
      BY <3>1, <3>3, <3>4 DEF Vacated
  <2> QED
    BY <2>1, <2>2
<1>8. LeaverIsOut'
  <2> SUFFICES ASSUME NEW d \in Conn, Alone(d), pc'[d] \in {"ownTest", "ownSet"},
                      NEW s \in Seat
               PROVE  ~ Own(d, players'[lob'[d]][s])
    BY DEF LeaverIsOut, Alone, Own
  <2>1. CASE d = c
    BY <1>0, <2>1 DEF TypeOK, Return, Goto
  <2>2. CASE d # c
    <3>1. pc'[d] = pc[d] /\ lob'[d] = lob[d] /\ at'[d] = at[d]
      BY <1>0, <2>2 DEF TypeOK, Return, Goto
    <3>2. UserOf[c] # UserOf[d]
      BY <2>2 DEF Alone
    <3>3. ASSUME NEW q \in Seat, pc[d] # "idle"
          PROVE  Own(d, players'[lob[d]][q]) <=> Own(d, players[lob[d]][q])
      <4>1. lob[d] \in Lobby
        BY <3>3 DEF TypeOK, LocalsSet
      <4>2. CASE lob[d] # lob[c] \/ q # seat[c]
        BY <1>0, <4>1, <4>2 DEF Touch
      <4>3. CASE lob[d] = lob[c] /\ q = seat[c]
        BY <1>0, <3>2, <4>1, <4>3 DEF Own, SeatStaysFree, Sitting
      <4> QED
        BY <4>2, <4>3
    <3> QED
      BY <3>1, <3>3 DEF LeaverIsOut
  <2> QED
    BY <2>1, <2>2
<1> QED
  BY <1>1, <1>2, <1>3, <1>4, <1>5, <1>6, <1>7, <1>8

LEMMA LeaveRequestStep ==
  ASSUME IInv, NEW c \in Conn, LeaveRequest(c)
  PROVE  IInv'
<1> USE UserOfAssumption, NAssumption, BoundAssumption, NoneAssumption DEF IInv
<1>1. TypeOK'
  BY DEF LeaveRequest, Goto, TypeOK, LocalsSet, PCs, Sitting, Leaving, Seat,
         Lobby
<1>2. LocalsSet'
  BY DEF LeaveRequest, Goto, TypeOK, LocalsSet, Seat, Lobby
<1>3. Exclusion'
  BY DEF LeaveRequest, Goto, TypeOK, Exclusion, MonitorFree, Sitting, Leaving
<1>4. SeatStaysFree'
  BY DEF LeaveRequest, Goto, TypeOK, LocalsSet, Exclusion, SeatStaysFree,
         MonitorFree, Sitting, Seat, Lobby
<1>5. Cleared'
  BY DEF LeaveRequest, Goto, TypeOK, LocalsSet, Exclusion, Cleared,
         MonitorFree, Sitting, Own, Seat, Lobby
<1>6. OneSeatPerUser'
  BY DEF LeaveRequest, Goto, TypeOK, LocalsSet, OneSeatPerUser, Cleared,
         Sitting, Own, Seat, Lobby
<1>7. Vacated'
  BY DEF LeaveRequest, Goto, TypeOK, LocalsSet, Vacated, SeatStaysFree,
         Sitting, Own, Seat, Lobby
<1>8. LeaverIsOut'
  BY DEF LeaveRequest, Goto, TypeOK, LocalsSet, Vacated, LeaverIsOut, Own,
         Seat, Lobby
<1> QED
  BY <1>1, <1>2, <1>3, <1>4, <1>5, <1>6, <1>7, <1>8

LEMMA LeaveEnterStep ==
  ASSUME IInv, NEW c \in Conn, LeaveEnter(c)
  PROVE  IInv'
<1> USE UserOfAssumption, NAssumption, BoundAssumption, NoneAssumption DEF IInv
<1>1. TypeOK'
  BY DEF LeaveEnter, Goto, TypeOK, LocalsSet, PCs, Sitting, Leaving, Seat,
         Lobby
<1>2. LocalsSet'
  BY DEF LeaveEnter, Goto, TypeOK, LocalsSet, Seat, Lobby
<1>3. Exclusion'
  BY DEF LeaveEnter, Goto, TypeOK, Exclusion, MonitorFree, Sitting, Leaving
<1>4. SeatStaysFree'
  BY DEF LeaveEnter, Goto, TypeOK, LocalsSet, Exclusion, SeatStaysFree,
         MonitorFree, Sitting, Seat, Lobby
<1>5. Cleared'
  BY DEF LeaveEnter, Goto, TypeOK, LocalsSet, Exclusion, Cleared,
         MonitorFree, Sitting, Own, Seat, Lobby
<1>6. OneSeatPerUser'
  BY DEF LeaveEnter, Goto, TypeOK, LocalsSet, OneSeatPerUser, Cleared,
         Sitting, Own, Seat, Lobby
<1>7. Vacated'
  <2> SUFFICES ASSUME NEW d \in Conn, Alone(d)
               PROVE  /\ pc'[d] \in {"offTest", "offCmp", "offPut"} =>
                           \A s \in Seat : s < at'[d] => ~ Own(d, players'[lob'[d]][s])
                      /\ pc'[d] = "offPut" => Own(d, players'[lob'[d]][at'[d]])
    BY DEF Vacated, Alone, Own
  <2>1. CASE d = c
    BY <2>1 DEF LeaveEnter, Goto, Advance, Here, TypeOK, LocalsSet, Vacated,
                Alone, Own, Seat, Lobby
  <2>2. CASE d # c
    BY <2>2 DEF LeaveEnter, Goto, Advance, Here, TypeOK, LocalsSet, Vacated,
                Alone, Own, Seat, Lobby
  <2> QED
    BY <2>1, <2>2
<1>8. LeaverIsOut'
  BY DEF LeaveEnter, Goto, TypeOK, LocalsSet, Vacated, LeaverIsOut, Own,
         Seat, Lobby
<1> QED
  BY <1>1, <1>2, <1>3, <1>4, <1>5, <1>6, <1>7, <1>8

LEMMA OffTestStep ==
  ASSUME IInv, NEW c \in Conn, OffTest(c)
  PROVE  IInv'
<1> USE UserOfAssumption, NAssumption, BoundAssumption, NoneAssumption DEF IInv
<1>1. TypeOK'
  <2>1. at[c] \in 1..N
    BY DEF OffTest, TypeOK, LocalsSet, Goto
  <2>2. at' \in [Conn -> 1..N+1]
    <3>1. at' = at \/ at' = [at EXCEPT ![c] = @ + 1]
      BY DEF OffTest, Goto, Advance
    <3>2. at[c] + 1 \in 1..N+1
      BY <2>1
    <3> QED
      BY <3>1, <3>2 DEF TypeOK
  <2>3. pc' \in [Conn -> PCs]
    BY DEF OffTest, Goto, TypeOK, PCs, Sitting, Leaving
  <2> QED
    BY <2>2, <2>3 DEF OffTest, TypeOK
<1>2. LocalsSet'
  BY DEF OffTest, Goto, Advance, Here, TypeOK, LocalsSet, Seat, Lobby
<1>3. Exclusion'
  BY DEF OffTest, Goto, Advance, Here, TypeOK, Exclusion, MonitorFree,
         Sitting, Leaving
<1>4. SeatStaysFree'
  BY DEF OffTest, Goto, Advance, Here, TypeOK, LocalsSet, Exclusion,
         SeatStaysFree, MonitorFree, Sitting, Seat, Lobby
<1>5. Cleared'
  BY DEF OffTest, Goto, Advance, Here, TypeOK, LocalsSet, Exclusion, Cleared,
         MonitorFree, Sitting, Own, Seat, Lobby
<1>6. OneSeatPerUser'
  BY DEF OffTest, Goto, Advance, Here, TypeOK, LocalsSet, OneSeatPerUser,
         Cleared, Sitting, Own, Seat, Lobby
<1>7. Vacated'
  <2> SUFFICES ASSUME NEW d \in Conn, Alone(d)
               PROVE  /\ pc'[d] \in {"offTest", "offCmp", "offPut"} =>
                           \A s \in Seat : s < at'[d] => ~ Own(d, players'[lob'[d]][s])
                      /\ pc'[d] = "offPut" => Own(d, players'[lob'[d]][at'[d]])
    BY DEF Vacated, Alone, Own
  <2>1. CASE d = c
    <3>1. at[c] \in 1..N /\ lob' = lob /\ players' = players /\ pc[c] = "offTest"
      BY DEF OffTest, TypeOK, LocalsSet, Goto
    <3>2. CASE Here(c) = None
      <4>1. at'[c] = at[c] + 1 /\ pc'[c] = "offTest"
        BY <3>1, <3>2 DEF OffTest, Advance, TypeOK
      <4> QED
        BY <2>1, <3>1, <3>2, <4>1 DEF Vacated, Own, Here, Seat
    <3>3. CASE Here(c) # None
      <4>1. at'[c] = at[c] /\ pc'[c] = "offCmp"
        BY <3>1, <3>3 DEF OffTest, Goto, TypeOK
      <4> QED
        BY <2>1, <3>1, <4>1 DEF Vacated, Own
    <3> QED
      BY <3>2, <3>3
  <2>2. CASE d # c
    BY <2>2 DEF OffTest, Goto, Advance, TypeOK, Vacated, Own
  <2> QED
    BY <2>1, <2>2
<1>8. LeaverIsOut'
  BY DEF OffTest, Goto, Advance, Here, TypeOK, LocalsSet, Vacated,
         LeaverIsOut, Own, Seat, Lobby
<1> QED
  BY <1>1, <1>2, <1>3, <1>4, <1>5, <1>6, <1>7, <1>8

LEMMA OffCmpStep ==
  ASSUME IInv, NEW c \in Conn, OffCmp(c)
  PROVE  IInv'
<1> USE UserOfAssumption, NAssumption, BoundAssumption, NoneAssumption DEF IInv
<1>1. TypeOK'
  <2>1. at[c] \in 1..N
    BY DEF OffCmp, TypeOK, LocalsSet, Goto
  <2>2. at' \in [Conn -> 1..N+1]
    <3>1. at' = at \/ at' = [at EXCEPT ![c] = @ + 1]
      BY DEF OffCmp, Goto, Advance
    <3>2. at[c] + 1 \in 1..N+1
      BY <2>1
    <3> QED
      BY <3>1, <3>2 DEF TypeOK
  <2>3. pc' \in [Conn -> PCs]
    BY DEF OffCmp, Goto, TypeOK, PCs, Sitting, Leaving
  <2> QED
    BY <2>2, <2>3 DEF OffCmp, TypeOK
<1>2. LocalsSet'
  BY DEF OffCmp, Goto, Advance, Here, TypeOK, LocalsSet, Seat, Lobby
<1>3. Exclusion'
  BY DEF OffCmp, Goto, Advance, Here, TypeOK, Exclusion, MonitorFree,
         Sitting, Leaving
<1>4. SeatStaysFree'
  BY DEF OffCmp, Goto, Advance, Here, TypeOK, LocalsSet, Exclusion,
         SeatStaysFree, MonitorFree, Sitting, Seat, Lobby
<1>5. Cleared'
  BY DEF OffCmp, Goto, Advance, Here, TypeOK, LocalsSet, Exclusion, Cleared,
         MonitorFree, Sitting, Own, Seat, Lobby
<1>6. OneSeatPerUser'
  BY DEF OffCmp, Goto, Advance, Here, TypeOK, LocalsSet, OneSeatPerUser,
         Cleared, Sitting, Own, Seat, Lobby
<1>7. Vacated'
  <2> SUFFICES ASSUME NEW d \in Conn, Alone(d)
               PROVE  /\ pc'[d] \in {"offTest", "offCmp", "offPut"} =>
                           \A s \in Seat : s < at'[d] => ~ Own(d, players'[lob'[d]][s])
                      /\ pc'[d] = "offPut" => Own(d, players'[lob'[d]][at'[d]])
    BY DEF Vacated, Alone, Own
  <2>1. CASE d = c
    BY <2>1 DEF OffCmp, Goto, Advance, Here, TypeOK, LocalsSet, Vacated, Own,
                Seat, Lobby
  <2>2. CASE d # c
    BY <2>2 DEF OffCmp, Goto, Advance, Here, TypeOK, LocalsSet, Vacated, Own,
                Seat, Lobby
  <2> QED
    BY <2>1, <2>2
<1>8. LeaverIsOut'
  BY DEF OffCmp, Goto, Advance, Here, TypeOK, LocalsSet, Vacated,
         LeaverIsOut, Own, Seat, Lobby
<1> QED
  BY <1>1, <1>2, <1>3, <1>4, <1>5, <1>6, <1>7, <1>8

LEMMA OffPutStep ==
  ASSUME IInv, NEW c \in Conn, OffPut(c)
  PROVE  IInv'
<1> USE UserOfAssumption, NAssumption, BoundAssumption, NoneAssumption DEF IInv
<1>0. /\ players' \in Board /\ lob[c] \in Lobby /\ at[c] \in Seat
      /\ pc[c] = "offPut" /\ pc' = [pc EXCEPT ![c] = "offTest"]
      /\ at' = [at EXCEPT ![c] = @ + 1]
      /\ UNCHANGED <<current, made, lob, seat, asked>>
      /\ Touch(lob[c], at[c])
      /\ ~ Own(c, players'[lob[c]][at[c]])
      /\ Shrinks
  <2> HIDE DEF IInv
  <2> QED
    BY OffPutEffect
<1>1. TypeOK'
  BY <1>0 DEF TypeOK, LocalsSet, Board, Player, PCs, Sitting, Leaving, Seat, Lobby
<1>2. LocalsSet'
  <2>1. lob[c] <= made /\ made \in Nat /\ at[c] \in 1..N
    BY <1>0 DEF TypeOK, LocalsSet, Lobby, Seat
  <2>2. \A l \in Lobby : l > made => players'[l] = Empty
    BY <1>0, <2>1 DEF LocalsSet, Touch, Lobby
  <2>3. \A d \in Conn : pc'[d] # "idle" => lob'[d] \in 1..made'
    BY <1>0 DEF LocalsSet, TypeOK
  <2>4. \A d \in Conn : /\ pc'[d] \in {"sitCmp", "offCmp", "offPut", "ownSet"} => at'[d] <= N
                        /\ pc'[d] \in {"idle", "sitWait", "leaveWait"} => at'[d] = 1
    BY <1>0 DEF LocalsSet, TypeOK
  <2> QED
    BY <1>0, <2>2, <2>3, <2>4 DEF LocalsSet
<1>3. Exclusion'
  BY <1>0 DEF TypeOK, Exclusion, MonitorFree, Sitting, Leaving
<1>4. SeatStaysFree'
  BY <1>0 DEF TypeOK, LocalsSet, Exclusion, SeatStaysFree, MonitorFree, Sitting,
         Board, Shrinks, Seat, Lobby
<1>5. Cleared'
  <2> SUFFICES ASSUME NEW d \in Conn, pc'[d] \in Sitting, NEW s \in Seat, s < at'[d]
               PROVE  ~ Own(d, players'[lob'[d]][s])
    BY DEF Cleared, Own
  <2>1. CASE d = c
    BY <1>0, <2>1 DEF TypeOK, Sitting
  <2>2. CASE d # c
    <3>1. pc'[d] = pc[d] /\ lob'[d] = lob[d] /\ at'[d] = at[d]
      BY <1>0, <2>2 DEF TypeOK, Return, Goto
    <3>2. lob[d] \in Lobby
      BY <2>2, <3>1 DEF TypeOK, LocalsSet, Sitting
    <3> QED
      BY <1>0, <3>1, <3>2 DEF Cleared, Own, Shrinks
  <2> QED
    BY <2>1, <2>2
<1>6. OneSeatPerUser'
  BY <1>0 DEF TypeOK, LocalsSet, OneSeatPerUser, Cleared, Sitting, Board, Shrinks,
         Own, Seat, Lobby, Player
<1>7. Vacated'
  <2> SUFFICES ASSUME NEW d \in Conn, Alone(d)
               PROVE  /\ pc'[d] \in {"offTest", "offCmp", "offPut"} =>
                           \A s \in Seat : s < at'[d] => ~ Own(d, players'[lob'[d]][s])
                      /\ pc'[d] = "offPut" => Own(d, players'[lob'[d]][at'[d]])
    BY DEF Vacated, Alone, Own
  <2>1. CASE d = c
    <3>1. lob'[c] = lob[c] /\ at'[c] = at[c] + 1 /\ at[c] \in Nat /\ pc'[c] = "offTest"
      BY <1>0 DEF TypeOK
    <3>2. ASSUME NEW s \in Seat, s < at'[c] PROVE ~ Own(c, players'[lob[c]][s])
      <4>1. CASE s = at[c]
        BY <1>0, <4>1
      <4>2. CASE s # at[c]
        <5>1. s < at[c]
          BY <3>1, <3>2, <4>2 DEF Seat
        <5> QED
          BY <1>0, <2>1, <5>1 DEF Vacated, Own, Shrinks
      <4> QED
        BY <4>1, <4>2
    <3> QED
      BY <2>1, <3>1, <3>2
  <2>2. CASE d # c
    BY <1>0, <2>2 DEF TypeOK, Exclusion, Leaving
  <2> QED
    BY <2>1, <2>2
<1>8. LeaverIsOut'
  <2> SUFFICES ASSUME NEW d \in Conn, Alone(d), pc'[d] \in {"ownTest", "ownSet"},
                      NEW s \in Seat
               PROVE  ~ Own(d, players'[lob'[d]][s])
    BY DEF LeaverIsOut, Alone, Own
  <2>1. CASE d = c
    BY <1>0, <2>1 DEF TypeOK, Return, Goto
  <2>2. CASE d # c
    BY <1>0, <2>2 DEF TypeOK, Exclusion, Leaving
  <2> QED
    BY <2>1, <2>2
<1> QED
  BY <1>1, <1>2, <1>3, <1>4, <1>5, <1>6, <1>7, <1>8

LEMMA OwnScanStep ==
  ASSUME IInv, NEW c \in Conn, OwnScan(c)
  PROVE  IInv'
<1> USE UserOfAssumption, NAssumption, BoundAssumption, NoneAssumption DEF IInv
<1>1. TypeOK'
  BY DEF OwnScan, Goto, TypeOK, LocalsSet, PCs, Sitting, Leaving, Seat, Lobby
<1>2. LocalsSet'
  BY DEF OwnScan, Goto, TypeOK, LocalsSet, Seat, Lobby
<1>3. Exclusion'
  BY DEF OwnScan, Goto, TypeOK, Exclusion, MonitorFree, Sitting, Leaving
<1>4. SeatStaysFree'
  BY DEF OwnScan, Goto, TypeOK, LocalsSet, Exclusion, SeatStaysFree,
         MonitorFree, Sitting, Seat, Lobby
<1>5. Cleared'
  BY DEF OwnScan, Goto, TypeOK, LocalsSet, Exclusion, Cleared, MonitorFree,
         Sitting, Own, Seat, Lobby
<1>6. OneSeatPerUser'
  BY DEF OwnScan, Goto, TypeOK, LocalsSet, OneSeatPerUser, Cleared, Sitting,
         Own, Seat, Lobby
<1>7. Vacated'
  BY DEF OwnScan, Goto, TypeOK, LocalsSet, Vacated, SeatStaysFree, Sitting,
         Own, Seat, Lobby
<1>8. LeaverIsOut'
  <2> SUFFICES ASSUME NEW d \in Conn, Alone(d), pc'[d] \in {"ownTest", "ownSet"},
                      NEW s \in Seat
               PROVE  ~ Own(d, players'[lob'[d]][s])
    BY DEF LeaverIsOut, Alone, Own
  <2>1. CASE d = c
    <3>1. s < at[c] /\ pc[c] = "offTest" /\ lob'[c] = lob[c] /\ players' = players
      BY DEF TypeOK, OwnScan, Goto, Seat
    <3> QED
      BY <2>1, <3>1 DEF Vacated
  <2>2. CASE d # c
    BY <2>2 DEF OwnScan, Goto, TypeOK, LeaverIsOut
  <2> QED
    BY <2>1, <2>2
<1> QED
  BY <1>1, <1>2, <1>3, <1>4, <1>5, <1>6, <1>7, <1>8

LEMMA OwnTestStep ==
  ASSUME IInv, NEW c \in Conn, OwnTest(c)
  PROVE  IInv'
<1> USE UserOfAssumption, NAssumption, BoundAssumption, NoneAssumption DEF IInv
<1>1. TypeOK'
  <2>1. at[c] \in 1..N
    BY DEF OwnTest, TypeOK, LocalsSet, Goto
  <2>2. at' \in [Conn -> 1..N+1]
    <3>1. at' = at \/ at' = [at EXCEPT ![c] = @ + 1]
      BY DEF OwnTest, Goto, Advance
    <3>2. at[c] + 1 \in 1..N+1
      BY <2>1
    <3> QED
      BY <3>1, <3>2 DEF TypeOK
  <2>3. pc' \in [Conn -> PCs]
    BY DEF OwnTest, Goto, TypeOK, PCs, Sitting, Leaving
  <2> QED
    BY <2>2, <2>3 DEF OwnTest, TypeOK
<1>2. LocalsSet'
  BY DEF OwnTest, Goto, Advance, Here, TypeOK, LocalsSet, Seat, Lobby
<1>3. Exclusion'
  BY DEF OwnTest, Goto, Advance, Here, TypeOK, Exclusion, MonitorFree,
         Sitting, Leaving
<1>4. SeatStaysFree'
  BY DEF OwnTest, Goto, Advance, Here, TypeOK, LocalsSet, Exclusion,
         SeatStaysFree, MonitorFree, Sitting, Seat, Lobby
<1>5. Cleared'
  BY DEF OwnTest, Goto, Advance, Here, TypeOK, LocalsSet, Exclusion, Cleared,
         MonitorFree, Sitting, Own, Seat, Lobby
<1>6. OneSeatPerUser'
  BY DEF OwnTest, Goto, Advance, Here, TypeOK, LocalsSet, OneSeatPerUser,
         Cleared, Sitting, Own, Seat, Lobby
<1>7. Vacated'
  BY DEF OwnTest, Goto, Advance, Here, TypeOK, LocalsSet, Vacated,
         SeatStaysFree, Sitting, Own, Seat, Lobby
<1>8. LeaverIsOut'
  BY DEF OwnTest, Goto, Advance, Here, TypeOK, LocalsSet, Vacated,
         LeaverIsOut, Own, Seat, Lobby
<1> QED
  BY <1>1, <1>2, <1>3, <1>4, <1>5, <1>6, <1>7, <1>8

LEMMA OwnSetStep ==
  ASSUME IInv, NEW c \in Conn, OwnSet(c)
  PROVE  IInv'
<1> USE UserOfAssumption, NAssumption, BoundAssumption, NoneAssumption DEF IInv
<1>0. /\ players' \in Board /\ lob[c] \in Lobby /\ at[c] \in Seat
      /\ pc[c] = "ownSet" /\ Return(c, "ownSet")
      /\ UNCHANGED <<current, made, asked>>
      /\ Touch(lob[c], at[c])
      /\ Shrinks /\ players'[lob[c]][at[c]] # None
  <2> HIDE DEF IInv
  <2> QED
    BY OwnSetEffect
<1>1. TypeOK'
  BY <1>0 DEF TypeOK, LocalsSet, Board, Player, PCs, Sitting, Leaving, Seat,
         Lobby, Return, Goto
<1>2. LocalsSet'
  <2>1. lob[c] <= made /\ made \in Nat
    BY <1>0 DEF TypeOK, LocalsSet, Lobby
  <2>2. \A l \in Lobby : l > made => players'[l] = Empty
    BY <1>0, <2>1 DEF LocalsSet, Touch, Lobby
  <2> QED
    BY <1>0, <2>2 DEF LocalsSet, TypeOK, Return, Goto
<1>3. Exclusion'
  BY <1>0 DEF TypeOK, Exclusion, MonitorFree, Sitting, Leaving, Return, Goto
<1>4. SeatStaysFree'
  BY <1>0 DEF TypeOK, LocalsSet, Exclusion, SeatStaysFree, MonitorFree, Sitting,
         Board, Shrinks, Seat, Lobby, Return, Goto
<1>5. Cleared'
  <2> SUFFICES ASSUME NEW d \in Conn, pc'[d] \in Sitting, NEW s \in Seat, s < at'[d]
               PROVE  ~ Own(d, players'[lob'[d]][s])
    BY DEF Cleared, Own
  <2>1. CASE d = c
    BY <1>0, <2>1 DEF TypeOK, Sitting, Return, Goto
  <2>2. CASE d # c
    <3>1. pc'[d] = pc[d] /\ lob'[d] = lob[d] /\ at'[d] = at[d]
      BY <1>0, <2>2 DEF TypeOK, Return, Goto
    <3>2. lob[d] \in Lobby
      BY <2>2, <3>1 DEF TypeOK, LocalsSet, Sitting
    <3> QED
      BY <1>0, <3>1, <3>2 DEF Cleared, Own, Shrinks
  <2> QED
    BY <2>1, <2>2
<1>6. OneSeatPerUser'
  BY <1>0 DEF TypeOK, LocalsSet, OneSeatPerUser, Cleared, Sitting, Board, Shrinks,
         Own, Seat, Lobby, Player, Return, Goto
<1>7. Vacated'
  <2> SUFFICES ASSUME NEW d \in Conn, Alone(d)
               PROVE  /\ pc'[d] \in {"offTest", "offCmp", "offPut"} =>
                           \A s \in Seat : s < at'[d] => ~ Own(d, players'[lob'[d]][s])
                      /\ pc'[d] = "offPut" => Own(d, players'[lob'[d]][at'[d]])
    BY DEF Vacated, Alone, Own
  <2>1. CASE d = c
    BY <1>0, <2>1 DEF TypeOK, Return, Goto
  <2>2. CASE d # c
    <3>1. pc'[d] = pc[d] /\ lob'[d] = lob[d] /\ at'[d] = at[d]
      BY <1>0, <2>2 DEF TypeOK, Return, Goto
    <3>2. UserOf[c] # UserOf[d]
      BY <2>2 DEF Alone
    <3>3. ASSUME NEW q \in Seat, pc[d] # "idle"
          PROVE  Own(d, players'[lob[d]][q]) <=> Own(d, players[lob[d]][q])
      <4>1. lob[d] \in Lobby
        BY <3>3 DEF TypeOK, LocalsSet
      <4>2. CASE lob[d] # lob[c] \/ q # at[c]
        BY <1>0, <4>1, <4>2 DEF Touch
      <4>3. CASE lob[d] = lob[c] /\ q = at[c]
        BY <1>0, <3>2, <4>1, <4>3 DEF Own, Shrinks
      <4> QED
        BY <4>2, <4>3
    <3>4. pc[d] = "offPut" => at[d] \in Seat
      BY DEF TypeOK, LocalsSet, Seat
    <3> QED
      BY <3>1, <3>3, <3>4 DEF Vacated
  <2> QED
    BY <2>1, <2>2
<1>8. LeaverIsOut'
  <2> SUFFICES ASSUME NEW d \in Conn, Alone(d), pc'[d] \in {"ownTest", "ownSet"},
                      NEW s \in Seat
               PROVE  ~ Own(d, players'[lob'[d]][s])
    BY DEF LeaverIsOut, Alone, Own
  <2>1. lob'[d] = lob[d] /\ lob[d] \in Lobby /\ pc[d] \in {"ownTest", "ownSet"}
    BY <1>0 DEF TypeOK, LocalsSet, Return, Goto
  <2> QED
    BY <1>0, <2>1 DEF LeaverIsOut, Own, Shrinks
<1> QED
  BY <1>1, <1>2, <1>3, <1>4, <1>5, <1>6, <1>7, <1>8

LEMMA LeaveFailsStep ==
  ASSUME IInv, NEW c \in Conn, LeaveFails(c)
  PROVE  IInv'
<1> USE UserOfAssumption, NAssumption, BoundAssumption, NoneAssumption DEF IInv
<1>1. TypeOK'
  BY DEF LeaveFails, Return, Here, Goto, TypeOK, LocalsSet, PCs, Sitting,
         Leaving, Seat, Lobby
<1>2. LocalsSet'
  BY DEF LeaveFails, Return, Here, Goto, TypeOK, LocalsSet, Seat, Lobby
<1>3. Exclusion'
  BY DEF LeaveFails, Return, Here, Goto, TypeOK, Exclusion, MonitorFree,
         Sitting, Leaving
<1>4. SeatStaysFree'
  BY DEF LeaveFails, Return, Here, Goto, TypeOK, LocalsSet, Exclusion,
         SeatStaysFree, MonitorFree, Sitting, Seat, Lobby
<1>5. Cleared'
  BY DEF LeaveFails, Return, Here, Goto, TypeOK, LocalsSet, Exclusion,
         Cleared, MonitorFree, Sitting, Own, Seat, Lobby
<1>6. OneSeatPerUser'
  BY DEF LeaveFails, Return, Here, Goto, TypeOK, LocalsSet, OneSeatPerUser,
         Cleared, Sitting, Own, Seat, Lobby
<1>7. Vacated'
  BY DEF LeaveFails, Return, Here, Goto, TypeOK, LocalsSet, Vacated,
         SeatStaysFree, Sitting, Own, Seat, Lobby
<1>8. LeaverIsOut'
  BY DEF LeaveFails, Return, Here, Goto, TypeOK, LocalsSet, Vacated,
         LeaverIsOut, Own, Seat, Lobby
<1> QED
  BY <1>1, <1>2, <1>3, <1>4, <1>5, <1>6, <1>7, <1>8

LEMMA LeaveDropStep ==
  ASSUME IInv, NEW c \in Conn, LeaveDrop(c)
  PROVE  IInv'
<1> USE UserOfAssumption, NAssumption, BoundAssumption, NoneAssumption DEF IInv
<1>1. TypeOK'
  BY DEF LeaveDrop, Return, Goto, TypeOK, LocalsSet, PCs, Sitting, Leaving,
         Seat, Lobby
<1>2. LocalsSet'
  BY DEF LeaveDrop, Return, Goto, TypeOK, LocalsSet, Seat, Lobby
<1>3. Exclusion'
  BY DEF LeaveDrop, Return, Goto, TypeOK, Exclusion, MonitorFree, Sitting, Leaving
<1>4. SeatStaysFree'
  BY DEF LeaveDrop, Return, Goto, TypeOK, LocalsSet, Exclusion,
         SeatStaysFree, MonitorFree, Sitting, Seat, Lobby
<1>5. Cleared'
  BY DEF LeaveDrop, Return, Goto, TypeOK, LocalsSet, Exclusion, Cleared,
         MonitorFree, Sitting, Own, Seat, Lobby
<1>6. OneSeatPerUser'
  BY DEF LeaveDrop, Return, Goto, TypeOK, LocalsSet, OneSeatPerUser, Cleared,
         Sitting, Own, Seat, Lobby
<1>7. Vacated'
  BY DEF LeaveDrop, Return, Goto, TypeOK, LocalsSet, Vacated, SeatStaysFree,
         Sitting, Own, Seat, Lobby
<1>8. LeaverIsOut'
  BY DEF LeaveDrop, Return, Goto, TypeOK, LocalsSet, Vacated, LeaverIsOut,
         Own, Seat, Lobby
<1> QED
  BY <1>1, <1>2, <1>3, <1>4, <1>5, <1>6, <1>7, <1>8

-----------------------------------------------------------------------------
LEMMA InitIInv == Init => IInv
<1> SUFFICES ASSUME Init PROVE IInv
  OBVIOUS
<1> USE NAssumption, BoundAssumption, NoneAssumption DEF Init
<1>1. TypeOK
  <2>1. Empty \in [Seat -> Player \cup {None}]
    BY DEF Empty
  <2>2. 1 \in Seat /\ 1 \in 1..N+1
    BY DEF Seat
  <2> QED
    BY <2>1, <2>2 DEF TypeOK, PCs
<1>2. LocalsSet /\ Exclusion /\ SeatStaysFree /\ Cleared /\ Vacated /\ LeaverIsOut
  BY DEF LocalsSet, Exclusion, SeatStaysFree, Cleared, Vacated, LeaverIsOut, Sitting, Leaving
<1>3. OneSeatPerUser
  BY DEF OneSeatPerUser, Empty
<1> QED
  BY <1>1, <1>2, <1>3 DEF IInv

LEMMA StepIInv == IInv /\ [Next]_vars => IInv'
<1> SUFFICES ASSUME IInv, [Next]_vars PROVE IInv'
  OBVIOUS
<1>1. ASSUME NEW c \in Conn, Handler(c) PROVE IInv'
  BY <1>1, SitEnterStep, SitRefusedStep, SitTestStep, SitFailsStep, SitCmpStep,
         SitPutStep, LeaveEnterStep, OffTestStep, OffCmpStep, OffPutStep,
         OwnScanStep, OwnTestStep, OwnSetStep, LeaveFailsStep, LeaveDropStep
  DEF Handler
<1>2. ASSUME NEW c \in Conn, LeaveRequest(c) PROVE IInv'
  BY <1>2, LeaveRequestStep
<1>3. ASSUME NEW c \in Conn, NEW s \in Seat, SitRequest(c, s) PROVE IInv'
  BY <1>3, SitRequestStep
<1>4. ASSUME NEW u \in User, SetProperties(u) PROVE IInv'
  BY <1>4, SetPropertiesStep
<1>5. CASE UNCHANGED vars
  BY <1>5 DEF vars, IInv, TypeOK, LocalsSet, Exclusion, SeatStaysFree, Cleared,
              OneSeatPerUser, Vacated, LeaverIsOut, Own
<1> QED
  BY <1>1, <1>2, <1>3, <1>4, <1>5 DEF Next, Quiet

\* The invariant holds in every reachable state, whatever the sizes.
THEOREM IInvHolds == Spec => []IInv
BY InitIInv, StepIInv, PTL DEF Spec

\* Every variable keeps its type.
THEOREM TypeCorrect == Spec => []TypeOK
BY IInvHolds, PTL DEF IInv

\* No interleaving of sitting down, moving and leaving gives a user two seats.
THEOREM OneSeatEach == Spec => []OneSeatPerUser
BY IInvHolds, PTL DEF IInv

\* The seat setPlayer found free stays free until setPlayer fills it, though the
\* leavers write to the array without its monitor.
THEOREM SeatKeptFree == Spec => []SeatStaysFree
BY IInvHolds, PTL DEF IInv

\* A leaver past offPlayer, its user's only connection, is on no seat.
THEOREM LeaverGone == Spec => []LeaverIsOut
BY IInvHolds, PTL DEF IInv

-----------------------------------------------------------------------------
\* A handler that empties a seat empties its own user's.
LEMMA OwnSeatOnly ==
  ASSUME IInv, NEW c \in Conn, Alone(c), Handler(c), NEW l \in Lobby, NEW s \in Seat,
         players[l][s] # None, players'[l][s] = None
  PROVE  players[l][s].user = UserOf[c]
<1>1. CASE SitCmp(c)
  <2>1. /\ lob[c] \in Lobby /\ at[c] \in Seat /\ Touch(lob[c], at[c])
        /\ Own(c, players[lob[c]][at[c]]) \/ players' = players
    BY <1>1, SitCmpEffect
  <2>2. l = lob[c] /\ s = at[c]
    BY <2>1 DEF Touch
  <2> QED
    BY <2>1, <2>2 DEF Own
<1>2. CASE SitPut(c)
  <2>1. /\ lob[c] \in Lobby /\ seat[c] \in Seat /\ Touch(lob[c], seat[c])
        /\ players'[lob[c]][seat[c]] = [user |-> UserOf[c], owner |-> FALSE]
    BY <1>2, SitPutEffect
  <2>2. players[lob[c]][seat[c]] = None
    BY <1>2 DEF IInv, SeatStaysFree, SitPut, Sitting
  <2> QED
    BY <2>1, <2>2 DEF Touch
<1>3. CASE OffPut(c)
  <2>1. lob[c] \in Lobby /\ at[c] \in Seat /\ Touch(lob[c], at[c]) /\ pc[c] = "offPut"
    BY <1>3, OffPutEffect
  <2>2. l = lob[c] /\ s = at[c]
    BY <2>1 DEF Touch
  <2> QED
    BY <2>1, <2>2 DEF Own, IInv, Vacated
<1>4. CASE OwnSet(c)
  <2>1. /\ lob[c] \in Lobby /\ at[c] \in Seat /\ Touch(lob[c], at[c])
        /\ players'[lob[c]][at[c]] # None
    BY <1>4, OwnSetEffect
  <2> QED
    BY <2>1 DEF Touch
<1>5. CASE players' = players
  BY <1>5
<1> QED
  BY <1>1, <1>2, <1>3, <1>4, <1>5
  DEF Handler, SitEnter, SitRefused, SitTest, SitFails, LeaveEnter, OffTest, OffCmp,
      OwnScan, OwnTest, LeaveFails, LeaveDrop

\* No leaver and no sitter takes another user off a seat.
THEOREM NobodyUnseated == Spec => SeatNotStolen
<1>1. IInv /\ [Next]_vars =>
      [\A l \in Lobby, s \in Seat, c \in Conn :
         Alone(c) /\ Handler(c) /\ players[l][s] # None /\ players'[l][s] = None
           => players[l][s].user = UserOf[c]]_vars
  BY OwnSeatOnly
<1> QED
  BY <1>1, IInvHolds, PTL DEF Spec, SeatNotStolen

-----------------------------------------------------------------------------
(***************************************************************************)
(* The refinement of SeatTable                                             *)
(***************************************************************************)

\* What EXCEPT does to one entry of a matrix.
LEMMA UpdateEntry ==
  ASSUME NEW A, NEW B, NEW C, NEW f \in [A -> [B -> C]], NEW l \in A, NEW s \in B, NEW v
  PROVE  [f EXCEPT ![l][s] = v] =
           [m \in A |-> [t \in B |-> IF m = l /\ t = s THEN v ELSE f[m][t]]]
<1> DEFINE g == [m \in A |-> [t \in B |-> IF m = l /\ t = s THEN v ELSE f[m][t]]]
           h == [f EXCEPT ![l][s] = v]
<1>1. ASSUME NEW m \in A PROVE h[m] = g[m]
  <2>1. CASE m = l
    <3>1. h[m] = [f[l] EXCEPT ![s] = v] /\ g[m] = [t \in B |-> IF t = s THEN v ELSE f[l][t]]
      BY <2>1
    <3>2. f[l] \in [B -> C]
      OBVIOUS
    <3>3. [f[l] EXCEPT ![s] = v] = [t \in B |-> IF t = s THEN v ELSE f[l][t]]
      BY <3>2
    <3> QED
      BY <3>1, <3>3
  <2>2. CASE m # l
    <3>1. h[m] = f[m] /\ g[m] = [t \in B |-> f[m][t]] /\ f[m] \in [B -> C]
      BY <2>2
    <3> QED
      BY <3>1
  <2> QED
    BY <2>1, <2>2
<1>2. h = [m \in A |-> h[m]] /\ g = [m \in A |-> g[m]]
  OBVIOUS
<1> HIDE DEF g, h
<1>3. h = g
  BY <1>1, <1>2
<1> QED
  BY <1>3 DEF g, h

\* A write to one seat of the board is a write to that seat of the table.
LEMMA OccPut ==
  ASSUME players \in Board, players' \in Board, NEW l \in Lobby, NEW s \in Seat, Touch(l, s),
         NEW v, v = IF players'[l][s] = None THEN None ELSE players'[l][s].user
  PROVE  occ' = [occ EXCEPT ![l][s] = v]
<1>1. ASSUME NEW m \in Lobby, NEW t \in Seat
      PROVE  occ'[m][t] = IF m = l /\ t = s THEN v ELSE occ[m][t]
  BY DEF occ, Touch, Board
<1>2. occ \in [Lobby -> [Seat -> User \cup {None}]]
  BY DEF occ, Board, Player
<1>3. occ' = [m \in Lobby |-> [t \in Seat |-> occ'[m][t]]]
  BY DEF occ
<1>4. occ' = [m \in Lobby |-> [t \in Seat |-> IF m = l /\ t = s THEN v ELSE occ[m][t]]]
  BY <1>1, <1>3
<1>5. [occ EXCEPT ![l][s] = v] =
        [m \in Lobby |-> [t \in Seat |-> IF m = l /\ t = s THEN v ELSE occ[m][t]]]
  BY <1>2, UpdateEntry
<1> QED
  BY <1>4, <1>5

LEMMA OccShrinks ==
  ASSUME IInv, NEW l \in Lobby, NEW s \in Seat, players' \in Board, Touch(l, s), Shrinks
  PROVE  Table!Vacate(l, s) \/ occ' = occ
<1>1. players \in Board
  BY DEF IInv, TypeOK, Board
<1> DEFINE v == IF players'[l][s] = None THEN None ELSE players'[l][s].user
<1>2. occ' = [occ EXCEPT ![l][s] = v]
  BY <1>1, OccPut
<1>3. occ \in [Lobby -> [Seat -> User \cup {None}]] /\ None \notin User
  BY <1>1, NoneAssumption DEF occ, Board, Player
<1>4. CASE v = occ[l][s]
  BY <1>2, <1>3, <1>4
<1>5. CASE v # occ[l][s]
  <2>1. v = None /\ occ[l][s] # None
    BY <1>1, <1>5 DEF occ, Shrinks, Board
  <2> QED
    BY <1>2, <2>1 DEF Table!Vacate
<1> QED
  BY <1>4, <1>5

\* Every step opens a room, takes a free seat for a user without one, gives a seat
\* up, or leaves the table as it is.
LEMMA TableStep == IInv /\ [Next]_vars => [Table!Next]_occ
<1> SUFFICES ASSUME IInv, [Next]_vars PROVE [Table!Next]_occ
  OBVIOUS
<1>0. players \in Board
  BY DEF IInv, TypeOK, Board
<1>1. ASSUME NEW u \in User, SetProperties(u) PROVE [Table!Next]_occ
  <2>1. /\ players' \in Board /\ made + 1 \in Lobby
        /\ \A l \in Lobby : l # made + 1 => players'[l] = players[l]
        /\ \A s \in Seat : players'[made + 1][s] =
             IF s = 1 THEN [user |-> u, owner |-> TRUE] ELSE None
    BY <1>1, SetPropertiesEffect
  <2>2. players[made + 1] = Empty /\ 1 \in Seat
    BY <2>1, NAssumption, BoundAssumption DEF IInv, LocalsSet, TypeOK, Seat
  <2>3. [user |-> u, owner |-> TRUE] # None
    <3>1. [user |-> u, owner |-> TRUE] \in Player
      BY DEF Player
    <3> QED
      BY <3>1, NoneAssumption DEF Player
  <2>4. Touch(made + 1, 1)
    BY <2>1, <2>2 DEF Touch, Empty
  <2>5. occ' = [occ EXCEPT ![made + 1][1] = u]
    BY <1>0, <2>1, <2>2, <2>3, <2>4, OccPut
  <2>6. occ[made + 1] = Table!Free
    BY <2>1, <2>2 DEF occ, Empty, Table!Free
  <2> QED
    BY <1>1, <2>1, <2>2, <2>5, <2>6 DEF Table!Next, Table!Open
<1>2. ASSUME NEW c \in Conn, SitPut(c) PROVE [Table!Next]_occ
  <2>1. /\ players' \in Board /\ lob[c] \in Lobby /\ seat[c] \in Seat
        /\ pc[c] = "sitTest" /\ at[c] = N + 1
        /\ Touch(lob[c], seat[c])
        /\ players'[lob[c]][seat[c]] = [user |-> UserOf[c], owner |-> FALSE]
    BY <1>2, SitPutEffect
  <2>2. [user |-> UserOf[c], owner |-> FALSE] # None /\ UserOf[c] \in User
    <3>1. UserOf[c] \in User /\ [user |-> UserOf[c], owner |-> FALSE] \in Player
      BY UserOfAssumption DEF Player
    <3> QED
      BY <3>1, NoneAssumption DEF Player
  <2>3. occ' = [occ EXCEPT ![lob[c]][seat[c]] = UserOf[c]]
    BY <1>0, <2>1, <2>2, OccPut
  <2>4. players[lob[c]][seat[c]] = None
    BY <2>1 DEF IInv, SeatStaysFree, Sitting
  <2>5. \A t \in Seat : ~ Own(c, players[lob[c]][t])
    BY <2>1, NAssumption DEF IInv, Cleared, Sitting, Seat
  <2>6. \A t \in Seat : occ[lob[c]][t] # UserOf[c]
    BY <2>1, <2>2, <2>5, NoneAssumption DEF occ, Own
  <2>7. occ[lob[c]][seat[c]] = None
    BY <2>1, <2>4 DEF occ
  <2>8. Table!Take(lob[c], seat[c], UserOf[c])
    BY <2>3, <2>6, <2>7 DEF Table!Take
  <2> QED
    BY <2>1, <2>2, <2>8 DEF Table!Next
<1>3. ASSUME NEW c \in Conn, SitCmp(c) \/ OffPut(c) \/ OwnSet(c) PROVE [Table!Next]_occ
  <2>1. players' \in Board /\ lob[c] \in Lobby /\ at[c] \in Seat /\ Touch(lob[c], at[c]) /\ Shrinks
    BY <1>3, SitCmpEffect, OffPutEffect, OwnSetEffect
  <2> QED
    BY <2>1, OccShrinks DEF Table!Next
<1>4. CASE players' = players
  BY <1>4 DEF occ
<1> QED
  BY <1>1, <1>2, <1>3, <1>4
  DEF Next, vars, Handler, Quiet, SitRequest, SitEnter, SitRefused, SitTest, SitFails,
      LeaveRequest, LeaveEnter, OffTest, OffCmp, OwnScan, OwnTest,
      LeaveFails, LeaveDrop

LEMMA TableInit == Init => Table!Init
BY DEF Init, Table!Init, Table!Free, occ, Empty

\* The rooms implement the seat table: a seat is taken only when it is free, and
\* only by a user who holds no other seat of that room.
THEOREM SeatsImplementTable == Spec => SeatsRefineTable
BY TableInit, TableStep, IInvHolds, PTL DEF Spec, SeatsRefineTable, Table!Spec

=============================================================================
