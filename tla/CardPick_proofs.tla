-------------------------- MODULE CardPick_proofs --------------------------
(***************************************************************************)
(* The cards of a game room, proved for every number of connections,       *)
(* users, seats, cards and messages: the inductive invariant of CardPick   *)
(* and the safety properties that follow from it. One lemma for each       *)
(* conjunct of IInv says that every action keeps it.                       *)
(***************************************************************************)
EXTENDS CardPick, TLAPS

\* What the loops' bounds have to do with each other.
LEMMA Ranges ==
  /\ 1 \in Index /\ 0 \in Deck
  /\ Seat \subseteq Index /\ Place \subseteq Index /\ N + Rest \in Index
  /\ \A s \in Seat : s + 1 \in Index
  /\ \A i \in Index : i <= N + Rest => i \in Place /\ i + 1 \in Index
  /\ \A i \in Index : i <= N => i \in Seat
  /\ \A i \in Index : i > 1 => i - 1 \in Index
  /\ \A i \in Place : i > 1 => i - 1 \in Place
  /\ N + Rest \in Place
  /\ \A i \in Place : 1..i \subseteq Place
  /\ \A i \in Index : i <= Filled => i \in Place /\ i + 1 \in Index
  /\ \A i \in Index : 1..i \subseteq Index
  /\ played \in 0..MaxPlay /\ played < MaxPlay => played + 1 \in 0..MaxPlay
  /\ cards \in Deck /\ cards < MaxStart => cards + 1 \in Deck
BY NAssumption, FilledAssumption, BoundAssumption DEF Index, Deck, Seat, Place


\* Every action keeps the types.
LEMMA TypeStep == IInv /\ [Next]_vars => TypeOK'
<1> SUFFICES ASSUME IInv, [Next]_vars PROVE TypeOK'
  OBVIOUS
<1> USE DEF IInv, LocalsSet
<1>1. ASSUME NEW c \in Conn, NEW s \in Seat, Sit(c, s) PROVE TypeOK'
  <2>1. cards' \in Deck /\ picked' \subseteq Card /\ stage' \in {0, 1} /\ timed' \in BOOLEAN
    BY <1>1, Ranges DEF Sit, Message, Goto, room, TypeOK
  <2>2. deck' \in [Deck -> [Place -> Card \cup {None}]]
    BY <1>1, Ranges DEF Sit, Message, Goto, room, TypeOK
  <2>3. seats' \in [Seat -> Player \cup {None}] /\ held' \in [Player -> Card \cup {None}]
    BY <1>1, Ranges DEF Sit, Message, Goto, room, TypeOK
  <2>4. pc' \in [Conn -> PCs]
    BY <1>1, Ranges DEF Sit, Message, Goto, room, PCs, InMonitor, TypeOK
  <2>5. me' \in [Conn -> Player \cup {None}]
    <3>1. [user |-> UserOf[c], no |-> played'] \in Player
      BY <1>1, Ranges, UserOfAssumption DEF Sit, Message, TypeOK, Player
    <3> QED
      BY <1>1, <3>1 DEF Sit, TypeOK
  <2>6. mine' \in [Conn -> Deck] /\ temp' \in [Conn -> Card \cup {None}]
    BY <1>1, Ranges DEF Sit, Message, Goto, room, TypeOK
  <2>7. at' \in [Conn -> Index] /\ k' \in [Conn -> Index]
    BY <1>1, Ranges DEF Sit, Message, Goto, room, TypeOK
  <2>8. clash' \in BOOLEAN /\ short' \in BOOLEAN /\ played' \in 0..MaxPlay
    BY <1>1, Ranges DEF Sit, Message, Goto, room, TypeOK
  <2> QED
    BY <2>1, <2>2, <2>3, <2>4, <2>5, <2>6, <2>7, <2>8 DEF TypeOK
<1>2. ASSUME NEW c \in Conn, SitRefused(c) PROVE TypeOK'
  <2>1. cards' \in Deck /\ picked' \subseteq Card /\ stage' \in {0, 1} /\ timed' \in BOOLEAN
    BY <1>2, Ranges DEF SitRefused, Return, room, Goto, TypeOK
  <2>2. deck' \in [Deck -> [Place -> Card \cup {None}]]
    BY <1>2, Ranges DEF SitRefused, Return, room, Goto, TypeOK
  <2>3. seats' \in [Seat -> Player \cup {None}] /\ held' \in [Player -> Card \cup {None}]
    BY <1>2, Ranges DEF SitRefused, Return, room, Goto, TypeOK
  <2>4. pc' \in [Conn -> PCs]
    BY <1>2, Ranges DEF SitRefused, Return, room, Goto, PCs, InMonitor, TypeOK
  <2>5. me' \in [Conn -> Player \cup {None}]
    BY <1>2, Ranges DEF SitRefused, Return, room, Goto, TypeOK
  <2>6. mine' \in [Conn -> Deck] /\ temp' \in [Conn -> Card \cup {None}]
    BY <1>2, Ranges DEF SitRefused, Return, room, Goto, TypeOK
  <2>7. at' \in [Conn -> Index] /\ k' \in [Conn -> Index]
    BY <1>2, Ranges DEF SitRefused, Return, room, Goto, TypeOK
  <2>8. clash' \in BOOLEAN /\ short' \in BOOLEAN /\ played' \in 0..MaxPlay
    BY <1>2, Ranges DEF SitRefused, Return, room, Goto, TypeOK
  <2> QED
    BY <2>1, <2>2, <2>3, <2>4, <2>5, <2>6, <2>7, <2>8 DEF TypeOK
<1>3. ASSUME NEW c \in Conn, SitClear(c) PROVE TypeOK'
  BY <1>3, Ranges DEF SitClear, Goto, MonitorFree, IsHis, local, TypeOK, PCs, InMonitor
<1>4. ASSUME NEW c \in Conn, SitPut(c) PROVE TypeOK'
  <2>1. cards' \in Deck /\ picked' \subseteq Card /\ stage' \in {0, 1} /\ timed' \in BOOLEAN
    BY <1>4, Ranges DEF SitPut, Return, Goto, TypeOK
  <2>2. deck' \in [Deck -> [Place -> Card \cup {None}]]
    BY <1>4, Ranges DEF SitPut, Return, Goto, TypeOK
  <2>3. seats' \in [Seat -> Player \cup {None}] /\ held' \in [Player -> Card \cup {None}]
    BY <1>4, Ranges DEF SitPut, Return, Goto, TypeOK
  <2>4. pc' \in [Conn -> PCs]
    BY <1>4, Ranges DEF SitPut, Return, Goto, PCs, InMonitor, TypeOK
  <2>5. me' \in [Conn -> Player \cup {None}]
    BY <1>4, Ranges DEF SitPut, Return, Goto, TypeOK
  <2>6. mine' \in [Conn -> Deck] /\ temp' \in [Conn -> Card \cup {None}]
    BY <1>4, Ranges DEF SitPut, Return, Goto, TypeOK
  <2>7. at' \in [Conn -> Index] /\ k' \in [Conn -> Index]
    BY <1>4, Ranges DEF SitPut, Return, Goto, TypeOK
  <2>8. clash' \in BOOLEAN /\ short' \in BOOLEAN /\ played' \in 0..MaxPlay
    BY <1>4, Ranges DEF SitPut, Return, Goto, TypeOK
  <2> QED
    BY <2>1, <2>2, <2>3, <2>4, <2>5, <2>6, <2>7, <2>8 DEF TypeOK
<1>5. ASSUME NEW c \in Conn, Leave(c) PROVE TypeOK'
  BY <1>5, Ranges DEF Leave, Message, IsHis, local, TypeOK, PCs, InMonitor
<1>6. ASSUME NEW c \in Conn, Start(c) PROVE TypeOK'
  <2>1. cards' \in Deck /\ picked' \subseteq Card /\ stage' \in {0, 1} /\ timed' \in BOOLEAN
    BY <1>6, Ranges DEF Start, Message, Goto, TypeOK
  <2>2. deck' \in [Deck -> [Place -> Card \cup {None}]]
    BY <1>6, Ranges DEF Start, Message, Goto, TypeOK
  <2>3. seats' \in [Seat -> Player \cup {None}] /\ held' \in [Player -> Card \cup {None}]
    BY <1>6, Ranges DEF Start, Message, Goto, TypeOK
  <2>4. pc' \in [Conn -> PCs]
    BY <1>6, Ranges DEF Start, Message, Goto, PCs, InMonitor, TypeOK
  <2>5. me' \in [Conn -> Player \cup {None}]
    BY <1>6, Ranges DEF Start, Message, Goto, TypeOK
  <2>6. mine' \in [Conn -> Deck] /\ temp' \in [Conn -> Card \cup {None}]
    BY <1>6, Ranges DEF Start, Message, Goto, TypeOK
  <2>7. at' \in [Conn -> Index] /\ k' \in [Conn -> Index]
    BY <1>6, Ranges DEF Start, Message, Goto, TypeOK
  <2>8. clash' \in BOOLEAN /\ short' \in BOOLEAN /\ played' \in 0..MaxPlay
    BY <1>6, Ranges DEF Start, Message, Goto, TypeOK
  <2> QED
    BY <2>1, <2>2, <2>3, <2>4, <2>5, <2>6, <2>7, <2>8 DEF TypeOK
<1>7. ASSUME NEW c \in Conn, Fill(c) PROVE TypeOK'
  <2>1. cards' \in Deck /\ picked' \subseteq Card /\ stage' \in {0, 1} /\ timed' \in BOOLEAN
    BY <1>7, Ranges DEF Fill, NewCard, TypeOK
  <2>2. deck' \in [Deck -> [Place -> Card \cup {None}]]
    <3>1. NewCard(mine[c], k[c]) \in Card
      BY <1>7, Ranges DEF Fill, NewCard, TypeOK, Card
    <3> QED
      BY <1>7, <3>1 DEF Fill, TypeOK
  <2>3. seats' \in [Seat -> Player \cup {None}] /\ held' \in [Player -> Card \cup {None}]
    BY <1>7, Ranges DEF Fill, NewCard, TypeOK
  <2>4. pc' \in [Conn -> PCs]
    BY <1>7, Ranges DEF Fill, NewCard, PCs, InMonitor, TypeOK
  <2>5. me' \in [Conn -> Player \cup {None}]
    BY <1>7, Ranges DEF Fill, NewCard, TypeOK
  <2>6. mine' \in [Conn -> Deck] /\ temp' \in [Conn -> Card \cup {None}]
    BY <1>7, Ranges DEF Fill, NewCard, TypeOK
  <2>7. at' \in [Conn -> Index] /\ k' \in [Conn -> Index]
    <3>1. k[c] + 1 \in Index
      BY <1>7, Ranges DEF Fill, TypeOK
    <3> QED
      BY <1>7, <3>1 DEF Fill, TypeOK
  <2>8. clash' \in BOOLEAN /\ short' \in BOOLEAN /\ played' \in 0..MaxPlay
    BY <1>7, Ranges DEF Fill, NewCard, TypeOK
  <2> QED
    BY <2>1, <2>2, <2>3, <2>4, <2>5, <2>6, <2>7, <2>8 DEF TypeOK
<1>8. ASSUME NEW c \in Conn, Shuffle(c) PROVE TypeOK'
  BY <1>8, Ranges DEF Shuffle, Goto, room, TypeOK, PCs, InMonitor
<1>9. ASSUME NEW c \in Conn, Swap(c) PROVE TypeOK'
  <2>1. cards' \in Deck /\ picked' \subseteq Card /\ stage' \in {0, 1} /\ timed' \in BOOLEAN
    BY <1>9, Ranges DEF Swap, Goto, TypeOK
  <2>2. deck' \in [Deck -> [Place -> Card \cup {None}]]
    <3>1. PICK rand \in 1..k[c] : deck' = [deck EXCEPT ![cards][k[c]] = deck[cards][rand]]
      BY <1>9 DEF Swap
    <3>2. rand \in Place
      BY <1>9, <3>1, Ranges DEF Swap, Goto
    <3> QED
      BY <3>1, <3>2 DEF TypeOK
  <2>3. seats' \in [Seat -> Player \cup {None}] /\ held' \in [Player -> Card \cup {None}]
    BY <1>9, Ranges DEF Swap, Goto, TypeOK
  <2>4. pc' \in [Conn -> PCs]
    BY <1>9, Ranges DEF Swap, Goto, PCs, InMonitor, TypeOK
  <2>5. me' \in [Conn -> Player \cup {None}]
    BY <1>9, Ranges DEF Swap, Goto, TypeOK
  <2>6. mine' \in [Conn -> Deck] /\ temp' \in [Conn -> Card \cup {None}]
    <3>1. k[c] \in Place /\ temp' = [temp EXCEPT ![c] = deck[cards][k[c]]] /\ mine' = mine
      BY <1>9 DEF Swap, Goto
    <3> QED
      BY <3>1 DEF TypeOK
  <2>7. at' \in [Conn -> Index] /\ k' \in [Conn -> Index]
    BY <1>9, Ranges DEF Swap, Goto, TypeOK
  <2>8. clash' \in BOOLEAN /\ short' \in BOOLEAN /\ played' \in 0..MaxPlay
    BY <1>9, Ranges DEF Swap, Goto, TypeOK
  <2> QED
    BY <2>1, <2>2, <2>3, <2>4, <2>5, <2>6, <2>7, <2>8 DEF TypeOK
<1>10. ASSUME NEW c \in Conn, SwapBack(c) PROVE TypeOK'
  <2>1. cards' \in Deck /\ picked' \subseteq Card /\ stage' \in {0, 1} /\ timed' \in BOOLEAN
    BY <1>10, Ranges DEF SwapBack, Goto, TypeOK
  <2>2. deck' \in [Deck -> [Place -> Card \cup {None}]]
    BY <1>10, Ranges DEF SwapBack, Goto, TypeOK
  <2>3. seats' \in [Seat -> Player \cup {None}] /\ held' \in [Player -> Card \cup {None}]
    BY <1>10, Ranges DEF SwapBack, Goto, TypeOK
  <2>4. pc' \in [Conn -> PCs]
    BY <1>10, Ranges DEF SwapBack, Goto, PCs, InMonitor, TypeOK
  <2>5. me' \in [Conn -> Player \cup {None}]
    BY <1>10, Ranges DEF SwapBack, Goto, TypeOK
  <2>6. mine' \in [Conn -> Deck] /\ temp' \in [Conn -> Card \cup {None}]
    BY <1>10, Ranges DEF SwapBack, Goto, TypeOK
  <2>7. at' \in [Conn -> Index] /\ k' \in [Conn -> Index]
    BY <1>10, Ranges DEF SwapBack, Goto, TypeOK
  <2>8. clash' \in BOOLEAN /\ short' \in BOOLEAN /\ played' \in 0..MaxPlay
    BY <1>10, Ranges DEF SwapBack, Goto, TypeOK
  <2> QED
    BY <2>1, <2>2, <2>3, <2>4, <2>5, <2>6, <2>7, <2>8 DEF TypeOK
<1>11. ASSUME NEW c \in Conn, SetStage(c) PROVE TypeOK'
  BY <1>11, Ranges DEF SetStage, Goto, local, TypeOK, PCs, InMonitor
<1>12. ASSUME NEW c \in Conn, SetStartTime(c) PROVE TypeOK'
  <2>1. cards' \in Deck /\ picked' \subseteq Card /\ stage' \in {0, 1} /\ timed' \in BOOLEAN
    BY <1>12, Ranges DEF SetStartTime, Return, Goto, TypeOK
  <2>2. deck' \in [Deck -> [Place -> Card \cup {None}]]
    BY <1>12, Ranges DEF SetStartTime, Return, Goto, TypeOK
  <2>3. seats' \in [Seat -> Player \cup {None}] /\ held' \in [Player -> Card \cup {None}]
    BY <1>12, Ranges DEF SetStartTime, Return, Goto, TypeOK
  <2>4. pc' \in [Conn -> PCs]
    BY <1>12, Ranges DEF SetStartTime, Return, Goto, PCs, InMonitor, TypeOK
  <2>5. me' \in [Conn -> Player \cup {None}]
    BY <1>12, Ranges DEF SetStartTime, Return, Goto, TypeOK
  <2>6. mine' \in [Conn -> Deck] /\ temp' \in [Conn -> Card \cup {None}]
    BY <1>12, Ranges DEF SetStartTime, Return, Goto, TypeOK
  <2>7. at' \in [Conn -> Index] /\ k' \in [Conn -> Index]
    BY <1>12, Ranges DEF SetStartTime, Return, Goto, TypeOK
  <2>8. clash' \in BOOLEAN /\ short' \in BOOLEAN /\ played' \in 0..MaxPlay
    BY <1>12, Ranges DEF SetStartTime, Return, Goto, TypeOK
  <2> QED
    BY <2>1, <2>2, <2>3, <2>4, <2>5, <2>6, <2>7, <2>8 DEF TypeOK
<1>13. ASSUME NEW c \in Conn, PickNothing(c) PROVE TypeOK'
  BY <1>13, Ranges DEF PickNothing, Message, IsHis, room, local, TypeOK, PCs, InMonitor
<1>14. ASSUME NEW c \in Conn, NEW i \in Place, Pick(c, i) PROVE TypeOK'
  <2>1. cards' \in Deck /\ picked' \subseteq Card /\ stage' \in {0, 1} /\ timed' \in BOOLEAN
    BY <1>14, Ranges DEF Pick, Message, Goto, IsHis, room, TypeOK
  <2>2. deck' \in [Deck -> [Place -> Card \cup {None}]]
    BY <1>14, Ranges DEF Pick, Message, Goto, IsHis, room, TypeOK
  <2>3. seats' \in [Seat -> Player \cup {None}] /\ held' \in [Player -> Card \cup {None}]
    BY <1>14, Ranges DEF Pick, Message, Goto, IsHis, room, TypeOK
  <2>4. pc' \in [Conn -> PCs]
    BY <1>14, Ranges DEF Pick, Message, Goto, IsHis, room, PCs, InMonitor, TypeOK
  <2>5. me' \in [Conn -> Player \cup {None}]
    BY <1>14, Ranges DEF Pick, Message, Goto, IsHis, room, TypeOK
  <2>6. mine' \in [Conn -> Deck] /\ temp' \in [Conn -> Card \cup {None}]
    BY <1>14, Ranges DEF Pick, Message, Goto, IsHis, room, TypeOK
  <2>7. at' \in [Conn -> Index] /\ k' \in [Conn -> Index]
    BY <1>14, Ranges DEF Pick, Message, Goto, IsHis, room, TypeOK
  <2>8. clash' \in BOOLEAN /\ short' \in BOOLEAN /\ played' \in 0..MaxPlay
    BY <1>14, Ranges DEF Pick, Message, Goto, IsHis, room, TypeOK
  <2> QED
    BY <2>1, <2>2, <2>3, <2>4, <2>5, <2>6, <2>7, <2>8 DEF TypeOK
<1>15. ASSUME NEW c \in Conn, PickUp(c) PROVE TypeOK'
  <2>1. cards' \in Deck /\ picked' \subseteq Card /\ stage' \in {0, 1} /\ timed' \in BOOLEAN
    <3>1. at[c] \in Place /\ deck[cards][at[c]] \in Card
      BY <1>15 DEF PickUp, Goto, TypeOK
    <3> QED
      BY <1>15, <3>1 DEF PickUp, TypeOK
  <2>2. deck' \in [Deck -> [Place -> Card \cup {None}]]
    BY <1>15, Ranges DEF PickUp, Goto, TypeOK
  <2>3. seats' \in [Seat -> Player \cup {None}] /\ held' \in [Player -> Card \cup {None}]
    BY <1>15, Ranges DEF PickUp, Goto, TypeOK
  <2>4. pc' \in [Conn -> PCs]
    BY <1>15, Ranges DEF PickUp, Goto, PCs, InMonitor, TypeOK
  <2>5. me' \in [Conn -> Player \cup {None}]
    BY <1>15, Ranges DEF PickUp, Goto, TypeOK
  <2>6. mine' \in [Conn -> Deck] /\ temp' \in [Conn -> Card \cup {None}]
    <3>1. at[c] \in Place /\ temp' = [temp EXCEPT ![c] = deck[cards][at[c]]] /\ mine' = mine
      BY <1>15 DEF PickUp, Goto
    <3> QED
      BY <3>1 DEF TypeOK
  <2>7. at' \in [Conn -> Index] /\ k' \in [Conn -> Index]
    BY <1>15, Ranges DEF PickUp, Goto, TypeOK
  <2>8. clash' \in BOOLEAN /\ short' \in BOOLEAN /\ played' \in 0..MaxPlay
    BY <1>15, Ranges DEF PickUp, Goto, TypeOK
  <2> QED
    BY <2>1, <2>2, <2>3, <2>4, <2>5, <2>6, <2>7, <2>8 DEF TypeOK
<1>16. ASSUME NEW c \in Conn, PickUpFails(c) PROVE TypeOK'
  <2>1. cards' \in Deck /\ picked' \subseteq Card /\ stage' \in {0, 1} /\ timed' \in BOOLEAN
    BY <1>16, Ranges DEF PickUpFails, Return, room, Goto, TypeOK
  <2>2. deck' \in [Deck -> [Place -> Card \cup {None}]]
    BY <1>16, Ranges DEF PickUpFails, Return, room, Goto, TypeOK
  <2>3. seats' \in [Seat -> Player \cup {None}] /\ held' \in [Player -> Card \cup {None}]
    BY <1>16, Ranges DEF PickUpFails, Return, room, Goto, TypeOK
  <2>4. pc' \in [Conn -> PCs]
    BY <1>16, Ranges DEF PickUpFails, Return, room, Goto, PCs, InMonitor, TypeOK
  <2>5. me' \in [Conn -> Player \cup {None}]
    BY <1>16, Ranges DEF PickUpFails, Return, room, Goto, TypeOK
  <2>6. mine' \in [Conn -> Deck] /\ temp' \in [Conn -> Card \cup {None}]
    BY <1>16, Ranges DEF PickUpFails, Return, room, Goto, TypeOK
  <2>7. at' \in [Conn -> Index] /\ k' \in [Conn -> Index]
    BY <1>16, Ranges DEF PickUpFails, Return, room, Goto, TypeOK
  <2>8. clash' \in BOOLEAN /\ short' \in BOOLEAN /\ played' \in 0..MaxPlay
    BY <1>16, Ranges DEF PickUpFails, Return, room, Goto, TypeOK
  <2> QED
    BY <2>1, <2>2, <2>3, <2>4, <2>5, <2>6, <2>7, <2>8 DEF TypeOK
<1>17. ASSUME NEW c \in Conn, PickSet(c) PROVE TypeOK'
  <2>1. cards' \in Deck /\ picked' \subseteq Card /\ stage' \in {0, 1} /\ timed' \in BOOLEAN
    BY <1>17, Ranges DEF PickSet, Return, Goto, TypeOK
  <2>2. deck' \in [Deck -> [Place -> Card \cup {None}]]
    BY <1>17, Ranges DEF PickSet, Return, Goto, TypeOK
  <2>3. seats' \in [Seat -> Player \cup {None}] /\ held' \in [Player -> Card \cup {None}]
    BY <1>17, Ranges DEF PickSet, Return, Goto, TypeOK
  <2>4. pc' \in [Conn -> PCs]
    BY <1>17, Ranges DEF PickSet, Return, Goto, PCs, InMonitor, TypeOK
  <2>5. me' \in [Conn -> Player \cup {None}]
    BY <1>17, Ranges DEF PickSet, Return, Goto, TypeOK
  <2>6. mine' \in [Conn -> Deck] /\ temp' \in [Conn -> Card \cup {None}]
    BY <1>17, Ranges DEF PickSet, Return, Goto, TypeOK
  <2>7. at' \in [Conn -> Index] /\ k' \in [Conn -> Index]
    BY <1>17, Ranges DEF PickSet, Return, Goto, TypeOK
  <2>8. clash' \in BOOLEAN /\ short' \in BOOLEAN /\ played' \in 0..MaxPlay
    BY <1>17, Ranges DEF PickSet, Return, Goto, TypeOK
  <2> QED
    BY <2>1, <2>2, <2>3, <2>4, <2>5, <2>6, <2>7, <2>8 DEF TypeOK
<1>18. ASSUME NEW c \in Conn, OverTime(c) PROVE TypeOK'
  BY <1>18, Ranges DEF OverTime, Message, Goto, room, local, TypeOK, PCs, InMonitor
<1>19. ASSUME NEW c \in Conn, OverEnter(c) PROVE TypeOK'
  BY <1>19, Ranges DEF OverEnter, Goto, MonitorFree, room, local, TypeOK, PCs, InMonitor
<1>20. ASSUME NEW c \in Conn, OverSeat(c) PROVE TypeOK'
  <2>1. cards' \in Deck /\ picked' \subseteq Card /\ stage' \in {0, 1} /\ timed' \in BOOLEAN
    BY <1>20, Ranges DEF OverSeat, Goto, room, TypeOK
  <2>2. deck' \in [Deck -> [Place -> Card \cup {None}]]
    BY <1>20, Ranges DEF OverSeat, Goto, room, TypeOK
  <2>3. seats' \in [Seat -> Player \cup {None}] /\ held' \in [Player -> Card \cup {None}]
    BY <1>20, Ranges DEF OverSeat, Goto, room, TypeOK
  <2>4. pc' \in [Conn -> PCs]
    BY <1>20, Ranges DEF OverSeat, Goto, room, PCs, InMonitor, TypeOK
  <2>5. me' \in [Conn -> Player \cup {None}]
    BY <1>20, Ranges DEF OverSeat, Goto, room, TypeOK
  <2>6. mine' \in [Conn -> Deck] /\ temp' \in [Conn -> Card \cup {None}]
    BY <1>20, Ranges DEF OverSeat, Goto, room, TypeOK
  <2>7. at' \in [Conn -> Index] /\ k' \in [Conn -> Index]
    BY <1>20, Ranges DEF OverSeat, Goto, room, TypeOK
  <2>8. clash' \in BOOLEAN /\ short' \in BOOLEAN /\ played' \in 0..MaxPlay
    BY <1>20, Ranges DEF OverSeat, Goto, room, TypeOK
  <2> QED
    BY <2>1, <2>2, <2>3, <2>4, <2>5, <2>6, <2>7, <2>8 DEF TypeOK
<1>21. ASSUME NEW c \in Conn, OverSkip(c) PROVE TypeOK'
  <2>1. cards' \in Deck /\ picked' \subseteq Card /\ stage' \in {0, 1} /\ timed' \in BOOLEAN
    BY <1>21, Ranges DEF OverSkip, Reach, room, TypeOK
  <2>2. deck' \in [Deck -> [Place -> Card \cup {None}]]
    BY <1>21, Ranges DEF OverSkip, Reach, room, TypeOK
  <2>3. seats' \in [Seat -> Player \cup {None}] /\ held' \in [Player -> Card \cup {None}]
    BY <1>21, Ranges DEF OverSkip, Reach, room, TypeOK
  <2>4. pc' \in [Conn -> PCs]
    BY <1>21, Ranges DEF OverSkip, Reach, room, PCs, InMonitor, TypeOK
  <2>5. me' \in [Conn -> Player \cup {None}]
    BY <1>21, Ranges DEF OverSkip, Reach, room, TypeOK
  <2>6. mine' \in [Conn -> Deck] /\ temp' \in [Conn -> Card \cup {None}]
    BY <1>21, Ranges DEF OverSkip, Reach, room, TypeOK
  <2>7. at' \in [Conn -> Index] /\ k' \in [Conn -> Index]
    BY <1>21, Ranges DEF OverSkip, Reach, room, TypeOK
  <2>8. clash' \in BOOLEAN /\ short' \in BOOLEAN /\ played' \in 0..MaxPlay
    BY <1>21, Ranges DEF OverSkip, Reach, room, TypeOK
  <2> QED
    BY <2>1, <2>2, <2>3, <2>4, <2>5, <2>6, <2>7, <2>8 DEF TypeOK
<1>22. ASSUME NEW c \in Conn, OverGive(c) PROVE TypeOK'
  <2>1. cards' \in Deck /\ picked' \subseteq Card /\ stage' \in {0, 1} /\ timed' \in BOOLEAN
    BY <1>22, Ranges DEF OverGive, Goto, Reach, TypeOK
  <2>2. deck' \in [Deck -> [Place -> Card \cup {None}]]
    BY <1>22, Ranges DEF OverGive, Goto, Reach, TypeOK
  <2>3. seats' \in [Seat -> Player \cup {None}] /\ held' \in [Player -> Card \cup {None}]
    BY <1>22, Ranges DEF OverGive, Goto, Reach, TypeOK
  <2>4. pc' \in [Conn -> PCs]
    BY <1>22, Ranges DEF OverGive, Goto, Reach, PCs, InMonitor, TypeOK
  <2>5. me' \in [Conn -> Player \cup {None}]
    BY <1>22, Ranges DEF OverGive, Goto, Reach, TypeOK
  <2>6. mine' \in [Conn -> Deck] /\ temp' \in [Conn -> Card \cup {None}]
    BY <1>22, Ranges DEF OverGive, Goto, Reach, TypeOK
  <2>7. at' \in [Conn -> Index] /\ k' \in [Conn -> Index]
    BY <1>22, Ranges DEF OverGive, Goto, Reach, TypeOK
  <2>8. clash' \in BOOLEAN /\ short' \in BOOLEAN /\ played' \in 0..MaxPlay
    BY <1>22, Ranges DEF OverGive, Goto, Reach, TypeOK
  <2> QED
    BY <2>1, <2>2, <2>3, <2>4, <2>5, <2>6, <2>7, <2>8 DEF TypeOK
<1>23. ASSUME NEW c \in Conn, OverNone(c) PROVE TypeOK'
  <2>1. cards' \in Deck /\ picked' \subseteq Card /\ stage' \in {0, 1} /\ timed' \in BOOLEAN
    BY <1>23, Ranges DEF OverNone, Goto, room, TypeOK
  <2>2. deck' \in [Deck -> [Place -> Card \cup {None}]]
    BY <1>23, Ranges DEF OverNone, Goto, room, TypeOK
  <2>3. seats' \in [Seat -> Player \cup {None}] /\ held' \in [Player -> Card \cup {None}]
    BY <1>23, Ranges DEF OverNone, Goto, room, TypeOK
  <2>4. pc' \in [Conn -> PCs]
    BY <1>23, Ranges DEF OverNone, Goto, room, PCs, InMonitor, TypeOK
  <2>5. me' \in [Conn -> Player \cup {None}]
    BY <1>23, Ranges DEF OverNone, Goto, room, TypeOK
  <2>6. mine' \in [Conn -> Deck] /\ temp' \in [Conn -> Card \cup {None}]
    BY <1>23, Ranges DEF OverNone, Goto, room, TypeOK
  <2>7. at' \in [Conn -> Index] /\ k' \in [Conn -> Index]
    BY <1>23, Ranges DEF OverNone, Goto, room, TypeOK
  <2>8. clash' \in BOOLEAN /\ short' \in BOOLEAN /\ played' \in 0..MaxPlay
    BY <1>23, Ranges DEF OverNone, Goto, room, TypeOK
  <2> QED
    BY <2>1, <2>2, <2>3, <2>4, <2>5, <2>6, <2>7, <2>8 DEF TypeOK
<1>24. ASSUME NEW c \in Conn, OverFails(c) PROVE TypeOK'
  <2>1. cards' \in Deck /\ picked' \subseteq Card /\ stage' \in {0, 1} /\ timed' \in BOOLEAN
    BY <1>24, Ranges DEF OverFails, Return, Reach, room, Goto, TypeOK
  <2>2. deck' \in [Deck -> [Place -> Card \cup {None}]]
    BY <1>24, Ranges DEF OverFails, Return, Reach, room, Goto, TypeOK
  <2>3. seats' \in [Seat -> Player \cup {None}] /\ held' \in [Player -> Card \cup {None}]
    BY <1>24, Ranges DEF OverFails, Return, Reach, room, Goto, TypeOK
  <2>4. pc' \in [Conn -> PCs]
    BY <1>24, Ranges DEF OverFails, Return, Reach, room, Goto, PCs, InMonitor, TypeOK
  <2>5. me' \in [Conn -> Player \cup {None}]
    BY <1>24, Ranges DEF OverFails, Return, Reach, room, Goto, TypeOK
  <2>6. mine' \in [Conn -> Deck] /\ temp' \in [Conn -> Card \cup {None}]
    BY <1>24, Ranges DEF OverFails, Return, Reach, room, Goto, TypeOK
  <2>7. at' \in [Conn -> Index] /\ k' \in [Conn -> Index]
    BY <1>24, Ranges DEF OverFails, Return, Reach, room, Goto, TypeOK
  <2>8. clash' \in BOOLEAN /\ short' \in BOOLEAN /\ played' \in 0..MaxPlay
    BY <1>24, Ranges DEF OverFails, Return, Reach, room, Goto, TypeOK
  <2> QED
    BY <2>1, <2>2, <2>3, <2>4, <2>5, <2>6, <2>7, <2>8 DEF TypeOK
<1>25. ASSUME NEW c \in Conn, OverEnd(c) PROVE TypeOK'
  <2>1. cards' \in Deck /\ picked' \subseteq Card /\ stage' \in {0, 1} /\ timed' \in BOOLEAN
    BY <1>25, Ranges DEF OverEnd, Return, room, Goto, TypeOK
  <2>2. deck' \in [Deck -> [Place -> Card \cup {None}]]
    BY <1>25, Ranges DEF OverEnd, Return, room, Goto, TypeOK
  <2>3. seats' \in [Seat -> Player \cup {None}] /\ held' \in [Player -> Card \cup {None}]
    BY <1>25, Ranges DEF OverEnd, Return, room, Goto, TypeOK
  <2>4. pc' \in [Conn -> PCs]
    BY <1>25, Ranges DEF OverEnd, Return, room, Goto, PCs, InMonitor, TypeOK
  <2>5. me' \in [Conn -> Player \cup {None}]
    BY <1>25, Ranges DEF OverEnd, Return, room, Goto, TypeOK
  <2>6. mine' \in [Conn -> Deck] /\ temp' \in [Conn -> Card \cup {None}]
    BY <1>25, Ranges DEF OverEnd, Return, room, Goto, TypeOK
  <2>7. at' \in [Conn -> Index] /\ k' \in [Conn -> Index]
    BY <1>25, Ranges DEF OverEnd, Return, room, Goto, TypeOK
  <2>8. clash' \in BOOLEAN /\ short' \in BOOLEAN /\ played' \in 0..MaxPlay
    BY <1>25, Ranges DEF OverEnd, Return, room, Goto, TypeOK
  <2> QED
    BY <2>1, <2>2, <2>3, <2>4, <2>5, <2>6, <2>7, <2>8 DEF TypeOK
<1>26. CASE UNCHANGED vars
  BY <1>26 DEF vars, room, local, TypeOK
<1> HIDE DEF IInv, LocalsSet
<1> QED
  BY <1>1, <1>2, <1>3, <1>4, <1>5, <1>6, <1>7, <1>8, <1>9, <1>10, <1>11,
     <1>12, <1>13, <1>14, <1>15, <1>16, <1>17, <1>18, <1>19, <1>20, <1>21,
     <1>22, <1>23, <1>24, <1>25, <1>26
  DEF Next, Handler, Receive, Quiet

\* The references and loop indices are set where they are used.
LEMMA LocalsStep == IInv /\ [Next]_vars => LocalsSet'
<1> SUFFICES ASSUME IInv, [Next]_vars PROVE LocalsSet'
  OBVIOUS
<1> USE Ranges
        DEF IInv, TypeOK, LocalsSet
<1>1. ASSUME NEW c \in Conn,
             (\E s \in Seat : Sit(c, s)) \/ SitRefused(c) \/ SitClear(c) \/
             SitPut(c) \/ Leave(c)
      PROVE  LocalsSet'
  BY <1>1 DEF Sit, SitRefused, SitClear, SitPut, Leave, Message, Goto, room,
              Return, MonitorFree, IsHis, local
<1>2. ASSUME NEW c \in Conn,
             Start(c) \/ Fill(c) \/ Shuffle(c) \/ Swap(c) \/ SwapBack(c) \/
             SetStage(c) \/ SetStartTime(c)
      PROVE  LocalsSet'
  BY <1>2 DEF Start, Fill, Shuffle, Swap, SwapBack, SetStage, SetStartTime,
              Message, Goto, NewCard, room, local, Return
<1>3. ASSUME NEW c \in Conn,
             PickNothing(c) \/ (\E i \in Place : Pick(c, i)) \/
             PickUpFails(c) \/ PickSet(c)
      PROVE  LocalsSet'
  BY <1>3 DEF PickNothing, Pick, PickUpFails, PickSet, Message, IsHis, room,
              local, Goto, Return, MonitorFree
<1>4. ASSUME NEW c \in Conn, PickUp(c) PROVE LocalsSet'
  <2>1. pc' = [pc EXCEPT ![c] = "pickSet"] /\ pc[c] = "pickUp"
    BY <1>4 DEF PickUp, Goto
  <2>2. temp' = [temp EXCEPT ![c] = deck[cards][at[c]]] /\ deck[cards][at[c]] # None
    BY <1>4 DEF PickUp
  <2>3. UNCHANGED <<me, at, k>> /\ me[c] \in Player
    BY <1>4, <2>1 DEF PickUp
  <2> QED
    BY <2>1, <2>2, <2>3 DEF TypeOK
<1>5. ASSUME NEW c \in Conn,
             OverTime(c) \/ OverEnter(c) \/ OverSkip(c) \/ OverGive(c) \/
             OverNone(c) \/ OverFails(c) \/ OverEnd(c)
      PROVE  LocalsSet'
  BY <1>5 DEF OverTime, OverEnter, OverSkip, OverGive, OverNone, OverFails,
              OverEnd, Message, Goto, room, local, MonitorFree, Reach, Return
<1>6. ASSUME NEW c \in Conn, OverSeat(c) PROVE LocalsSet'
  <2>1. CASE seats[at[c]] # None /\ held[seats[at[c]]] = None
    <3>1. at[c] \in Seat /\ seats[at[c]] \in Player
      BY <1>6, <2>1, Ranges DEF OverSeat, TypeOK
    <3>2. /\ pc' = [pc EXCEPT ![c] = "overCard"] /\ me' = [me EXCEPT ![c] = seats[at[c]]]
          /\ UNCHANGED <<at, k, temp>> /\ pc[c] = "overSeat"
      BY <1>6, <2>1 DEF OverSeat, Goto
    <3> QED
      BY <3>1, <3>2 DEF TypeOK
  <2>2. CASE ~ (seats[at[c]] # None /\ held[seats[at[c]]] = None)
    <3>1. /\ at' = [at EXCEPT ![c] = @ + 1] /\ UNCHANGED <<pc, me, k, temp>> /\ pc[c] = "overSeat"
      BY <1>6, <2>2 DEF OverSeat
    <3> QED
      BY <3>1 DEF TypeOK
  <2> QED
    BY <2>1, <2>2
<1>7. CASE UNCHANGED vars
  BY <1>7 DEF vars, room, local
<1> HIDE DEF IInv, TypeOK, LocalsSet
<1> QED
  BY <1>1, <1>2, <1>3, <1>4, <1>5, <1>6, <1>7
  DEF Next, Handler, Receive, Quiet

\* The monitor of the lobby holds one handler.
LEMMA ExclusionStep == IInv /\ [Next]_vars => Exclusion'
<1> SUFFICES ASSUME IInv, [Next]_vars PROVE Exclusion'
  OBVIOUS
<1> USE DEF IInv, TypeOK, Exclusion, InMonitor
<1>1. ASSUME NEW c \in Conn,
             (\E s \in Seat : Sit(c, s)) \/ SitRefused(c) \/ SitClear(c) \/
             SitPut(c) \/ Leave(c)
      PROVE  Exclusion'
  BY <1>1 DEF Sit, SitRefused, SitClear, SitPut, Leave, Message, Goto, room,
              Return, MonitorFree, IsHis, local
<1>2. ASSUME NEW c \in Conn,
             Start(c) \/ Fill(c) \/ Shuffle(c) \/ Swap(c) \/ SwapBack(c) \/
             SetStage(c) \/ SetStartTime(c)
      PROVE  Exclusion'
  BY <1>2 DEF Start, Fill, Shuffle, Swap, SwapBack, SetStage, SetStartTime,
              Message, Goto, NewCard, room, local, Return
<1>3. ASSUME NEW c \in Conn,
             PickNothing(c) \/ (\E i \in Place : Pick(c, i)) \/ PickUp(c) \/
             PickUpFails(c) \/ PickSet(c)
      PROVE  Exclusion'
  BY <1>3 DEF PickNothing, Pick, PickUp, PickUpFails, PickSet, Message,
              IsHis, room, local, Goto, MonitorFree, Return
<1>4. ASSUME NEW c \in Conn,
             OverTime(c) \/ OverEnter(c) \/ OverSeat(c) \/ OverSkip(c) \/
             OverGive(c) \/ OverNone(c) \/ OverFails(c) \/ OverEnd(c)
      PROVE  Exclusion'
  BY <1>4 DEF OverTime, OverEnter, OverSeat, OverSkip, OverGive, OverNone,
              OverFails, OverEnd, Message, Goto, room, local, MonitorFree,
              Reach, Return
<1>5. CASE UNCHANGED vars
  BY <1>5 DEF vars, room, local
<1> HIDE DEF IInv, TypeOK, Exclusion, InMonitor
<1> QED
  BY <1>1, <1>2, <1>3, <1>4, <1>5
  DEF Next, Handler, Receive, Quiet

\* While overTimePick serves a player nobody else takes its seat.
LEMMA ServedStep == IInv /\ [Next]_vars => SeatServed'
<1> SUFFICES ASSUME IInv, [Next]_vars PROVE SeatServed'
  OBVIOUS
<1> USE UserOfAssumption, NAssumption, FilledAssumption, BoundAssumption, NoneAssumption
        DEF IInv, TypeOK, LocalsSet, Exclusion, SeatServed, InMonitor
<1>1. ASSUME NEW c \in Conn,
             (\E s \in Seat : Sit(c, s)) \/ SitRefused(c) \/ SitClear(c) \/
             SitPut(c) \/ Leave(c)
      PROVE  SeatServed'
  BY <1>1 DEF Sit, SitRefused, SitClear, SitPut, Leave, Message, Goto, room,
              Return, MonitorFree, IsHis, local
<1>2. ASSUME NEW c \in Conn,
             Start(c) \/ Fill(c) \/ Shuffle(c) \/ Swap(c) \/ SwapBack(c) \/
             SetStage(c) \/ SetStartTime(c)
      PROVE  SeatServed'
  BY <1>2 DEF Start, Fill, Shuffle, Swap, SwapBack, SetStage, SetStartTime,
              Message, Goto, NewCard, room, local, Return
<1>3. ASSUME NEW c \in Conn,
             PickNothing(c) \/ (\E i \in Place : Pick(c, i)) \/ PickUp(c) \/
             PickUpFails(c) \/ PickSet(c)
      PROVE  SeatServed'
  BY <1>3 DEF PickNothing, Pick, PickUp, PickUpFails, PickSet, Message,
              IsHis, room, local, Goto, MonitorFree, Return
<1>4. ASSUME NEW c \in Conn,
             OverTime(c) \/ OverEnter(c) \/ OverSeat(c) \/ OverSkip(c) \/
             OverGive(c) \/ OverNone(c) \/ OverFails(c) \/ OverEnd(c)
      PROVE  SeatServed'
  BY <1>4 DEF OverTime, OverEnter, OverSeat, OverSkip, OverGive, OverNone,
              OverFails, OverEnd, Message, Goto, room, local, MonitorFree,
              Reach, Return
<1>5. CASE UNCHANGED vars
  BY <1>5 DEF vars, room, local
<1> HIDE DEF IInv, TypeOK, LocalsSet, Exclusion, SeatServed, InMonitor
<1> QED
  BY <1>1, <1>2, <1>3, <1>4, <1>5
  DEF Next, Handler, Receive, Quiet

\* A card is marked before it is handed over, and never unmarked.
LEMMA MarkStep == IInv /\ [Next]_vars => InHandIsPicked'
<1> SUFFICES ASSUME IInv, [Next]_vars PROVE InHandIsPicked'
  OBVIOUS
<1> USE UserOfAssumption, NAssumption, FilledAssumption, BoundAssumption, NoneAssumption
        DEF IInv, TypeOK, LocalsSet, InHandIsPicked
<1>1. ASSUME NEW c \in Conn,
             (\E s \in Seat : Sit(c, s)) \/ SitRefused(c) \/ SitClear(c) \/
             SitPut(c) \/ Leave(c)
      PROVE  InHandIsPicked'
  BY <1>1 DEF Sit, SitRefused, SitClear, SitPut, Leave, Message, Goto, room,
              Return, MonitorFree, IsHis, local
<1>2. ASSUME NEW c \in Conn,
             Start(c) \/ Fill(c) \/ Shuffle(c) \/ Swap(c) \/ SwapBack(c) \/
             SetStage(c) \/ SetStartTime(c)
      PROVE  InHandIsPicked'
  BY <1>2 DEF Start, Fill, Shuffle, Swap, SwapBack, SetStage, SetStartTime,
              Message, Goto, NewCard, room, local, Return
<1>3. ASSUME NEW c \in Conn,
             PickNothing(c) \/ (\E i \in Place : Pick(c, i)) \/ PickUp(c) \/
             PickUpFails(c) \/ PickSet(c)
      PROVE  InHandIsPicked'
  BY <1>3 DEF PickNothing, Pick, PickUp, PickUpFails, PickSet, Message,
              IsHis, room, local, Goto, MonitorFree, Return
<1>4. ASSUME NEW c \in Conn,
             OverTime(c) \/ OverEnter(c) \/ OverSeat(c) \/ OverSkip(c) \/
             OverGive(c) \/ OverNone(c) \/ OverFails(c) \/ OverEnd(c)
      PROVE  InHandIsPicked'
  BY <1>4 DEF OverTime, OverEnter, OverSeat, OverSkip, OverGive, OverNone,
              OverFails, OverEnd, Message, Goto, room, local, MonitorFree,
              Reach, Return
<1>5. CASE UNCHANGED vars
  BY <1>5 DEF vars, room, local
<1> HIDE DEF IInv, TypeOK, LocalsSet, InHandIsPicked
<1> QED
  BY <1>1, <1>2, <1>3, <1>4, <1>5
  DEF Next, Handler, Receive, Quiet

\* A step in which no card changes hands.
LEMMA HandsFrame ==
  ASSUME InHandOnce, UNCHANGED <<held, clash>>,
         \A d \in Conn : pc'[d] = "pickSet" => pc[d] = "pickSet" /\ temp'[d] = temp[d]
  PROVE  InHandOnce'
BY DEF InHandOnce

\* Cards enter a hand unmarked, or leave a clash behind.
LEMMA OnceStep == IInv /\ [Next]_vars => InHandOnce'
<1> SUFFICES ASSUME IInv, [Next]_vars PROVE InHandOnce'
  OBVIOUS
<1> USE UserOfAssumption, NAssumption, FilledAssumption, BoundAssumption, NoneAssumption
        DEF IInv, TypeOK, LocalsSet, InHandIsPicked
<1>1. ASSUME NEW c \in Conn,
             (\E s \in Seat : Sit(c, s)) \/ SitRefused(c) \/ SitClear(c) \/
             SitPut(c) \/ Leave(c)
      PROVE  InHandOnce'
  <2>1. UNCHANGED <<held, clash>>
    BY <1>1 DEF Sit, SitRefused, SitClear, SitPut, Leave, Message, Goto, room,
              Return, MonitorFree, IsHis, local
  <2>2. \A d \in Conn : pc'[d] = "pickSet" => pc[d] = "pickSet" /\ temp'[d] = temp[d]
    BY <1>1 DEF Sit, SitRefused, SitClear, SitPut, Leave, Message, Goto, room,
              Return, MonitorFree, IsHis, local
  <2> QED
    BY <2>1, <2>2, HandsFrame
<1>2. ASSUME NEW c \in Conn,
             Start(c) \/ Fill(c) \/ Shuffle(c) \/ Swap(c) \/ SwapBack(c) \/
             SetStage(c) \/ SetStartTime(c)
      PROVE  InHandOnce'
  <2>1. UNCHANGED <<held, clash>>
    BY <1>2 DEF Start, Fill, Shuffle, Swap, SwapBack, SetStage, SetStartTime,
              Message, Goto, NewCard, room, local, Return
  <2>2. \A d \in Conn : pc'[d] = "pickSet" => pc[d] = "pickSet" /\ temp'[d] = temp[d]
    BY <1>2 DEF Start, Fill, Shuffle, Swap, SwapBack, SetStage, SetStartTime,
              Message, Goto, NewCard, room, local, Return
  <2> QED
    BY <2>1, <2>2, HandsFrame
<1>3. ASSUME NEW c \in Conn,
             PickNothing(c) \/ (\E i \in Place : Pick(c, i)) \/ PickUpFails(c)
      PROVE  InHandOnce'
  <2>1. UNCHANGED <<held, clash>>
    BY <1>3 DEF PickNothing, Pick, PickUpFails, Message, IsHis, room, local,
              Goto, Return, MonitorFree
  <2>2. \A d \in Conn : pc'[d] = "pickSet" => pc[d] = "pickSet" /\ temp'[d] = temp[d]
    BY <1>3 DEF PickNothing, Pick, PickUpFails, Message, IsHis, room, local,
              Goto, Return, MonitorFree
  <2> QED
    BY <2>1, <2>2, HandsFrame
<1>4. ASSUME NEW c \in Conn, PickUp(c) PROVE InHandOnce'
  BY <1>4 DEF InHandOnce, PickUp, Goto, MonitorFree
<1>5. ASSUME NEW c \in Conn, PickSet(c) PROVE InHandOnce'
  BY <1>5 DEF InHandOnce, PickSet, Return, Goto
<1>6. ASSUME NEW c \in Conn,
             OverTime(c) \/ OverEnter(c) \/ OverSeat(c) \/ OverSkip(c) \/
             OverNone(c) \/ OverFails(c) \/ OverEnd(c)
      PROVE  InHandOnce'
  <2>1. UNCHANGED <<held, clash>>
    BY <1>6 DEF OverTime, OverEnter, OverSeat, OverSkip, OverNone, OverFails,
              OverEnd, Message, Goto, room, local, MonitorFree, Reach, Return
  <2>2. \A d \in Conn : pc'[d] = "pickSet" => pc[d] = "pickSet" /\ temp'[d] = temp[d]
    BY <1>6 DEF OverTime, OverEnter, OverSeat, OverSkip, OverNone, OverFails,
              OverEnd, Message, Goto, room, local, MonitorFree, Reach, Return
  <2> QED
    BY <2>1, <2>2, HandsFrame
<1>7. ASSUME NEW c \in Conn, OverGive(c) PROVE InHandOnce'
  BY <1>7 DEF InHandOnce, OverGive, Goto, Reach
<1>8. CASE UNCHANGED vars
  BY <1>8 DEF vars, room, local, InHandOnce
<1> HIDE DEF IInv, TypeOK, LocalsSet, InHandIsPicked
<1> QED
  BY <1>1, <1>2, <1>3, <1>4, <1>5, <1>6, <1>7, <1>8
  DEF Next, Handler, Receive, Quiet

\* The seats overTimePick has passed are served, and nobody sits down on them.
LEMMA BehindStep == IInv /\ [Next]_vars => DealtBehind'
<1> SUFFICES ASSUME IInv, [Next]_vars PROVE DealtBehind'
  OBVIOUS
<1> USE UserOfAssumption, NAssumption, FilledAssumption, BoundAssumption, NoneAssumption
        DEF IInv, TypeOK, LocalsSet, Exclusion, SeatServed, InMonitor,
            DealtBehind, Seat
<1>1. ASSUME NEW c \in Conn,
             (\E s \in Seat : Sit(c, s)) \/ SitRefused(c) \/ SitClear(c) \/
             SitPut(c) \/ Leave(c)
      PROVE  DealtBehind'
  BY <1>1 DEF Sit, SitRefused, SitClear, SitPut, Leave, Message, Goto, room,
              Return, MonitorFree, IsHis, local
<1>2. ASSUME NEW c \in Conn,
             Start(c) \/ Fill(c) \/ Shuffle(c) \/ Swap(c) \/ SwapBack(c) \/
             SetStage(c) \/ SetStartTime(c)
      PROVE  DealtBehind'
  BY <1>2 DEF Start, Fill, Shuffle, Swap, SwapBack, SetStage, SetStartTime,
              Message, Goto, NewCard, room, local, Return
<1>3. ASSUME NEW c \in Conn,
             PickNothing(c) \/ (\E i \in Place : Pick(c, i)) \/ PickUp(c) \/
             PickUpFails(c) \/ PickSet(c)
      PROVE  DealtBehind'
  BY <1>3 DEF PickNothing, Pick, PickUp, PickUpFails, PickSet, Message,
              IsHis, room, local, Goto, MonitorFree, Return
<1>4. ASSUME NEW c \in Conn,
             OverTime(c) \/ OverEnter(c) \/ OverSkip(c) \/ OverGive(c) \/
             OverNone(c) \/ OverFails(c) \/ OverEnd(c)
      PROVE  DealtBehind'
  BY <1>4 DEF OverTime, OverEnter, OverSkip, OverGive, OverNone, OverFails,
              OverEnd, Message, Goto, room, local, MonitorFree, Reach, Return
<1>5. ASSUME NEW c \in Conn, OverSeat(c) PROVE DealtBehind'
  <2> SUFFICES ASSUME ~ short', NEW d \in Conn, pc'[d] \in {"overSeat", "overCard"},
                      NEW s \in Seat, s < at'[d], seats'[s] # None
               PROVE  held'[seats'[s]] # None
    BY DEF DealtBehind
  <2>1. UNCHANGED <<seats, held, short>> /\ pc[c] = "overSeat" /\ at[c] \in 1..N
    BY <1>5 DEF OverSeat, room, Index
  <2>2. CASE s < at[d] /\ pc[d] \in {"overSeat", "overCard"}
    BY <2>1, <2>2
  <2>3. CASE ~ (s < at[d] /\ pc[d] \in {"overSeat", "overCard"})
    <3>1. d = c
      BY <1>5, <2>3 DEF OverSeat, Goto
    <3>2. ~ (seats[at[c]] # None /\ held[seats[at[c]]] = None) /\ at'[c] = at[c] + 1
      BY <1>5, <2>1, <2>3, <3>1 DEF OverSeat
    <3>3. s = at[c]
      BY <2>1, <2>3, <3>1, <3>2
    <3> QED
      BY <2>1, <3>2, <3>3
  <2> QED
    BY <2>2, <2>3
<1>6. CASE UNCHANGED vars
  BY <1>6 DEF vars, room, local
<1> HIDE DEF IInv, TypeOK, LocalsSet, Exclusion, SeatServed, InMonitor,
        DealtBehind, Seat
<1> QED
  BY <1>1, <1>2, <1>3, <1>4, <1>5, <1>6
  DEF Next, Handler, Receive, Quiet

-----------------------------------------------------------------------------
LEMMA InitIInv == Init => IInv
<1> SUFFICES ASSUME Init PROVE IInv
  OBVIOUS
<1> USE UserOfAssumption, BoundAssumption, Ranges DEF Init
<1>1. deck \in [Deck -> [Place -> Card \cup {None}]]
  <2>1. Blank \in [Place -> Card \cup {None}]
    BY DEF Blank
  <2>2. [i \in Place |-> IF i <= Filled THEN NewCard(0, i) ELSE None]
          \in [Place -> Card \cup {None}]
    BY DEF NewCard, Card
  <2> QED
    BY <2>1, <2>2
<1>2. [user |-> Creator, no |-> 0] \in Player
  BY DEF Player
<1>3. TypeOK
  <2>1. /\ cards \in Deck /\ picked \subseteq Card
        /\ stage \in {0, 1} /\ timed \in BOOLEAN
        /\ clash \in BOOLEAN /\ short \in BOOLEAN /\ played \in 0..MaxPlay
    <3>1. 0 \in Deck /\ 0 \in 0..MaxPlay
      OBVIOUS
    <3> QED
      BY <3>1 DEF Init
  <2>2. seats \in [Seat -> Player \cup {None}] /\ held \in [Player -> Card \cup {None}]
    BY <1>2
  <2>3. /\ pc \in [Conn -> PCs] /\ me \in [Conn -> Player \cup {None}] /\ mine \in [Conn -> Deck]
        /\ at \in [Conn -> Index] /\ k \in [Conn -> Index] /\ temp \in [Conn -> Card \cup {None}]
    BY DEF PCs
  <2> QED
    BY <1>1, <2>1, <2>2, <2>3 DEF TypeOK
<1>4. LocalsSet /\ Exclusion /\ SeatServed /\ InHandIsPicked /\ InHandOnce /\ DealtBehind
  BY DEF LocalsSet, Exclusion, SeatServed, InHandIsPicked, InHandOnce, DealtBehind,
         InMonitor
<1> QED
  BY <1>3, <1>4 DEF IInv

\* The invariant holds in every reachable state, whatever the sizes.
THEOREM IInvHolds == Spec => []IInv
<1>1. IInv /\ [Next]_vars => IInv'
  BY TypeStep, LocalsStep, ExclusionStep, ServedStep, MarkStep, OnceStep, BehindStep DEF
                                                                                         IInv
<1> QED
  BY <1>1, InitIInv, PTL DEF Spec

\* Every variable keeps its type.
THEOREM TypeCorrect == Spec => []TypeOK
BY IInvHolds, PTL DEF IInv

\* Every card in somebody's hands, or on its way there, is marked.
THEOREM MarkedInHand == Spec => []InHandIsPicked
BY IInvHolds, PTL DEF IInv

\* Only a pickUp of a marked card puts one card into two hands: neither overTimePick
\* nor a new deck, however the handlers interleave.
THEOREM NoCardDealtTwice == Spec => []SharedOnlyByPickUp
<1>1. IInv => SharedOnlyByPickUp
  BY DEF IInv, InHandOnce, SharedOnlyByPickUp
<1> QED
  BY <1>1, IInvHolds, PTL

\* overTimePick leaves nobody behind it without a card, unless the deck ran out.
THEOREM NobodyLeftOut == Spec => []DealtBehind
BY IInvHolds, PTL DEF IInv
=============================================================================
