------------------------------ MODULE CardPick ------------------------------
(***************************************************************************)
(* The cards of one game room: a message of fileType 82 deals and shuffles *)
(* a new deck (Lobby.init), 83 picks a card by its place, 84 gives a card  *)
(* to every seated player without one (Lobby.overTimePick), while players  *)
(* sit down and leave.                                                     *)
(*                                                                         *)
(* pickUp, overTimePick and setPlayer hold the monitor of the Lobby; init, *)
(* the test of a player's card in 83 and its assignment, and offPlayer do  *)
(* not. Cards and players are objects: a deck that was replaced and a      *)
(* player who lost its seat are still in the hands of the handlers that    *)
(* looked them up. Sitting down is the clearing of the old seat and the    *)
(* filling of the new one, leaving is one step: LobbySeats has the rest,   *)
(* and findPlayer is one step here. The reads of a swap of the shuffle are *)
(* one step with its first write. Places and seats are numbered from 1.    *)
(***************************************************************************)
EXTENDS Naturals

CONSTANTS
  Conn,      \* connections, each with its own event loop
  User,
  UserOf,    \* the user of each connection
  Creator,   \* the user who opened the room
  None,      \* Java's null
  N,         \* seats of the room
  Rest,      \* cards of a deck beyond one for each seat: 3 in the code
  Filled,    \* cards named by the room's properties; the rest of a deck is null
  MaxStart,  \* bound: messages 82
  MaxPlay    \* bound: messages 80 to 84

Place == 1..N+Rest
Seat  == 1..N
Index == 1..N+Rest+1                       \* of the loops, one past the last place
Deck  == 0..MaxStart                        \* deck 0 is the one of setProperties
Card  == [deck : Deck, no : Place]
Player == [user : User, no : 0..MaxPlay]    \* no: the message that made the object

ASSUME UserOfAssumption  == UserOf \in [Conn -> User] /\ Creator \in User
ASSUME NAssumption       == N \in Nat \ {0}
ASSUME FilledAssumption  == Rest \in Nat /\ Filled \in 0..N+Rest
ASSUME BoundAssumption   == MaxStart \in Nat /\ MaxPlay \in Nat
ASSUME NoneAssumption    == None \notin Card \cup Player

VARIABLES
  cards,    \* Lobby.cards: the deck in use
  deck,     \* deck[d][i]: the arrays, those no longer in use too
  picked,   \* the cards whose isPicked is true
  seats,    \* Lobby.players
  held,     \* origanCard of each Player object
  stage,    \* Lobby.stage
  timed,    \* startTime # null
  pc,       \* where the handler of each connection stands
  me,       \* local: the Player of 83, of 80, and of the loop of 84
  mine,     \* local: the deck a loop of 84 iterates, or made in 82
  at,       \* local: the place asked for, the seat of a loop
  k,        \* local: the place of a loop
  temp,     \* local: the card of 83 found, temp of a swap
  clash,    \* history: a pickUp took a card picked before
  short,    \* history: a loop of 84 found no card left for a player
  played    \* messages so far

room  == <<cards, deck, picked, seats, held, stage, timed>>
local == <<me, mine, at, k, temp>>
vars  == <<room, pc, local, clash, short, played>>

InMonitor == {"sitPut", "overSeat", "overCard"}
PCs == {"idle", "sit", "pickUp", "pickSet", "over",
        "fill", "swap", "swapBack", "stage", "time"} \cup InMonitor

TypeOK ==
  /\ cards \in Deck
  /\ deck \in [Deck -> [Place -> Card \cup {None}]]
  /\ picked \subseteq Card
  /\ seats \in [Seat -> Player \cup {None}]
  /\ held \in [Player -> Card \cup {None}]
  /\ stage \in {0, 1} /\ timed \in BOOLEAN
  /\ pc \in [Conn -> PCs]
  /\ me \in [Conn -> Player \cup {None}]
  /\ mine \in [Conn -> Deck]
  /\ at \in [Conn -> Index]
  /\ k \in [Conn -> Index]
  /\ temp \in [Conn -> Card \cup {None}]
  /\ clash \in BOOLEAN /\ short \in BOOLEAN
  /\ played \in 0..MaxPlay

NewCard(d, i) == [deck |-> d, no |-> i]
Blank == [i \in Place |-> None]

Init ==
  /\ cards = 0
  /\ deck = [d \in Deck |-> IF d = 0 THEN [i \in Place |-> IF i <= Filled THEN NewCard(0, i)
                                                                         ELSE None]
                                     ELSE Blank]
  /\ picked = {}
  /\ seats = [s \in Seat |-> IF s = 1 THEN [user |-> Creator, no |-> 0] ELSE None]
  /\ held = [p \in Player |-> None]
  /\ stage = 0 /\ timed = FALSE
  /\ pc = [c \in Conn |-> "idle"]
  /\ me = [c \in Conn |-> None] /\ mine = [c \in Conn |-> 0]
  /\ at = [c \in Conn |-> 1] /\ k = [c \in Conn |-> 1] /\ temp = [c \in Conn |-> None]
  /\ clash = FALSE /\ short = FALSE
  /\ played = 0

-----------------------------------------------------------------------------
Goto(c, from, to) == pc[c] = from /\ pc' = [pc EXCEPT ![c] = to]

\* The handler returns or raises; its locals are gone.
Return(c, from) ==
  /\ Goto(c, from, "idle")
  /\ me' = [me EXCEPT ![c] = None] /\ mine' = [mine EXCEPT ![c] = 0]
  /\ at' = [at EXCEPT ![c] = 1] /\ k' = [k EXCEPT ![c] = 1]
  /\ temp' = [temp EXCEPT ![c] = None]

\* A message for a room that is still bound: the last one to leave closes it.
Message(c) ==
  /\ played < MaxPlay /\ played' = played + 1
  /\ pc[c] = "idle" /\ \E s \in Seat : seats[s] # None

\* Seeded fault: setPlayer is not synchronized.
MonitorFree_NotSit(c) ==
  pc[c] = "sit" \/ \A d \in Conn \ {c} : pc[d] \notin InMonitor

MonitorFree(c) == \A d \in Conn \ {c} : pc[d] \notin InMonitor

IsHis(c, p) == p # None /\ p.user = UserOf[c]

(***************************************************************************)
(* 80 and 81: the seats                                                    *)
(***************************************************************************)
Sit(c, s) ==
  /\ Message(c) /\ Goto(c, "idle", "sit")
  /\ at' = [at EXCEPT ![c] = s]
  /\ me' = [me EXCEPT ![c] = [user |-> UserOf[c], no |-> played']]
  /\ UNCHANGED <<room, mine, k, temp, clash, short>>

SitRefused(c) ==
  /\ pc[c] = "sit" /\ MonitorFree(c) /\ seats[at[c]] # None
  /\ Return(c, "sit")
  /\ UNCHANGED <<room, clash, short, played>>

SitClear(c) ==
  /\ Goto(c, "sit", "sitPut") /\ MonitorFree(c) /\ seats[at[c]] = None
  /\ seats' = [s \in Seat |-> IF IsHis(c, seats[s]) THEN None ELSE seats[s]]
  /\ UNCHANGED <<cards, deck, picked, held, stage, timed, local, clash, short, played>>

\* The new Player object of the mover has no card.
SitPut(c) ==
  /\ pc[c] = "sitPut" /\ Return(c, "sitPut")
  /\ seats' = [seats EXCEPT ![at[c]] = me[c]]
  /\ UNCHANGED <<cards, deck, picked, held, stage, timed, clash, short, played>>

Leave(c) ==
  /\ Message(c)
  /\ seats' = [s \in Seat |-> IF IsHis(c, seats[s]) THEN None ELSE seats[s]]
  /\ UNCHANGED <<cards, deck, picked, held, stage, timed, pc, local, clash, short>>

(***************************************************************************)
(* 82: Lobby.init, no monitor                                              *)
(***************************************************************************)
\* The deck in use is replaced by an array of nulls.
Start(c) ==
  /\ Message(c) /\ cards < MaxStart
  /\ Goto(c, "idle", "fill")
  /\ cards' = cards + 1 /\ mine' = [mine EXCEPT ![c] = cards + 1]
  /\ UNCHANGED <<deck, picked, seats, held, stage, timed, me, at, k, temp, clash, short>>

\* this.cards[i] = a new card, whichever array this.cards is by now.
Fill(c) ==
  /\ pc[c] = "fill" /\ k[c] <= Filled /\ pc' = pc
  /\ deck' = [deck EXCEPT ![cards][k[c]] = NewCard(mine[c], k[c])]
  /\ k' = [k EXCEPT ![c] = @ + 1]
  /\ UNCHANGED <<cards, picked, seats, held, stage, timed, me, mine, at, temp,
                 clash, short, played>>

Shuffle(c) ==
  /\ k[c] = Filled + 1 /\ Goto(c, "fill", "swap")
  /\ k' = [k EXCEPT ![c] = N + Rest]
  /\ UNCHANGED <<room, me, mine, at, temp, clash, short, played>>

\* temp = cards[i]; cards[i] = cards[rand]
Swap(c) ==
  /\ k[c] > 1 /\ Goto(c, "swap", "swapBack")
  /\ \E rand \in 1..k[c] :
       /\ at' = [at EXCEPT ![c] = rand]
       /\ temp' = [temp EXCEPT ![c] = deck[cards][k[c]]]
       /\ deck' = [deck EXCEPT ![cards][k[c]] = deck[cards][rand]]
  /\ UNCHANGED <<cards, picked, seats, held, stage, timed, me, mine, k, clash, short, played>>

\* cards[rand] = temp
SwapBack(c) ==
  /\ Goto(c, "swapBack", "swap")
  /\ deck' = [deck EXCEPT ![cards][at[c]] = temp[c]]
  /\ k' = [k EXCEPT ![c] = @ - 1]
  /\ at' = [at EXCEPT ![c] = 1] /\ temp' = [temp EXCEPT ![c] = None]
  /\ UNCHANGED <<cards, picked, seats, held, stage, timed, me, mine, clash, short, played>>

SetStage(c) ==
  /\ k[c] = 1 /\ Goto(c, "swap", "time")
  /\ stage' = 1
  /\ UNCHANGED <<cards, deck, picked, seats, held, timed, local, clash, short, played>>

SetStartTime(c) ==
  /\ pc[c] = "time" /\ Return(c, "time")
  /\ timed' = TRUE
  /\ UNCHANGED <<cards, deck, picked, seats, held, stage, clash, short, played>>

(***************************************************************************)
(* 83: findPlayer, the test of its card, pickUp, setOriganCard             *)
(***************************************************************************)

\* The user sits nowhere: a NullPointerException; or has a card: nothing to do.
PickNothing(c) ==
  /\ Message(c)
  /\ \A s \in Seat : IsHis(c, seats[s]) => held[seats[s]] # None
  /\ UNCHANGED <<room, pc, local, clash, short>>

Pick(c, i) ==
  /\ Message(c) /\ Goto(c, "idle", "pickUp")
  /\ \E s \in Seat : /\ IsHis(c, seats[s]) /\ held[seats[s]] = None
                     /\ me' = [me EXCEPT ![c] = seats[s]]
  /\ at' = [at EXCEPT ![c] = i]
  /\ UNCHANGED <<room, mine, k, temp, clash, short>>

\* Seeded fault: pickUp does not mark the card.
PickUp_NoMark(c) ==
  /\ Goto(c, "pickUp", "pickSet") /\ MonitorFree(c)
  /\ deck[cards][at[c]] # None
  /\ temp' = [temp EXCEPT ![c] = deck[cards][at[c]]]
  /\ clash' = (clash \/ deck[cards][at[c]] \in picked)
  /\ UNCHANGED <<room, me, mine, at, k, short, played>>

\* The card at that place is marked, picked before or not.
PickUp(c) ==
  /\ Goto(c, "pickUp", "pickSet") /\ MonitorFree(c)
  /\ deck[cards][at[c]] # None
  /\ temp' = [temp EXCEPT ![c] = deck[cards][at[c]]]
  /\ picked' = picked \cup {deck[cards][at[c]]}
  /\ clash' = (clash \/ deck[cards][at[c]] \in picked)
  /\ UNCHANGED <<cards, deck, seats, held, stage, timed, me, mine, at, k, short, played>>

\* A null in the deck: NullPointerException.
PickUpFails(c) ==
  /\ pc[c] = "pickUp" /\ deck[cards][at[c]] = None /\ MonitorFree(c)
  /\ Return(c, "pickUp")
  /\ UNCHANGED <<room, clash, short, played>>

PickSet(c) ==
  /\ pc[c] = "pickSet" /\ Return(c, "pickSet")
  /\ held' = [held EXCEPT ![me[c]] = temp[c]]
  /\ UNCHANGED <<cards, deck, picked, seats, stage, timed, clash, short, played>>

(***************************************************************************)
(* 84: Lobby.overTimePick                                                  *)
(***************************************************************************)
OverTime(c) ==
  /\ Message(c) /\ Goto(c, "idle", "over")
  /\ UNCHANGED <<room, local, clash, short>>

OverEnter(c) ==
  /\ Goto(c, "over", "overSeat") /\ MonitorFree(c)
  /\ UNCHANGED <<room, local, clash, short, played>>

\* The loop over the seats takes the deck in use when it meets a player without a card.
OverSeat(c) ==
  /\ pc[c] = "overSeat" /\ at[c] <= N
  /\ IF seats[at[c]] # None /\ held[seats[at[c]]] = None
     THEN /\ Goto(c, "overSeat", "overCard")
          /\ me' = [me EXCEPT ![c] = seats[at[c]]] /\ mine' = [mine EXCEPT ![c] = cards]
          /\ at' = at
     ELSE at' = [at EXCEPT ![c] = @ + 1] /\ UNCHANGED <<pc, me, mine>>
  /\ UNCHANGED <<room, k, temp, clash, short, played>>

Reach(c) == deck[mine[c]][k[c]]

\* Seeded fault: the loop does not get past a card that was picked.
OverSkip_Stuck(c) ==
  /\ pc[c] = "overCard" /\ k[c] <= N + Rest /\ Reach(c) \in picked /\ pc' = pc
  /\ k' = k
  /\ UNCHANGED <<room, me, mine, at, temp, clash, short, played>>

OverSkip(c) ==
  /\ pc[c] = "overCard" /\ k[c] <= N + Rest /\ Reach(c) \in picked /\ pc' = pc
  /\ k' = [k EXCEPT ![c] = @ + 1]
  /\ UNCHANGED <<room, me, mine, at, temp, clash, short, played>>

\* Seeded fault: the card is given away whether it was picked or not.
OverGive_Any(c) ==
  /\ Goto(c, "overCard", "overSeat")
  /\ k[c] <= N + Rest /\ Reach(c) # None
  /\ picked' = picked \cup {Reach(c)} /\ held' = [held EXCEPT ![me[c]] = Reach(c)]
  /\ k' = [k EXCEPT ![c] = 1] /\ at' = [at EXCEPT ![c] = @ + 1]
  /\ UNCHANGED <<cards, deck, seats, stage, timed, me, mine, temp, clash, short, played>>

OverGive(c) ==
  /\ Goto(c, "overCard", "overSeat")
  /\ k[c] <= N + Rest /\ Reach(c) # None /\ Reach(c) \notin picked
  /\ picked' = picked \cup {Reach(c)} /\ held' = [held EXCEPT ![me[c]] = Reach(c)]
  /\ k' = [k EXCEPT ![c] = 1] /\ at' = [at EXCEPT ![c] = @ + 1]
  /\ UNCHANGED <<cards, deck, seats, stage, timed, me, mine, temp, clash, short, played>>

\* No card is left for this player.
OverNone(c) ==
  /\ k[c] = N + Rest + 1 /\ Goto(c, "overCard", "overSeat")
  /\ short' = TRUE
  /\ k' = [k EXCEPT ![c] = 1] /\ at' = [at EXCEPT ![c] = @ + 1]
  /\ UNCHANGED <<room, me, mine, temp, clash, played>>

\* A null in the deck: NullPointerException.
OverFails(c) ==
  /\ pc[c] = "overCard" /\ k[c] <= N + Rest /\ Reach(c) = None
  /\ Return(c, "overCard")
  /\ UNCHANGED <<room, clash, short, played>>

OverEnd(c) ==
  /\ pc[c] = "overSeat" /\ at[c] = N + 1 /\ Return(c, "overSeat")
  /\ UNCHANGED <<room, clash, short, played>>

-----------------------------------------------------------------------------
Handler(c) ==
  \/ SitRefused(c) \/ SitClear(c) \/ SitPut(c)
  \/ Fill(c) \/ Shuffle(c) \/ Swap(c) \/ SwapBack(c) \/ SetStage(c) \/ SetStartTime(c)
  \/ PickUp(c) \/ PickUpFails(c) \/ PickSet(c)
  \/ OverEnter(c) \/ OverSeat(c) \/ OverSkip(c) \/ OverGive(c) \/ OverNone(c)
  \/ OverFails(c) \/ OverEnd(c)

Receive(c) ==
  \/ \E s \in Seat : Sit(c, s)
  \/ \E i \in Place : Pick(c, i)
  \/ Leave(c) \/ Start(c) \/ PickNothing(c) \/ OverTime(c)

\* Nobody has to send another message.
Quiet ==
  /\ \A c \in Conn : pc[c] = "idle"
  /\ UNCHANGED vars

Next == Quiet \/ \E c \in Conn : Handler(c) \/ Receive(c)

\* Handlers are runnable threads, and a monitor is handed to a waiting one.
Fairness == \A c \in Conn : WF_vars(Handler(c))

Spec == Init /\ [][Next]_vars /\ Fairness

-----------------------------------------------------------------------------
(***************************************************************************)
(* Properties                                                              *)
(***************************************************************************)

\* A card in somebody's hands, or on its way there, is marked: overTimePick relies
\* on the mark alone when it deals, in a deck that 82 may replace under it.
InHandIsPicked ==
  /\ \A p \in Player : held[p] # None => held[p] \in picked
  /\ \A c \in Conn : pc[c] = "pickSet" => temp[c] \in picked

\* Two Player objects share a card only if somebody picked up a card that was
\* picked already: neither overTimePick nor a new deck ever deals one twice.
SharedOnlyByPickUp ==
  ~ clash => \A p, q \in Player : held[p] # None /\ held[p] = held[q] => p = q

\* overTimePick leaves no seat behind it with a player without a card, unless the
\* deck ran out, whoever sits down, leaves or picks meanwhile.
DealtBehind ==
  ~ short => \A c \in Conn : pc[c] \in {"overSeat", "overCard"} =>
    \A s \in Seat : s < at[c] /\ seats[s] # None => held[seats[s]] # None

\* Every message comes to its end.
MessagesEnd == \A c \in Conn : pc[c] # "idle" ~> pc[c] = "idle"

(***************************************************************************)
(* The inductive invariant behind the safety properties                    *)
(***************************************************************************)

\* Loops stay within their arrays, and a handler has the references it uses.
LocalsSet ==
  \A c \in Conn :
    /\ pc[c] \in {"swap", "swapBack"} => k[c] \in Place
    /\ pc[c] = "swapBack" => k[c] > 1
    /\ pc[c] \in {"idle", "over"} => at[c] = 1
    /\ pc[c] = "pickUp" => at[c] \in Place
    /\ pc[c] \in {"pickUp", "pickSet"} => me[c] \in Player
    /\ pc[c] = "overCard" => at[c] \in Seat /\ me[c] \in Player
    /\ pc[c] = "pickSet" => temp[c] # None

\* One handler in the monitor.
Exclusion ==
  \A c, d \in Conn : pc[c] \in InMonitor /\ pc[d] \in InMonitor => c = d

\* The seat of a player that overTimePick serves is still its own, or empty: sitters
\* wait for the monitor.
SeatServed ==
  \A c \in Conn : pc[c] = "overCard" => seats[at[c]] \in {None, me[c]}

\* Without a clash, no card is in two hands, those of picks under way included.
InHandOnce ==
  ~ clash =>
    /\ \A p, q \in Player : held[p] # None /\ held[p] = held[q] => p = q
    /\ \A c \in Conn, p \in Player : pc[c] = "pickSet" => held[p] # temp[c]
    /\ \A c, d \in Conn : pc[c] = "pickSet" /\ pc[d] = "pickSet" /\ temp[c] = temp[d] => c = d

\* The inductive invariant: every card in hand is marked and in one hand, so a card
\* without a mark can be dealt.
IInv == TypeOK /\ LocalsSet /\ Exclusion /\ SeatServed /\ InHandIsPicked /\ InHandOnce /\ DealtBehind
=============================================================================
