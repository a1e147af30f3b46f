----------------------------- MODULE Countdown -----------------------------
(***************************************************************************)
(* The countdown of the game page. Message 82 starts a game: its handler   *)
(* shuffles, sets the stage, sets the official start some seconds ahead    *)
(* and tells every page of the group (GroupMessageRequestHandler, 82). A   *)
(* page that is told asks for the room again (openGame); when the answer   *)
(* says stage 1 it keeps the start time in the one variable inputTime,     *)
(* looks at the clock once and then every second (setInterval), and when   *)
(* the time is up it sends 84, which deals a card to everybody without     *)
(* one.                                                                    *)
(*                                                                         *)
(* A page has one inputTime and one interval for all groups, and remembers *)
(* the handle of the last interval only: setInterval during a countdown    *)
(* leaves one behind that nothing can stop. All intervals run the same     *)
(* function on the same variables, so a page has a current one and perhaps *)
(* some lost ones. Requests are answered in any order.                     *)
(*                                                                         *)
(* A page has one thread. Its alert() stops it: until the user dismisses   *)
(* it no message, answer, interval or click is handled. It is shown for a  *)
(* message 80 or 81, before the room is asked for, for a request that      *)
(* fails or is refused, and for a message to be sent on a closed socket.   *)
(*                                                                         *)
(* Server and pages read one clock, Sec units to the second; the start     *)
(* time is sent without the fraction of the second. Every page's user is   *)
(* in every group. The seats and cards are in LobbySeats and CardPick;     *)
(* here rooms neither open nor close.                                      *)
(***************************************************************************)
EXTENDS Integers, Sequences, SequencesExt

CONSTANTS
  Tab,       \* pages, one connection each
  Group,
  Room,      \* the groups with a room
  Owner,     \* the pages that show the start button
  None,      \* undefined, null
  Sec,       \* clock units of a second
  Lead,      \* seconds from 82 to the official start: 15 in the code
  MaxNow,    \* bound: the clock
  MaxStart,  \* bound: messages 82
  MaxTouch,  \* bound: messages 80, 81 and 83
  MaxMove,   \* bound: other clicks, reloads, closed sockets, failed requests
  MaxDeal    \* bound: messages 84 of a page, and to any, when an interval sends one

Time  == 0..MaxNow
Kind  == {"seat", "82", "83", "84"}    \* seat stands for 80 and 81

ASSUME NamesAssumption == Owner \subseteq Tab /\ Room \subseteq Group /\ None \notin Group \cup Nat
ASSUME ClockAssumption == Sec \in Nat \ {0} /\ Lead \in Nat /\ MaxNow \in Nat
ASSUME BoundAssumption ==
  {MaxStart, MaxTouch, MaxMove, MaxDeal} \subseteq Nat

\* A request for a room under way, and its answer once the room is read; that
\* of a group without a room is an error.
Request == [group : Group]
Answer  == [group : Group, stage : {0, 1}, date : Nat \cup {None}]

VARIABLES
  now,       \* the clock
  stage,     \* Lobby.stage of each group's room
  due,       \* Lobby.startTime
  deck,      \* how often the cards were dealt out and shuffled
  dealt,     \* the deck of the last 84
  pc,        \* where the server's handler of each page's messages stands
  lobby,     \* local: the group the handler works for
  wire,      \* messages of a page to the server, in order
  inbox,     \* messages to a page, in order
  gets,      \* requests and answers of a page under way
  open,      \* the page's socket is open
  inGroup,   \* type = 3
  toGroup,
  panel,     \* the group whose seats are shown
  alert,     \* the page shows an alert
  after,     \* the room it asks for when the alert is dismissed
  inputTime,
  interval,  \* the interval whose handle the page has
  lost,      \* the page has intervals whose handle was overwritten
  starts, touches, moves,    \* so far
  undated,   \* history: an answer of stage 1 had no start time
  moved,     \* history: a page went to another group without a reload
  failed,    \* history: a request failed
  early      \* history: groups dealt to a second or more before the start

room   == <<stage, due, deck, dealt>>
server == <<pc, lobby>>
clock  == <<inputTime, interval, lost>>
told   == <<inbox, alert, after>>
view   == <<open, inGroup, toGroup, panel>>
bounds == <<starts, touches, moves>>
hist   == <<undated, moved, failed, early>>
vars   == <<now, room, server, wire, gets, told, view, clock, bounds, hist>>

TypeOK ==
  /\ now \in Time
  /\ stage \in [Group -> {0, 1}]
  /\ due \in [Group -> Nat \cup {None}]
  /\ deck \in [Group -> Nat] /\ dealt \in [Group -> Nat]
  /\ pc \in [Tab -> {"idle", "stage", "time"}]
  /\ lobby \in [Tab -> Group \cup {None}]
  /\ wire \in [Tab -> Seq(Kind \X Group)]
  /\ gets \in [Tab -> Seq(Request \cup Answer)]
  /\ inbox \in [Tab -> Seq(Kind \X Group)]
  /\ alert \in [Tab -> BOOLEAN] /\ after \in [Tab -> Group \cup {None}]
  /\ open \in [Tab -> BOOLEAN] /\ inGroup \in [Tab -> BOOLEAN]
  /\ toGroup \in [Tab -> Group \cup {None}] /\ panel \in [Tab -> Group \cup {None}]
  /\ inputTime \in [Tab -> Nat \cup {None}]
  /\ interval \in [Tab -> {"none", "running", "cleared"}]
  /\ lost \in [Tab -> BOOLEAN]
  /\ starts \in 0..MaxStart /\ touches \in 0..MaxTouch /\ moves \in 0..MaxMove
  /\ undated \in BOOLEAN /\ moved \in BOOLEAN /\ failed \in BOOLEAN
  /\ early \subseteq Group

Init ==
  /\ now = 0
  /\ stage = [g \in Group |-> 0] /\ due = [g \in Group |-> None]
  /\ deck = [g \in Group |-> 0] /\ dealt = [g \in Group |-> 0]
  /\ pc = [t \in Tab |-> "idle"] /\ lobby = [t \in Tab |-> None]
  /\ wire = [t \in Tab |-> <<>>] /\ gets = [t \in Tab |-> <<>>]
  /\ inbox = [t \in Tab |-> <<>>]
  /\ alert = [t \in Tab |-> FALSE] /\ after = [t \in Tab |-> None]
  /\ open = [t \in Tab |-> TRUE] /\ inGroup = [t \in Tab |-> FALSE]
  /\ toGroup = [t \in Tab |-> None] /\ panel = [t \in Tab |-> None]
  /\ inputTime = [t \in Tab |-> None] /\ interval = [t \in Tab |-> "none"]
  /\ lost = [t \in Tab |-> FALSE]
  /\ starts = 0 /\ touches = 0 /\ moves = 0
  /\ undated = FALSE /\ moved = FALSE /\ failed = FALSE /\ early = {}

-----------------------------------------------------------------------------
(* Messages and requests *)

\* The WebSocket message of a click or of the countdown: to the group of the
\* moment. With type 2 it goes out as a direct message to nobody. On a closed
\* socket it is an alert.
Send(t, kind) ==
  /\ wire' = IF open[t] /\ inGroup[t] THEN [wire EXCEPT ![t] = Append(@, <<kind, toGroup[t]>>)]
                                       ELSE wire
  /\ alert' = [alert EXCEPT ![t] = ~open[t]]

\* The page asks for the room of g.
Ask(t, g) == gets' = [gets EXCEPT ![t] = Append(@, [group |-> g])]

\* The handler writes to the channels of the group, the sender's too.
Tell(T, kind, g) ==
  /\ inbox' = [t \in Tab |-> IF t \in T /\ open[t] THEN Append(inbox[t], <<kind, g>>) ELSE inbox[t]]
  /\ UNCHANGED <<alert, after>>

Take(t, kind) ==
  /\ pc[t] = "idle" /\ wire[t] # <<>>
  /\ Head(wire[t])[1] = kind
  /\ wire' = [wire EXCEPT ![t] = Tail(@)]

\* What new Date makes of the start time sent: no fraction of the second.
Seconds(d) == IF d = None THEN None ELSE (d \div Sec) * Sec

\* Seeded fault: the countdown ends a second before the time.
TimeUp_Early(d) == IF d = None THEN TRUE ELSE d <= now + Sec

\* Not times > 0: a date that is no date is neither before nor after now.
TimeUp(d) == IF d = None THEN TRUE ELSE d <= now

-----------------------------------------------------------------------------
(* The server *)

\* 80 to 84 for a group without a room: the handler raises.
ServeNobody(t) ==
  /\ \E kind \in Kind : Take(t, kind)
  /\ Head(wire[t])[2] \notin Room
  /\ UNCHANGED <<now, room, server, gets, told, view, clock, bounds, hist>>

\* 80, 81 and 83: seats and cards change, and the group is told.
ServeTouch(t) ==
  /\ \E kind \in {"seat", "83"} : Take(t, kind) /\ Tell(Tab, kind, Head(wire[t])[2])
  /\ Head(wire[t])[2] \in Room
  /\ UNCHANGED <<now, room, server, gets, view, clock, bounds, hist>>

\* 82: Lobby.init, then setStage, then setStartTime and the message to the group.
ServeStart(t) ==
  /\ Take(t, "82") /\ Head(wire[t])[2] \in Room
  /\ pc' = [pc EXCEPT ![t] = "stage"]
  /\ lobby' = [lobby EXCEPT ![t] = Head(wire[t])[2]]
  /\ deck' = [deck EXCEPT ![Head(wire[t])[2]] = @ + 1]
  /\ UNCHANGED <<now, stage, due, dealt, gets, told, view, clock, bounds, hist>>

SetStage(t) ==
  /\ pc[t] = "stage" /\ pc' = [pc EXCEPT ![t] = "time"]
  /\ stage' = [stage EXCEPT ![lobby[t]] = 1]
  /\ UNCHANGED <<now, due, deck, dealt, lobby, wire, gets, told, view, clock, bounds, hist>>

\* Seeded fault: the sender is left out, as of the messages other than 8x.
SetStartTime_NotSelf(t) ==
  /\ pc[t] = "time" /\ pc' = [pc EXCEPT ![t] = "idle"]
  /\ lobby' = [lobby EXCEPT ![t] = None]
  /\ due' = [due EXCEPT ![lobby[t]] = now + Lead * Sec]
  /\ Tell(Tab \ {t}, "82", lobby[t])
  /\ UNCHANGED <<now, stage, deck, dealt, wire, gets, view, clock, bounds, hist>>

SetStartTime(t) ==
  /\ pc[t] = "time" /\ pc' = [pc EXCEPT ![t] = "idle"]
  /\ lobby' = [lobby EXCEPT ![t] = None]
  /\ due' = [due EXCEPT ![lobby[t]] = now + Lead * Sec]
  /\ Tell(Tab, "82", lobby[t])
  /\ UNCHANGED <<now, stage, deck, dealt, wire, gets, view, clock, bounds, hist>>

\* The start is not set, or is a second or more ahead.
TooEarly(g) ==
  \/ due[g] = None \/ \E t \in Tab : lobby[t] = g
  \/ now + Sec <= due[g]

\* 84: overTimePick.
ServeDeal(t) ==
  /\ Take(t, "84") /\ Head(wire[t])[2] \in Room
  /\ LET g == Head(wire[t])[2] IN
       /\ dealt' = [dealt EXCEPT ![g] = deck[g]]
       /\ early' = IF TooEarly(g) THEN early \cup {g} ELSE early
       /\ Tell(Tab, "84", g)
  /\ UNCHANGED <<now, stage, due, deck, server, gets, view, clock, bounds, undated, moved, failed>>

\* GameController.getInfo for a request. A group without a room was never
\* started; what its answer says is not looked at.
GetInfo(t, i) ==
  /\ gets[t][i] \in Request
  /\ LET g == gets[t][i].group IN
       /\ gets' = [gets EXCEPT ![t][i] = [group |-> g, stage |-> stage[g], date |-> Seconds(due[g])]]
       /\ undated' = (undated \/ (stage[g] = 1 /\ due[g] = None))
  /\ UNCHANGED <<now, room, server, wire, told, view, clock, bounds, moved, failed, early>>

-----------------------------------------------------------------------------
(* The page: what it is told *)

\* onmessage: the page looks at a message of the group it is in, by the kind.
Hear(t, kinds) ==
  /\ ~alert[t] /\ inbox[t] # <<>>
  /\ Head(inbox[t])[1] \in kinds
  /\ inbox' = [inbox EXCEPT ![t] = Tail(@)]

HearElsewhere(t) ==
  /\ Hear(t, Kind) /\ Head(inbox[t])[2] # toGroup[t]
  /\ UNCHANGED <<now, room, server, wire, gets, alert, after, view, clock, bounds, hist>>

\* 80 and 81: an alert, and when it is dismissed the room is asked for.
HearSeat(t) ==
  /\ Hear(t, {"seat"}) /\ Head(inbox[t])[2] = toGroup[t]
  /\ alert' = [alert EXCEPT ![t] = TRUE]
  /\ after' = [after EXCEPT ![t] = toGroup[t]]
  /\ UNCHANGED <<now, room, server, wire, gets, view, clock, bounds, hist>>

HearRoom(t) ==
  /\ Hear(t, {"82", "83"}) /\ Head(inbox[t])[2] = toGroup[t]
  /\ Ask(t, toGroup[t])
  /\ UNCHANGED <<now, room, server, wire, alert, after, view, clock, bounds, hist>>

\* 84: the room is shown (enterNight); its request is answered at once here, and
\* touches no clock.
HearNight(t) ==
  /\ Hear(t, {"84"}) /\ Head(inbox[t])[2] = toGroup[t]
  /\ panel' = [panel EXCEPT ![t] = toGroup[t]]
  /\ UNCHANGED <<now, room, server, wire, gets, alert, after, open, inGroup, toGroup, clock, bounds, hist>>

Move  == moves < MaxMove /\ moves' = moves + 1
Touch == touches < MaxTouch /\ touches' = touches + 1

\* Or it fails.
NightFails(t) ==
  /\ Move
  /\ Hear(t, {"84"}) /\ Head(inbox[t])[2] = toGroup[t]
  /\ alert' = [alert EXCEPT ![t] = TRUE] /\ failed' = TRUE
  /\ UNCHANGED <<now, room, server, wire, gets, after, view, clock, starts, touches,
                 undated, moved, early>>

OnMessage(t) ==
  HearElsewhere(t) \/ HearSeat(t) \/ HearRoom(t) \/ HearNight(t) \/ NightFails(t)

\* The user dismisses the alert, and the handler that showed it goes on.
Dismiss(t) ==
  /\ alert[t] /\ alert' = [alert EXCEPT ![t] = FALSE]
  /\ after' = [after EXCEPT ![t] = None]
  /\ IF after[t] = None THEN gets' = gets ELSE Ask(t, after[t])
  /\ UNCHANGED <<now, room, server, wire, inbox, view, clock, bounds, hist>>

-----------------------------------------------------------------------------
(* The page: the countdown and the clicks *)

\* openGame's answer: the room is shown. A game that has started sets the date,
\* runs countDown and sets an interval; when the time is up countDown clears the
\* interval before and sends 84.
Arrive(t, i) ==
  /\ ~alert[t] /\ gets[t][i] \in Answer /\ gets[t][i].group \in Room
  /\ gets' = [gets EXCEPT ![t] = RemoveAt(@, i)]
  /\ panel' = [panel EXCEPT ![t] = gets[t][i].group]
  /\ LET a == gets[t][i]
         counts == a.stage = 1
     IN /\ inputTime' = IF counts THEN [inputTime EXCEPT ![t] = a.date] ELSE inputTime
        /\ interval' = IF counts THEN [interval EXCEPT ![t] = "running"] ELSE interval
        /\ lost' = IF counts /\ ~TimeUp(a.date) /\ interval[t] = "running"
                     THEN [lost EXCEPT ![t] = TRUE] ELSE lost
        /\ IF counts /\ TimeUp(a.date) THEN Send(t, "84") ELSE UNCHANGED <<wire, alert>>
  /\ UNCHANGED <<now, room, server, inbox, after, open, inGroup, toGroup, bounds, hist>>

\* The answer is an error: there is no room.
Refused(t, i) ==
  /\ ~alert[t] /\ gets[t][i] \in Answer /\ gets[t][i].group \notin Room
  /\ gets' = [gets EXCEPT ![t] = RemoveAt(@, i)]
  /\ alert' = [alert EXCEPT ![t] = TRUE]
  /\ UNCHANGED <<now, room, server, wire, inbox, after, view, clock, bounds, hist>>

\* The bound on what an interval sends.
Deals(line) == Len(SelectSeq(line, LAMBDA msg : msg[1] = "84"))
Sends(t) == Deals(wire[t]) < MaxDeal /\ \A u \in Tab : Deals(inbox[u]) < MaxDeal

\* Seeded fault: countDown does not clear the interval.
CountDown_NoClear(t) ==
  /\ ~alert[t] /\ (interval[t] = "running" \/ lost[t])
  /\ TimeUp(inputTime[t]) /\ Sends(t)
  /\ Send(t, "84")
  /\ UNCHANGED <<now, room, server, gets, inbox, after, view, clock, bounds, hist>>

\* countDown from an interval when the time is up.
CountDown(t) ==
  /\ ~alert[t] /\ (interval[t] = "running" \/ lost[t])
  /\ TimeUp(inputTime[t]) /\ Sends(t)
  /\ interval' = [interval EXCEPT ![t] = "cleared"]
  /\ Send(t, "84")
  /\ UNCHANGED <<now, room, server, gets, inbox, after, view, inputTime, lost, bounds, hist>>

SelectGroup(t, g) ==
  /\ Move
  /\ toGroup[t] # g \/ ~inGroup[t]
  /\ toGroup' = [toGroup EXCEPT ![t] = g] /\ inGroup' = [inGroup EXCEPT ![t] = TRUE]
  /\ moved' = (moved \/ toGroup[t] \notin {None, g})
  /\ UNCHANGED <<now, room, server, wire, gets, told, open, panel, clock, starts, touches,
                 undated, failed, early>>

SelectUser(t) ==
  /\ Move
  /\ inGroup[t] /\ inGroup' = [inGroup EXCEPT ![t] = FALSE]
  /\ UNCHANGED <<now, room, server, wire, gets, told, open, toGroup, panel, clock, starts, touches, hist>>

\* The link of a message 90.
OpenGame(t) ==
  /\ Move
  /\ toGroup[t] # None /\ Ask(t, toGroup[t])
  /\ UNCHANGED <<now, room, server, wire, told, view, clock, starts, touches, hist>>

\* A seat: 80 to the group of the moment, then the room shown is asked for.
EnterGame(t) ==
  /\ Touch
  /\ panel[t] # None
  /\ Send(t, "seat")
  /\ IF open[t] THEN Ask(t, panel[t]) /\ after' = after
                ELSE after' = [after EXCEPT ![t] = panel[t]] /\ gets' = gets
  /\ UNCHANGED <<now, room, server, inbox, view, clock, starts, moves, hist>>

ExitGame(t) ==
  /\ Touch
  /\ panel[t] # None /\ panel' = [panel EXCEPT ![t] = None]
  /\ Send(t, "seat")
  /\ UNCHANGED <<now, room, server, gets, inbox, after, open, inGroup, toGroup, clock, starts, moves, hist>>

PickCard(t) ==
  /\ Touch
  /\ panel[t] # None /\ Send(t, "83")
  /\ UNCHANGED <<now, room, server, gets, inbox, after, view, clock, starts, moves, hist>>

StartGame(t) ==
  /\ t \in Owner /\ panel[t] # None
  /\ starts < MaxStart /\ starts' = starts + 1
  /\ now + Lead * Sec <= MaxNow
  /\ Send(t, "82")
  /\ UNCHANGED <<now, room, server, gets, inbox, after, view, clock, touches, moves, hist>>

-----------------------------------------------------------------------------
(* What goes wrong *)

\* The messages behind some point are lost with the socket. The page does not
\* connect again.
Cut(t) == \E n \in 0..Len(wire[t]) : wire' = [wire EXCEPT ![t] = SubSeq(@, 1, n)]
CutInbox(t) == \E n \in 0..Len(inbox[t]) : inbox' = [inbox EXCEPT ![t] = SubSeq(@, 1, n)]

Disconnect(t) ==
  /\ Move
  /\ open[t] /\ open' = [open EXCEPT ![t] = FALSE]
  /\ Cut(t) /\ CutInbox(t)
  /\ UNCHANGED <<now, room, server, gets, alert, after, inGroup, toGroup, panel, clock, starts, touches, hist>>

Reload(t) ==
  /\ Move
  /\ Cut(t) /\ open' = [open EXCEPT ![t] = TRUE]
  /\ gets' = [gets EXCEPT ![t] = <<>>] /\ inbox' = [inbox EXCEPT ![t] = <<>>]
  /\ alert' = [alert EXCEPT ![t] = FALSE] /\ after' = [after EXCEPT ![t] = None]
  /\ inGroup' = [inGroup EXCEPT ![t] = FALSE]
  /\ toGroup' = [toGroup EXCEPT ![t] = None] /\ panel' = [panel EXCEPT ![t] = None]
  /\ inputTime' = [inputTime EXCEPT ![t] = None]
  /\ interval' = [interval EXCEPT ![t] = "none"] /\ lost' = [lost EXCEPT ![t] = FALSE]
  /\ UNCHANGED <<now, room, server, starts, touches, hist>>

\* A request fails; the page says so and does not repeat it.
Fail(t, i) ==
  /\ Move
  /\ ~alert[t] /\ alert' = [alert EXCEPT ![t] = TRUE]
  /\ gets' = [gets EXCEPT ![t] = RemoveAt(@, i)]
  /\ failed' = TRUE
  /\ UNCHANGED <<now, room, server, wire, inbox, after, view, clock, starts, touches, undated, moved, early>>

\* The clock stops at its bound, and before it so that a start under way fits.
Starting == \E t \in Tab : pc[t] # "idle" \/ \E i \in 1..Len(wire[t]) : wire[t][i][1] = "82"

Tick ==
  /\ now + 1 + (IF Starting THEN Lead * Sec ELSE 0) <= MaxNow
  /\ now' = now + 1
  /\ UNCHANGED <<room, server, wire, gets, told, view, clock, bounds, hist>>

Serve(t) ==
  \/ ServeNobody(t) \/ ServeTouch(t) \/ ServeStart(t)
  \/ SetStage(t) \/ SetStartTime(t) \/ ServeDeal(t)

Click(t) ==
  /\ ~alert[t]
  /\ \/ \E g \in Group : SelectGroup(t, g)
     \/ SelectUser(t) \/ OpenGame(t) \/ EnterGame(t) \/ ExitGame(t) \/ PickCard(t) \/ StartGame(t)

Get(t, i) == GetInfo(t, i) \/ Arrive(t, i) \/ Refused(t, i) \/ Fail(t, i)

Next ==
  \/ Tick
  \/ \E t \in Tab : \/ Serve(t) \/ OnMessage(t) \/ Dismiss(t) \/ Click(t)
                    \/ CountDown(t) \/ Disconnect(t) \/ Reload(t)
                    \/ \E i \in 1..Len(gets[t]) : Get(t, i)

\* The event loops and the servlets keep running, a page does as long as it shows
\* no alert, and no request waits forever behind later ones. Nothing makes the
\* user dismiss an alert.
Asks(t) == Len(gets[t]) > 0

Fairness ==
  /\ WF_vars(Tick)
  /\ \A t \in Tab :
       /\ WF_vars(Serve(t)) /\ WF_vars(OnMessage(t)) /\ WF_vars(CountDown(t))
       /\ WF_vars(Asks(t) /\ GetInfo(t, 1))
       /\ WF_vars(Asks(t) /\ (Arrive(t, 1) \/ Refused(t, 1)))

Spec == Init /\ [][Next]_vars /\ Fairness

-----------------------------------------------------------------------------
(* Properties *)

\* The room has been started once at most, no page has gone to another group
\* and none has asked between setStage and setStartTime.
FirstGame(g) == deck[g] <= 1 /\ ~undated /\ ~moved

\* As long as this is so, nobody in the room is dealt a card a second or more
\* before the official start.
FirstGameOnTime == \A g \in Group : FirstGame(g) => g \notin early

\* Why: in the first game a room has one start time, set when nothing counts to
\* it yet, and a page's requests, its room and its date belong to its group.
StartedOnce ==
  /\ \A u \in Tab : (lobby[u] = None) <=> (pc[u] = "idle")
  /\ \A u \in Tab, g \in Group : lobby[u] = g =>
       /\ deck[g] >= 1
       /\ deck[g] = 1 => due[g] = None /\ \A v \in Tab : lobby[v] = g => v = u
  /\ \A g \in Group : deck[g] = 0 => due[g] = None /\ stage[g] = 0

AtHome ==
  /\ \A t \in Tab : inGroup[t] => toGroup[t] # None
  /\ ~moved => \A t \in Tab :
       /\ panel[t] \in {None, toGroup[t]} /\ after[t] \in {None, toGroup[t]}
       /\ \A i \in 1..Len(gets[t]) : gets[t][i].group = toGroup[t]

AnswersDated ==
  \A t \in Tab, g \in Group : \A i \in 1..Len(gets[t]) :
    gets[t][i] \in Answer /\ gets[t][i].group = g /\ gets[t][i].stage = 1 /\ FirstGame(g) =>
      due[g] # None /\ gets[t][i].date = Seconds(due[g])

CountsToStart ==
  \A t \in Tab : interval[t] = "running" \/ lost[t] =>
    /\ ~moved => toGroup[t] # None
    /\ \A g \in Group : toGroup[t] = g /\ FirstGame(g) =>
         due[g] # None /\ inputTime[t] = Seconds(due[g])

DealsInTime ==
  \A t \in Tab, g \in Group : \A i \in 1..Len(wire[t]) :
    wire[t][i] = <<"84", g>> /\ FirstGame(g) => due[g] # None /\ Seconds(due[g]) <= now

IInv == /\ TypeOK /\ StartedOnce /\ AtHome /\ AnswersDated /\ CountsToStart /\ DealsInTime
        /\ FirstGameOnTime

\* A page that looks at the group when the start is told has the cards dealt,
\* unless it is taken away from the group, a request fails, or its user leaves
\* an alert open for ever: one of a seat taken or left is enough.
Stays(t, g) == open[t] /\ inGroup[t] /\ toGroup[t] = g /\ ~failed
StartIsDealt ==
  \A t \in Tab, g \in Room :
    []<>~alert[t] =>
      ((\E u \in Tab : pc[u] = "time" /\ lobby[u] = g) /\ Stays(t, g)
         ~> (stage[g] = 1 /\ dealt[g] = deck[g]) \/ ~Stays(t, g))

\* The pages stop sending 84 once a game is over, unless one of them has lost
\* an interval.
SilentUnlessLost ==
  <>(\E t \in Tab : lost[t]) \/ <>[](\A t \in Tab : wire[t] = <<>>)
=============================================================================
