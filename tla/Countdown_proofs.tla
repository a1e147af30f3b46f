------------------------- MODULE Countdown_proofs -------------------------
(***************************************************************************)
(* The countdown of the game page, proved for every number of pages and    *)
(* groups: the inductive invariant of Countdown and what follows from it.  *)
(* First what the sequences hold, then what a step can do to the requests, *)
(* the messages and the history, then one lemma for each conjunct of IInv. *)
(***************************************************************************)
EXTENDS Countdown, TLAPS

\* A date without its fraction is at most a second before the date.
LEMMA SecondsBelow ==
  ASSUME NEW d \in Nat
  PROVE  Seconds(d) \in Nat /\ Seconds(d) <= d /\ d < Seconds(d) + Sec
<1>1. d \div Sec \in Nat /\ d % Sec \in 0..Sec-1 /\ d = Sec * (d \div Sec) + (d % Sec)
  BY ClockAssumption
<1>2. (d \div Sec) * Sec = Sec * (d \div Sec) /\ (d \div Sec) * Sec \in Nat
  BY <1>1, ClockAssumption
<1>3. Seconds(d) = (d \div Sec) * Sec
  BY NamesAssumption DEF Seconds
<1>4. PICK q \in Nat, r \in 0..Sec-1 : q = (d \div Sec) * Sec /\ d = q + r
  BY <1>1, <1>2
<1>5. q <= d /\ d < q + Sec
  BY <1>4, ClockAssumption
<1> QED
  BY <1>3, <1>4, <1>5

\* What a sequence holds after an element is added, taken or replaced.
LEMMA Appended ==
  ASSUME NEW S, NEW s \in Seq(S), NEW e \in S
  PROVE  /\ Append(s, e) \in Seq(S)
         /\ \A i \in 1..Len(Append(s, e)) : Append(s, e)[i] = e \/ \E j \in 1..Len(s) : Append(s, e)[i] = s[j]
OBVIOUS

LEMMA Shortened ==
  ASSUME NEW S, NEW s \in Seq(S)
  PROVE  /\ s # <<>> => /\ Head(s) = s[1] /\ 1 \in 1..Len(s) /\ Head(s) \in S
                       /\ Tail(s) \in Seq(S)
                       /\ \A i \in 1..Len(Tail(s)) : \E j \in 1..Len(s) : Tail(s)[i] = s[j]
         /\ \A n \in 0..Len(s) : /\ SubSeq(s, 1, n) \in Seq(S)
                                 /\ \A i \in 1..Len(SubSeq(s, 1, n)) :
                                      \E j \in 1..Len(s) : SubSeq(s, 1, n)[i] = s[j]
         /\ \A n \in 1..Len(s) : /\ RemoveAt(s, n) \in Seq(S)
                                 /\ \A i \in 1..Len(RemoveAt(s, n)) :
                                      \E j \in 1..Len(s) : RemoveAt(s, n)[i] = s[j]
<1>1. ASSUME s # <<>> PROVE /\ Head(s) = s[1] /\ 1 \in 1..Len(s) /\ Head(s) \in S
                           /\ Tail(s) \in Seq(S)
                           /\ \A i \in 1..Len(Tail(s)) : Tail(s)[i] = s[i+1] /\ i+1 \in 1..Len(s)
  BY <1>1
<1>2. ASSUME NEW n \in 0..Len(s)
      PROVE  /\ SubSeq(s, 1, n) \in Seq(S)
             /\ \A i \in 1..Len(SubSeq(s, 1, n)) : SubSeq(s, 1, n)[i] = s[i] /\ i \in 1..Len(s)
  OBVIOUS
<1>3. ASSUME NEW n \in 1..Len(s)
      PROVE  /\ RemoveAt(s, n) \in Seq(S)
             /\ \A i \in 1..Len(RemoveAt(s, n)) :
                  \E j \in 1..Len(s) : RemoveAt(s, n)[i] = s[j]
  <2> DEFINE a == SubSeq(s, 1, n-1)
             b == SubSeq(s, n+1, Len(s))
  <2>1. a \in Seq(S) /\ Len(a) = n-1 /\ \A i \in 1..n-1 : a[i] = s[i]
    OBVIOUS
  <2>2. b \in Seq(S) /\ Len(b) = Len(s)-n /\ \A i \in 1..Len(s)-n : b[i] = s[i+n]
    OBVIOUS
  <2>3. RemoveAt(s, n) = a \o b
    BY DEF RemoveAt
  <2> HIDE DEF a, b
  <2>4. a \o b \in Seq(S)
    BY <2>1, <2>2
  <2>6. Len(a \o b) = Len(s)-1
    BY <2>1, <2>2
  <2>5. ASSUME NEW i \in 1..Len(s)-1 PROVE (a \o b)[i] = IF i < n THEN s[i] ELSE s[i+1]
    BY <2>1, <2>2
  <2> QED
    <3>1. \A i \in 1..Len(s)-1 : i \in 1..Len(s) /\ i+1 \in 1..Len(s)
      OBVIOUS
    <3> QED
      BY <2>3, <2>4, <2>5, <2>6, <3>1
<1> QED
  BY <1>1, <1>2, <1>3

\* The messages, requests and answers under way, by their parts.
LEMMA Taken ==
  ASSUME TypeOK, NEW u \in Tab, wire[u] # <<>>
  PROVE  /\ Head(wire[u])[1] \in Kind /\ Head(wire[u])[2] \in Group
         /\ Tail(wire[u]) \in Seq(Kind \X Group)
<1>1. wire[u] \in Seq(Kind \X Group)
  BY DEF TypeOK
<1>2. Head(wire[u]) \in Kind \X Group /\ Tail(wire[u]) \in Seq(Kind \X Group)
  BY <1>1
<1> QED
  BY <1>2

LEMMA CutShort ==
  ASSUME TypeOK, NEW u \in Tab, NEW n \in 0..Len(wire[u])
  PROVE  SubSeq(wire[u], 1, n) \in Seq(Kind \X Group)
BY Shortened DEF TypeOK

LEMMA Sent ==
  ASSUME TypeOK, AtHome, NEW u \in Tab, NEW kind \in Kind, inGroup[u]
  PROVE  Append(wire[u], <<kind, toGroup[u]>>) \in Seq(Kind \X Group)
<1>1. wire[u] \in Seq(Kind \X Group) /\ <<kind, toGroup[u]>> \in Kind \X Group
  BY DEF TypeOK, AtHome
<1> QED
  BY <1>1

LEMMA Asked ==
  ASSUME TypeOK, NEW u \in Tab, NEW g \in Group
  PROVE  Append(gets[u], [group |-> g]) \in Seq(Request \cup Answer)
<1>1. gets[u] \in Seq(Request \cup Answer) /\ [group |-> g] \in Request
  BY DEF TypeOK, Request
<1> QED
  BY <1>1

LEMMA UnderWay ==
  ASSUME TypeOK, NEW u \in Tab, NEW n \in 1..Len(gets[u])
  PROVE  /\ gets[u][n] \in Request \cup Answer /\ gets[u][n].group \in Group
         /\ gets[u][n] \in Answer => gets[u][n].stage \in {0, 1} /\ gets[u][n].date \in Nat \cup {None}
<1>1. gets[u][n] \in Request \cup Answer
  BY DEF TypeOK
<1> QED
  BY <1>1 DEF Request, Answer

LEMMA Dropped ==
  ASSUME TypeOK, NEW u \in Tab, NEW n \in 1..Len(gets[u])
  PROVE  RemoveAt(gets[u], n) \in Seq(Request \cup Answer)
BY Shortened DEF TypeOK

LEMMA Answered ==
  ASSUME TypeOK, NEW u \in Tab, NEW n \in 1..Len(gets[u]), NEW e \in Answer
  PROVE  [gets[u] EXCEPT ![n] = e] \in Seq(Request \cup Answer)
BY DEF TypeOK

LEMMA Heard ==
  ASSUME TypeOK, NEW u \in Tab
  PROVE  /\ inbox[u] # <<>> => Head(inbox[u])[2] \in Group /\ Tail(inbox[u]) \in Seq(Kind \X Group)
         /\ \A n \in 0..Len(inbox[u]) : SubSeq(inbox[u], 1, n) \in Seq(Kind \X Group)
         /\ \A kind \in Kind, g \in Group : Append(inbox[u], <<kind, g>>) \in Seq(Kind \X Group)
<1>1. inbox[u] \in Seq(Kind \X Group)
  BY DEF TypeOK
<1>2. inbox[u] # <<>> => Head(inbox[u]) \in Kind \X Group /\ Tail(inbox[u]) \in Seq(Kind \X Group)
  BY <1>1
<1>3. \A n \in 0..Len(inbox[u]) : SubSeq(inbox[u], 1, n) \in Seq(Kind \X Group)
  BY <1>1, Shortened
<1>4. \A kind \in Kind, g \in Group : Append(inbox[u], <<kind, g>>) \in Seq(Kind \X Group)
  <2>1. \A kind \in Kind, g \in Group : <<kind, g>> \in Kind \X Group
    OBVIOUS
  <2> QED
    BY <1>1, <2>1, Appended
<1> QED
  BY <1>2, <1>3, <1>4

\* The action that changes the clock, ...
LEMMA NowMove ==
  [Next]_vars =>
    \/ UNCHANGED <<now>>
    \/ Tick
<1> DEFINE Same == UNCHANGED <<now>>
<1> USE DEF room, server, told, view, clock, bounds, hist
<1>1. ASSUME NEW t \in Tab, Serve(t) PROVE Same
  BY <1>1 DEF Serve, ServeNobody, ServeTouch, ServeStart, SetStage, SetStartTime, ServeDeal
<1>2. ASSUME NEW t \in Tab, OnMessage(t) PROVE Same
  BY <1>2 DEF OnMessage, HearElsewhere, HearSeat, HearRoom, HearNight, NightFails
<1>3. ASSUME NEW t \in Tab, Dismiss(t) PROVE Same
  BY <1>3 DEF Dismiss
<1>4. ASSUME NEW t \in Tab, Click(t) PROVE Same
  BY <1>4 DEF Click, SelectGroup, SelectUser, OpenGame, EnterGame, ExitGame, PickCard, StartGame
<1>5. ASSUME NEW t \in Tab, CountDown(t) PROVE Same
  BY <1>5 DEF CountDown
<1>6. ASSUME NEW t \in Tab, Disconnect(t) PROVE Same
  BY <1>6 DEF Disconnect
<1>7. ASSUME NEW t \in Tab, Reload(t) PROVE Same
  BY <1>7 DEF Reload
<1>8. ASSUME NEW t \in Tab, NEW i \in 1..Len(gets[t]), Get(t, i) PROVE Same
  BY <1>8 DEF Get, GetInfo, Arrive, Refused, Fail
<1>9. ASSUME UNCHANGED vars PROVE Same
  BY <1>9 DEF vars
<1> QED
  BY <1>1, <1>2, <1>3, <1>4, <1>5, <1>6, <1>7, <1>8, <1>9 DEF Next

\* ... the deck dealt, ...
LEMMA DealtMove ==
  [Next]_vars =>
    \/ UNCHANGED <<dealt>>
    \/ \E t \in Tab : ServeDeal(t)
<1> DEFINE Same == UNCHANGED <<dealt>>
<1> USE DEF room, server, told, view, clock, bounds, hist
<1>1. ASSUME Tick PROVE Same
  BY <1>1 DEF Tick
<1>2. ASSUME NEW t \in Tab, Serve(t) PROVE Same \/ ServeDeal(t)
  BY <1>2 DEF Serve, ServeNobody, ServeTouch, ServeStart, SetStage, SetStartTime
<1>3. ASSUME NEW t \in Tab, OnMessage(t) PROVE Same
  BY <1>3 DEF OnMessage, HearElsewhere, HearSeat, HearRoom, HearNight, NightFails
<1>4. ASSUME NEW t \in Tab, Dismiss(t) PROVE Same
  BY <1>4 DEF Dismiss
<1>5. ASSUME NEW t \in Tab, Click(t) PROVE Same
  BY <1>5 DEF Click, SelectGroup, SelectUser, OpenGame, EnterGame, ExitGame, PickCard, StartGame
<1>6. ASSUME NEW t \in Tab, CountDown(t) PROVE Same
  BY <1>6 DEF CountDown
<1>7. ASSUME NEW t \in Tab, Disconnect(t) PROVE Same
  BY <1>7 DEF Disconnect
<1>8. ASSUME NEW t \in Tab, Reload(t) PROVE Same
  BY <1>8 DEF Reload
<1>9. ASSUME NEW t \in Tab, NEW i \in 1..Len(gets[t]), Get(t, i) PROVE Same
  BY <1>9 DEF Get, GetInfo, Arrive, Refused, Fail
<1>10. ASSUME UNCHANGED vars PROVE Same
  BY <1>10 DEF vars
<1> QED
  BY <1>1, <1>2, <1>3, <1>4, <1>5, <1>6, <1>7, <1>8, <1>9, <1>10 DEF Next

\* ... the rest of the room and the handler's place in it, ...
LEMMA RoomChange ==
  [Next]_vars =>
    \/ UNCHANGED <<pc, lobby, deck, due, stage>>
    \/ \E t \in Tab : ServeStart(t) \/ SetStage(t) \/ SetStartTime(t)
<1> DEFINE Same == UNCHANGED <<pc, lobby, deck, due, stage>>
<1> USE DEF room, server, told, view, clock, bounds, hist
<1>1. ASSUME Tick PROVE Same
  BY <1>1 DEF Tick
<1>2. ASSUME NEW t \in Tab, Serve(t) PROVE Same \/ ServeStart(t) \/ SetStage(t) \/ SetStartTime(t)
  BY <1>2 DEF Serve, ServeNobody, ServeTouch, ServeDeal
<1>3. ASSUME NEW t \in Tab, OnMessage(t) PROVE Same
  BY <1>3 DEF OnMessage, HearElsewhere, HearSeat, HearRoom, HearNight, NightFails
<1>4. ASSUME NEW t \in Tab, Dismiss(t) PROVE Same
  BY <1>4 DEF Dismiss
<1>5. ASSUME NEW t \in Tab, Click(t) PROVE Same
  BY <1>5 DEF Click, SelectGroup, SelectUser, OpenGame, EnterGame, ExitGame, PickCard, StartGame
<1>6. ASSUME NEW t \in Tab, CountDown(t) PROVE Same
  BY <1>6 DEF CountDown
<1>7. ASSUME NEW t \in Tab, Disconnect(t) PROVE Same
  BY <1>7 DEF Disconnect
<1>8. ASSUME NEW t \in Tab, Reload(t) PROVE Same
  BY <1>8 DEF Reload
<1>9. ASSUME NEW t \in Tab, NEW i \in 1..Len(gets[t]), Get(t, i) PROVE Same
  BY <1>9 DEF Get, GetInfo, Arrive, Refused, Fail
<1>10. ASSUME UNCHANGED vars PROVE Same
  BY <1>10 DEF vars
<1> QED
  BY <1>1, <1>2, <1>3, <1>4, <1>5, <1>6, <1>7, <1>8, <1>9, <1>10 DEF Next

\* ... what has happened, ...
LEMMA PastChange ==
  [Next]_vars =>
    \/ UNCHANGED <<undated, moved>>
    \/ \E t \in Tab : \/ \E g \in Group : SelectGroup(t, g)
                      \/ \E i \in 1..Len(gets[t]) : GetInfo(t, i)
<1> DEFINE Same == UNCHANGED <<undated, moved>>
<1> USE DEF room, server, told, view, clock, bounds, hist
<1>1. ASSUME Tick PROVE Same
  BY <1>1 DEF Tick
<1>2. ASSUME NEW t \in Tab, Serve(t) PROVE Same
  BY <1>2 DEF Serve, ServeNobody, ServeTouch, ServeStart, SetStage, SetStartTime, ServeDeal
<1>3. ASSUME NEW t \in Tab, OnMessage(t) PROVE Same
  BY <1>3 DEF OnMessage, HearElsewhere, HearSeat, HearRoom, HearNight, NightFails
<1>4. ASSUME NEW t \in Tab, Dismiss(t) PROVE Same
  BY <1>4 DEF Dismiss
<1>5. ASSUME NEW t \in Tab, Click(t) PROVE Same \/ (\E g \in Group : SelectGroup(t, g))
  BY <1>5 DEF Click, SelectUser, OpenGame, EnterGame, ExitGame, PickCard, StartGame
<1>6. ASSUME NEW t \in Tab, CountDown(t) PROVE Same
  BY <1>6 DEF CountDown
<1>7. ASSUME NEW t \in Tab, Disconnect(t) PROVE Same
  BY <1>7 DEF Disconnect
<1>8. ASSUME NEW t \in Tab, Reload(t) PROVE Same
  BY <1>8 DEF Reload
<1>9. ASSUME NEW t \in Tab, NEW i \in 1..Len(gets[t]), Get(t, i) PROVE Same \/ GetInfo(t, i)
  BY <1>9 DEF Get, Arrive, Refused, Fail
<1>10. ASSUME UNCHANGED vars PROVE Same
  BY <1>10 DEF vars
<1> QED
  BY <1>1, <1>2, <1>3, <1>4, <1>5, <1>6, <1>7, <1>8, <1>9, <1>10 DEF Next

\* ... the early deals, ...
LEMMA EarlyChange ==
  [Next]_vars =>
    \/ UNCHANGED <<early>>
    \/ \E t \in Tab : ServeDeal(t)
<1> DEFINE Same == UNCHANGED <<early>>
<1> USE DEF room, server, told, view, clock, bounds, hist
<1>1. ASSUME Tick PROVE Same
  BY <1>1 DEF Tick
<1>2. ASSUME NEW t \in Tab, Serve(t) PROVE Same \/ ServeDeal(t)
  BY <1>2 DEF Serve, ServeNobody, ServeTouch, ServeStart, SetStage, SetStartTime
<1>3. ASSUME NEW t \in Tab, OnMessage(t) PROVE Same
  BY <1>3 DEF OnMessage, HearElsewhere, HearSeat, HearRoom, HearNight, NightFails
<1>4. ASSUME NEW t \in Tab, Dismiss(t) PROVE Same
  BY <1>4 DEF Dismiss
<1>5. ASSUME NEW t \in Tab, Click(t) PROVE Same
  BY <1>5 DEF Click, SelectGroup, SelectUser, OpenGame, EnterGame, ExitGame, PickCard, StartGame
<1>6. ASSUME NEW t \in Tab, CountDown(t) PROVE Same
  BY <1>6 DEF CountDown
<1>7. ASSUME NEW t \in Tab, Disconnect(t) PROVE Same
  BY <1>7 DEF Disconnect
<1>8. ASSUME NEW t \in Tab, Reload(t) PROVE Same
  BY <1>8 DEF Reload
<1>9. ASSUME NEW t \in Tab, NEW i \in 1..Len(gets[t]), Get(t, i) PROVE Same
  BY <1>9 DEF Get, GetInfo, Arrive, Refused, Fail
<1>10. ASSUME UNCHANGED vars PROVE Same
  BY <1>10 DEF vars
<1> QED
  BY <1>1, <1>2, <1>3, <1>4, <1>5, <1>6, <1>7, <1>8, <1>9, <1>10 DEF Next

\* ... the page's countdown and the group it counts for, ...
LEMMA ClockChange ==
  [Next]_vars =>
    \/ UNCHANGED <<inputTime, interval, lost, toGroup>>
    \/ \E t \in Tab : \/ CountDown(t) \/ Reload(t)
                      \/ \E g \in Group : SelectGroup(t, g)
                      \/ \E i \in 1..Len(gets[t]) : Arrive(t, i)
<1> DEFINE Same == UNCHANGED <<inputTime, interval, lost, toGroup>>
<1> USE DEF room, server, told, view, clock, bounds, hist
<1>1. ASSUME Tick PROVE Same
  BY <1>1 DEF Tick
<1>2. ASSUME NEW t \in Tab, Serve(t) PROVE Same
  BY <1>2 DEF Serve, ServeNobody, ServeTouch, ServeStart, SetStage, SetStartTime, ServeDeal
<1>3. ASSUME NEW t \in Tab, OnMessage(t) PROVE Same
  BY <1>3 DEF OnMessage, HearElsewhere, HearSeat, HearRoom, HearNight, NightFails
<1>4. ASSUME NEW t \in Tab, Dismiss(t) PROVE Same
  BY <1>4 DEF Dismiss
<1>5. ASSUME NEW t \in Tab, Click(t) PROVE Same \/ (\E g \in Group : SelectGroup(t, g))
  BY <1>5 DEF Click, SelectUser, OpenGame, EnterGame, ExitGame, PickCard, StartGame
<1>6. ASSUME NEW t \in Tab, Disconnect(t) PROVE Same
  BY <1>6 DEF Disconnect
<1>7. ASSUME NEW t \in Tab, NEW i \in 1..Len(gets[t]), Get(t, i) PROVE Same \/ Arrive(t, i)
  BY <1>7 DEF Get, GetInfo, Refused, Fail
<1>8. ASSUME UNCHANGED vars PROVE Same
  BY <1>8 DEF vars
<1> QED
  BY <1>1, <1>2, <1>3, <1>4, <1>5, <1>6, <1>7, <1>8 DEF Next

\* ... the group it is in and the one it shows, ...
LEMMA PlaceChange ==
  [Next]_vars =>
    \/ UNCHANGED <<inGroup, toGroup, panel, after>>
    \/ \E t \in Tab : \/ HearSeat(t) \/ HearNight(t) \/ Dismiss(t)
                      \/ SelectUser(t) \/ EnterGame(t) \/ ExitGame(t)
                      \/ Reload(t)
                      \/ \E g \in Group : SelectGroup(t, g)
                      \/ \E i \in 1..Len(gets[t]) : Arrive(t, i)
<1> DEFINE Same == UNCHANGED <<inGroup, toGroup, panel, after>>
<1> USE DEF room, server, told, view, clock, bounds, hist, Tell
<1>1. ASSUME Tick PROVE Same
  BY <1>1 DEF Tick
<1>2. ASSUME NEW t \in Tab, Serve(t) PROVE Same
  BY <1>2 DEF Serve, ServeNobody, ServeTouch, ServeStart, SetStage, SetStartTime, ServeDeal
<1>3. ASSUME NEW t \in Tab, OnMessage(t) PROVE Same \/ HearSeat(t) \/ HearNight(t)
  BY <1>3 DEF OnMessage, HearElsewhere, HearRoom, NightFails
<1>4. ASSUME NEW t \in Tab, Click(t)
      PROVE  Same \/ (\E g \in Group : SelectGroup(t, g)) \/ SelectUser(t)
             \/ EnterGame(t) \/ ExitGame(t)
  BY <1>4 DEF Click, OpenGame, PickCard, StartGame
<1>5. ASSUME NEW t \in Tab, CountDown(t) PROVE Same
  BY <1>5 DEF CountDown
<1>6. ASSUME NEW t \in Tab, Disconnect(t) PROVE Same
  BY <1>6 DEF Disconnect
<1>7. ASSUME NEW t \in Tab, NEW i \in 1..Len(gets[t]), Get(t, i) PROVE Same \/ Arrive(t, i)
  BY <1>7 DEF Get, GetInfo, Refused, Fail
<1>8. ASSUME UNCHANGED vars PROVE Same
  BY <1>8 DEF vars
<1> QED
  BY <1>1, <1>2, <1>3, <1>4, <1>5, <1>6, <1>7, <1>8 DEF Next

\* ... its requests and answers, ...
LEMMA GetsMove ==
  [Next]_vars =>
    \/ UNCHANGED <<gets>>
    \/ \E t \in Tab : \/ HearRoom(t) \/ Dismiss(t) \/ OpenGame(t) \/ EnterGame(t) \/ Reload(t)
                      \/ \E i \in 1..Len(gets[t]) : GetInfo(t, i) \/ Arrive(t, i) \/ Refused(t, i) \/ Fail(t, i)
<1> DEFINE Same == UNCHANGED <<gets>>
<1> USE DEF room, server, told, view, clock, bounds, hist
<1>1. ASSUME Tick PROVE Same
  BY <1>1 DEF Tick
<1>2. ASSUME NEW t \in Tab, Serve(t) PROVE Same
  BY <1>2 DEF Serve, ServeNobody, ServeTouch, ServeStart, SetStage, SetStartTime, ServeDeal
<1>3. ASSUME NEW t \in Tab, OnMessage(t) PROVE Same \/ HearRoom(t)
  BY <1>3 DEF OnMessage, HearElsewhere, HearSeat, HearNight, NightFails
<1>4. ASSUME NEW t \in Tab, Click(t) PROVE Same \/ OpenGame(t) \/ EnterGame(t)
  BY <1>4 DEF Click, SelectGroup, SelectUser, ExitGame, PickCard, StartGame
<1>5. ASSUME NEW t \in Tab, CountDown(t) PROVE Same
  BY <1>5 DEF CountDown
<1>6. ASSUME NEW t \in Tab, Disconnect(t) PROVE Same
  BY <1>6 DEF Disconnect
<1>7. ASSUME NEW t \in Tab, NEW i \in 1..Len(gets[t]), Get(t, i)
      PROVE  Same \/ GetInfo(t, i) \/ Arrive(t, i) \/ Refused(t, i) \/ Fail(t, i)
  BY <1>7 DEF Get
<1>8. ASSUME UNCHANGED vars PROVE Same
  BY <1>8 DEF vars
<1> QED
  BY <1>1, <1>2, <1>3, <1>4, <1>5, <1>6, <1>7, <1>8 DEF Next

\* ... its messages to the server, ...
LEMMA WireMove ==
  [Next]_vars =>
    \/ UNCHANGED <<wire>>
    \/ \E t \in Tab : \/ ServeNobody(t) \/ ServeTouch(t) \/ ServeStart(t)
                      \/ ServeDeal(t) \/ EnterGame(t) \/ ExitGame(t)
                      \/ PickCard(t) \/ StartGame(t) \/ CountDown(t)
                      \/ Disconnect(t) \/ Reload(t)
                      \/ \E i \in 1..Len(gets[t]) : Arrive(t, i)
<1> DEFINE Same == UNCHANGED <<wire>>
<1> USE DEF room, server, told, view, clock, bounds, hist
<1>1. ASSUME Tick PROVE Same
  BY <1>1 DEF Tick
<1>2. ASSUME NEW t \in Tab, Serve(t)
      PROVE  Same \/ ServeNobody(t) \/ ServeTouch(t) \/ ServeStart(t) \/ ServeDeal(t)
  BY <1>2 DEF Serve, SetStage, SetStartTime
<1>3. ASSUME NEW t \in Tab, OnMessage(t) PROVE Same
  BY <1>3 DEF OnMessage, HearElsewhere, HearSeat, HearRoom, HearNight, NightFails
<1>4. ASSUME NEW t \in Tab, Dismiss(t) PROVE Same
  BY <1>4 DEF Dismiss
<1>5. ASSUME NEW t \in Tab, Click(t)
      PROVE  Same \/ EnterGame(t) \/ ExitGame(t) \/ PickCard(t) \/ StartGame(t)
  BY <1>5 DEF Click, SelectGroup, SelectUser, OpenGame
<1>6. ASSUME NEW t \in Tab, NEW i \in 1..Len(gets[t]), Get(t, i) PROVE Same \/ Arrive(t, i)
  BY <1>6 DEF Get, GetInfo, Refused, Fail
<1>7. ASSUME UNCHANGED vars PROVE Same
  BY <1>7 DEF vars
<1> QED
  BY <1>1, <1>2, <1>3, <1>4, <1>5, <1>6, <1>7 DEF Next

\* ... and those to it.
LEMMA InboxMove ==
  [Next]_vars =>
    \/ UNCHANGED <<inbox>>
    \/ \E t \in Tab : \/ ServeTouch(t) \/ SetStartTime(t) \/ ServeDeal(t)
                      \/ HearElsewhere(t) \/ HearSeat(t) \/ HearRoom(t)
                      \/ HearNight(t) \/ NightFails(t) \/ Disconnect(t)
                      \/ Reload(t)
<1> DEFINE Same == UNCHANGED <<inbox>>
<1> USE DEF room, server, told, view, clock, bounds, hist
<1>1. ASSUME Tick PROVE Same
  BY <1>1 DEF Tick
<1>2. ASSUME NEW t \in Tab, Serve(t) PROVE Same \/ ServeTouch(t) \/ SetStartTime(t) \/ ServeDeal(t)
  BY <1>2 DEF Serve, ServeNobody, ServeStart, SetStage
<1>3. ASSUME NEW t \in Tab, OnMessage(t)
      PROVE  Same \/ HearElsewhere(t) \/ HearSeat(t)
             \/ HearRoom(t) \/ HearNight(t) \/ NightFails(t)
  BY <1>3 DEF OnMessage
<1>4. ASSUME NEW t \in Tab, Dismiss(t) PROVE Same
  BY <1>4 DEF Dismiss
<1>5. ASSUME NEW t \in Tab, Click(t) PROVE Same
  BY <1>5 DEF Click, SelectGroup, SelectUser, OpenGame, EnterGame, ExitGame, PickCard, StartGame
<1>6. ASSUME NEW t \in Tab, CountDown(t) PROVE Same
  BY <1>6 DEF CountDown
<1>7. ASSUME NEW t \in Tab, NEW i \in 1..Len(gets[t]), Get(t, i) PROVE Same
  BY <1>7 DEF Get, GetInfo, Arrive, Refused, Fail
<1>8. ASSUME UNCHANGED vars PROVE Same
  BY <1>8 DEF vars
<1> QED
  BY <1>1, <1>2, <1>3, <1>4, <1>5, <1>6, <1>7, <1>8 DEF Next

\* A page asks for one more room, that of its group as long as no page has moved,
\* or forgets its requests, or one of them is answered or done with.
LEMMA GetsChange ==
  ASSUME TypeOK, AtHome, [Next]_vars
  PROVE  \/ gets' = gets
         \/ \E t \in Tab :
              \/ \E g \in Group : Ask(t, g) /\ (~moved => g = toGroup[t])
              \/ gets' = [gets EXCEPT ![t] = <<>>]
              \/ \E i \in 1..Len(gets[t]) :
                   GetInfo(t, i) \/ gets' = [gets EXCEPT ![t] = RemoveAt(@, i)]
<1> DEFINE Asks1(t) == \E g \in Group : Ask(t, g) /\ (~moved => g = toGroup[t])
<1>1. ASSUME NEW t \in Tab, HearRoom(t) PROVE Asks1(t)
  <2>1. Ask(t, toGroup[t]) /\ Head(inbox[t])[2] = toGroup[t] /\ inbox[t] # <<>>
    BY <1>1 DEF HearRoom, Hear
  <2>2. toGroup[t] \in Group
    BY <2>1, Heard
  <2> QED
    BY <2>1, <2>2
<1>2. ASSUME NEW t \in Tab, Dismiss(t) PROVE gets' = gets \/ Asks1(t)
  BY <1>2 DEF Dismiss, TypeOK, AtHome
<1>3. ASSUME NEW t \in Tab, OpenGame(t) PROVE Asks1(t)
  BY <1>3 DEF OpenGame, TypeOK
<1>4. ASSUME NEW t \in Tab, EnterGame(t) PROVE gets' = gets \/ Asks1(t)
  BY <1>4 DEF EnterGame, TypeOK, AtHome
<1>5. ASSUME NEW t \in Tab, Reload(t) PROVE gets' = [gets EXCEPT ![t] = <<>>]
  BY <1>5 DEF Reload
<1>6. ASSUME NEW t \in Tab, NEW i \in 1..Len(gets[t]), Arrive(t, i) \/ Refused(t, i) \/ Fail(t, i)
      PROVE  gets' = [gets EXCEPT ![t] = RemoveAt(@, i)]
  BY <1>6 DEF Arrive, Refused, Fail
<1> QED
  BY <1>1, <1>2, <1>3, <1>4, <1>5, <1>6, GetsMove

\* What a page has asked or been answered after a step: it had before, it has just
\* asked, or GetInfo has just answered.
LEMMA GetsAfter ==
  ASSUME TypeOK, AtHome, [Next]_vars, NEW u \in Tab, NEW n \in 1..Len(gets'[u])
  PROVE  \/ \E j \in 1..Len(gets[u]) : gets'[u][n] = gets[u][j]
         \/ \E g \in Group : gets'[u][n] = [group |-> g] /\ (~moved => g = toGroup[u])
         \/ \E j \in 1..Len(gets[u]) : LET g == gets[u][j].group IN
              GetInfo(u, j) /\ gets'[u][n] = [group |-> g, stage |-> stage[g], date |-> Seconds(due[g])]
<1> DEFINE Old == \E j \in 1..Len(gets[u]) : gets'[u][n] = gets[u][j]
<1>s. \A t \in Tab : gets[t] \in Seq(Request \cup Answer)
  BY DEF TypeOK
<1>1. CASE gets' = gets
  BY <1>1
<1>2. ASSUME NEW t \in Tab, NEW g \in Group, Ask(t, g)
      PROVE  Old \/ (u = t /\ gets'[u][n] = [group |-> g])
  <2>1. gets'[u] = IF u = t THEN Append(gets[t], [group |-> g]) ELSE gets[u]
    BY <1>2 DEF Ask, TypeOK
  <2>2. [group |-> g] \in Request \cup Answer
    BY DEF Request
  <2> QED
    BY <1>s, <2>1, <2>2, Appended
<1>3. ASSUME NEW t \in Tab, gets' = [gets EXCEPT ![t] = <<>>] PROVE Old
  <2>1. gets'[u] = IF u = t THEN <<>> ELSE gets[u]
    BY <1>3 DEF TypeOK
  <2> QED
    BY <2>1
<1>4. ASSUME NEW t \in Tab, NEW i \in 1..Len(gets[t]), gets' = [gets EXCEPT ![t] = RemoveAt(@, i)]
      PROVE  Old
  <2>1. gets'[u] = IF u = t THEN RemoveAt(gets[t], i) ELSE gets[u]
    BY <1>4 DEF TypeOK
  <2>2. \A s \in Seq(Request \cup Answer) : \A m \in 1..Len(s) :
          \A k \in 1..Len(RemoveAt(s, m)) : \E j \in 1..Len(s) : RemoveAt(s, m)[k] = s[j]
    BY Shortened
  <2>3. \A k \in 1..Len(RemoveAt(gets[t], i)) : \E j \in 1..Len(gets[t]) : RemoveAt(gets[t], i)[k] = gets[t][j]
    BY <1>s, <2>2
  <2> QED
    BY <2>1, <2>3
<1>5. ASSUME NEW t \in Tab, NEW i \in 1..Len(gets[t]), GetInfo(t, i)
      PROVE  \/ Old
             \/ u = t /\ LET g == gets[t][i].group IN
                  gets'[u][n] = [group |-> g, stage |-> stage[g], date |-> Seconds(due[g])]
  <2> DEFINE g == gets[t][i].group
             e == [group |-> g, stage |-> stage[g], date |-> Seconds(due[g])]
  <2>1. gets' = [gets EXCEPT ![t][i] = e]
    BY <1>5 DEF GetInfo
  <2> HIDE DEF e
  <2>2. gets'[u] = IF u = t THEN [gets[t] EXCEPT ![i] = e] ELSE gets[u]
    BY <2>1 DEF TypeOK
  <2>3. Old \/ (u = t /\ gets'[u][n] = e)
    BY <1>s, <2>2
  <2> QED
    BY <2>3 DEF e
<1> QED
  BY <1>1, <1>2, <1>3, <1>4, <1>5, GetsChange

\* A page's messages to the server: one is taken, some are cut, one is sent, and
\* 84 only by the countdown when the time is up.
LEMMA WireChange ==
  [Next]_vars =>
    \/ wire' = wire
    \/ \E t \in Tab :
         \/ wire[t] # <<>> /\ wire' = [wire EXCEPT ![t] = Tail(@)]
         \/ Cut(t)
         \/ \E kind \in Kind \ {"84"} : Send(t, kind)
         \/ Send(t, "84") /\ CountDown(t)
         \/ Send(t, "84") /\ \E i \in 1..Len(gets[t]) :
              Arrive(t, i) /\ gets[t][i].stage = 1 /\ TimeUp(gets[t][i].date)
<1>1. ASSUME NEW t \in Tab, ServeNobody(t) \/ ServeTouch(t) \/ ServeStart(t) \/ ServeDeal(t)
      PROVE  wire[t] # <<>> /\ wire' = [wire EXCEPT ![t] = Tail(@)]
  BY <1>1 DEF ServeNobody, ServeTouch, ServeStart, ServeDeal, Take
<1>2. ASSUME NEW t \in Tab, EnterGame(t) \/ ExitGame(t) \/ PickCard(t) \/ StartGame(t)
      PROVE  \E kind \in Kind \ {"84"} : Send(t, kind)
  <2>1. Send(t, "seat") \/ Send(t, "83") \/ Send(t, "82")
    BY <1>2 DEF EnterGame, ExitGame, PickCard, StartGame
  <2> QED
    BY <2>1 DEF Kind
<1>3. ASSUME NEW t \in Tab, CountDown(t) PROVE Send(t, "84")
  BY <1>3 DEF CountDown
<1>4. ASSUME NEW t \in Tab, Disconnect(t) \/ Reload(t) PROVE Cut(t)
  BY <1>4 DEF Disconnect, Reload
<1>5. ASSUME NEW t \in Tab, NEW i \in 1..Len(gets[t]), Arrive(t, i)
      PROVE  wire' = wire \/ (Send(t, "84") /\ gets[t][i].stage = 1 /\ TimeUp(gets[t][i].date))
  BY <1>5 DEF Arrive
<1> QED
  BY <1>1, <1>2, <1>3, <1>4, <1>5, WireMove

\* What it has sent after a step.
LEMMA WireAfter ==
  ASSUME TypeOK, AtHome, [Next]_vars, NEW u \in Tab, NEW n \in 1..Len(wire'[u])
  PROVE  \/ \E j \in 1..Len(wire[u]) : wire'[u][n] = wire[u][j]
         \/ wire'[u][n][1] # "84"
         \/ /\ wire'[u][n] = <<"84", toGroup[u]>>
            /\ \/ CountDown(u)
               \/ \E i \in 1..Len(gets[u]) : Arrive(u, i) /\ gets[u][i].stage = 1 /\ TimeUp(gets[u][i].date)
<1> DEFINE Old == \E j \in 1..Len(wire[u]) : wire'[u][n] = wire[u][j]
<1>s. \A t \in Tab : wire[t] \in Seq(Kind \X Group)
  BY DEF TypeOK
<1>1. CASE wire' = wire
  BY <1>1
<1>2. ASSUME NEW t \in Tab, wire[t] # <<>>, wire' = [wire EXCEPT ![t] = Tail(@)] PROVE Old
  <2>1. wire'[u] = IF u = t THEN Tail(wire[t]) ELSE wire[u]
    BY <1>2 DEF TypeOK
  <2>2. \A k \in 1..Len(Tail(wire[t])) : \E j \in 1..Len(wire[t]) : Tail(wire[t])[k] = wire[t][j]
    <3>1. wire[t] \in Seq(Kind \X Group)
      BY <1>s
    <3> QED
      BY <1>2, <3>1, Shortened
  <2> QED
    BY <2>1, <2>2
<1>3. ASSUME NEW t \in Tab, Cut(t) PROVE Old
  <2>1. PICK m \in 0..Len(wire[t]) : wire'[u] = IF u = t THEN SubSeq(wire[t], 1, m) ELSE wire[u]
    BY <1>3 DEF Cut, TypeOK
  <2>2. \A k \in 1..Len(SubSeq(wire[t], 1, m)) : \E j \in 1..Len(wire[t]) : SubSeq(wire[t], 1, m)[k] = wire[t][j]
    <3>1. wire[t] \in Seq(Kind \X Group)
      BY <1>s
    <3> QED
      BY <3>1, Shortened
  <2> QED
    BY <2>1, <2>2
<1>4. ASSUME NEW t \in Tab, NEW kind \in Kind, Send(t, kind)
      PROVE  Old \/ (u = t /\ wire'[u][n] = <<kind, toGroup[t]>>)
  <2>1. CASE inGroup[t] /\ wire' = [wire EXCEPT ![t] = Append(@, <<kind, toGroup[t]>>)]
    <3>1. <<kind, toGroup[t]>> \in Kind \X Group
      BY <2>1 DEF TypeOK, AtHome
    <3>2. wire'[u] = IF u = t THEN Append(wire[t], <<kind, toGroup[t]>>) ELSE wire[u]
      BY <2>1 DEF TypeOK
    <3> QED
      BY <1>s, <3>1, <3>2, Appended
  <2> QED
    BY <1>1, <1>4, <2>1 DEF Send
<1>5. ASSUME NEW t \in Tab, NEW kind \in Kind \ {"84"}, Send(t, kind)
      PROVE  Old \/ wire'[u][n][1] # "84"
  BY <1>4, <1>5
<1>6. "84" \in Kind
  BY DEF Kind
<1> QED
  BY <1>1, <1>2, <1>3, <1>4, <1>5, <1>6, WireChange

\* A game that is a room's first was so before, and a page that has moved stays so.
LEMMA FirstBefore ==
  ASSUME TypeOK, [Next]_vars
  PROVE  (moved => moved') /\ (undated => undated') /\ \A g \in Group : FirstGame(g)' => FirstGame(g)
<1>1. (moved => moved') /\ (undated => undated')
  <2>1. ASSUME NEW t \in Tab, NEW g \in Group, SelectGroup(t, g)
        PROVE  (moved => moved') /\ (undated => undated')
    BY <2>1 DEF SelectGroup, TypeOK
  <2>2. ASSUME NEW t \in Tab, NEW i \in 1..Len(gets[t]), GetInfo(t, i)
        PROVE  (moved => moved') /\ (undated => undated')
    BY <2>2 DEF GetInfo, TypeOK
  <2> QED
    BY <2>1, <2>2, PastChange
<1>2. ASSUME NEW g \in Group PROVE deck[g] \in Nat /\ deck'[g] \in Nat /\ deck'[g] >= deck[g]
  <2>1. ASSUME NEW t \in Tab, ServeStart(t)
        PROVE  \E h \in Group : deck' = [deck EXCEPT ![h] = @ + 1]
    BY <2>1, Taken DEF ServeStart, Take
  <2>2. ASSUME NEW t \in Tab, SetStage(t) \/ SetStartTime(t) PROVE deck' = deck
    BY <2>2 DEF SetStage, SetStartTime
  <2>3. deck' = deck \/ \E h \in Group : deck' = [deck EXCEPT ![h] = @ + 1]
    BY <2>1, <2>2, RoomChange
  <2>4. ASSUME NEW h \in Group, deck' = [deck EXCEPT ![h] = @ + 1]
        PROVE  deck'[g] = IF g = h THEN deck[g] + 1 ELSE deck[g]
    BY <2>4 DEF TypeOK
  <2>5. deck'[g] = deck[g] \/ deck'[g] = deck[g] + 1
    BY <2>3, <2>4
  <2> QED
    BY <2>5 DEF TypeOK
<1> QED
  BY <1>1, <1>2 DEF FirstGame

\* A start under way belongs to a handler; only the first of a room finds none set.
LEMMA StartedStep == TypeOK /\ StartedOnce /\ [Next]_vars => StartedOnce'
<1> SUFFICES ASSUME TypeOK, StartedOnce, [Next]_vars PROVE StartedOnce'
  OBVIOUS
<1>1. ASSUME NEW t \in Tab, ServeStart(t) PROVE StartedOnce'
  <2>1. PICK g \in Group :
          /\ wire[t] # <<>> /\ pc[t] = "idle" /\ pc' = [pc EXCEPT ![t] = "stage"]
          /\ lobby' = [lobby EXCEPT ![t] = g] /\ deck' = [deck EXCEPT ![g] = @ + 1]
          /\ due' = due /\ stage' = stage
    BY <1>1, Taken DEF ServeStart, Take
  <2>2. \A h \in Group : deck[h] \in Nat /\ deck'[h] = IF h = g THEN deck[g] + 1 ELSE deck[h]
    BY <2>1 DEF TypeOK
  <2>3. \A u \in Tab : /\ pc'[u] = IF u = t THEN "stage" ELSE pc[u]
                       /\ lobby'[u] = IF u = t THEN g ELSE lobby[u]
    BY <1>1, <2>1 DEF TypeOK
  <2>4. \A u \in Tab : (lobby[u] = None) <=> (pc[u] = "idle")
    BY DEF StartedOnce
  <2>5. \A u \in Tab : lobby[u] = g => deck[g] >= 1
    BY DEF StartedOnce
  <2>6. deck[g] = 0 => due[g] = None
    BY DEF StartedOnce
  <2>7. \A u \in Tab : (lobby'[u] = None) <=> (pc'[u] = "idle")
    BY <2>1, <2>3, <2>4, NamesAssumption
  <2>8. \A h \in Group : deck'[h] = 0 => due'[h] = None /\ stage'[h] = 0
    BY <2>1, <2>2 DEF StartedOnce
  <2>9. ASSUME NEW u \in Tab, NEW h \in Group, lobby'[u] = h
        PROVE  deck'[h] >= 1 /\ (deck'[h] = 1 => due'[h] = None /\ \A v \in Tab : lobby'[v] = h => v = u)
    <3>1. CASE h = g
      BY <2>1, <2>2, <2>3, <2>5, <2>6, <2>9, <3>1
    <3>2. CASE h # g
      BY <2>1, <2>2, <2>3, <2>9, <3>2 DEF StartedOnce
    <3> QED
      BY <3>1, <3>2
  <2> QED
    BY <2>7, <2>8, <2>9 DEF StartedOnce
<1>2. ASSUME NEW t \in Tab, SetStage(t) PROVE StartedOnce'
  <2>1. PICK g \in Group : lobby[t] = g /\ stage' = [stage EXCEPT ![g] = 1]
    <3>1. lobby[t] # None
      BY <1>2 DEF SetStage, StartedOnce
    <3> QED
      BY <1>2, <3>1 DEF SetStage, TypeOK
  <2>2. deck[g] >= 1 /\ deck[g] \in Nat
    BY <1>2, <2>1 DEF StartedOnce, TypeOK
  <2> QED
    BY <1>2, <2>1, <2>2 DEF SetStage, StartedOnce, TypeOK
<1>3. ASSUME NEW t \in Tab, SetStartTime(t) PROVE StartedOnce'
  <2>1. PICK g \in Group : /\ lobby[t] = g /\ lobby' = [lobby EXCEPT ![t] = None]
                           /\ due' = [due EXCEPT ![g] = now + Lead * Sec]
    <3>1. lobby[t] # None
      BY <1>3 DEF SetStartTime, StartedOnce
    <3> QED
      BY <1>3, <3>1 DEF SetStartTime, TypeOK
  <2>2. deck' = deck /\ stage' = stage /\ pc' = [pc EXCEPT ![t] = "idle"]
    BY <1>3 DEF SetStartTime
  <2>3. deck[g] >= 1 /\ deck[g] \in Nat
    BY <1>3, <2>1 DEF StartedOnce, TypeOK
  <2>4. \A u \in Tab : /\ pc'[u] = IF u = t THEN "idle" ELSE pc[u]
                       /\ lobby'[u] = IF u = t THEN None ELSE lobby[u]
    BY <1>3, <2>1, <2>2 DEF TypeOK
  <2>5. \A h \in Group : h # g => due'[h] = due[h]
    BY <2>1 DEF TypeOK
  <2>6. \A u \in Tab : (lobby'[u] = None) <=> (pc'[u] = "idle")
    BY <2>4 DEF StartedOnce
  <2>7. \A h \in Group : deck'[h] = 0 => due'[h] = None /\ stage'[h] = 0
    BY <2>2, <2>3, <2>5 DEF StartedOnce
  <2>8. ASSUME NEW u \in Tab, NEW h \in Group, lobby'[u] = h
        PROVE  deck'[h] >= 1 /\ (deck'[h] = 1 => due'[h] = None /\ \A v \in Tab : lobby'[v] = h => v = u)
    <3>1. u # t /\ lobby[u] = h
      BY <2>4, <2>8, NamesAssumption
    <3>2. h = g => deck[g] # 1
      BY <1>3, <2>1, <3>1 DEF StartedOnce
    <3>3. deck'[h] >= 1
      BY <2>2, <3>1 DEF StartedOnce
    <3>4. ASSUME deck[h] = 1 PROVE due[h] = None /\ \A v \in Tab : lobby[v] = h => v = u
      BY <3>1, <3>4 DEF StartedOnce
    <3>5. \A v \in Tab : lobby'[v] = h => lobby[v] = h
      BY <2>4, NamesAssumption
    <3> QED
      BY <2>2, <2>5, <3>2, <3>3, <3>4, <3>5
  <2> QED
    BY <2>6, <2>7, <2>8 DEF StartedOnce
<1>4. CASE UNCHANGED <<pc, lobby, deck, due, stage>>
  BY <1>4 DEF StartedOnce
<1> QED
  BY <1>1, <1>2, <1>3, <1>4, RoomChange

\* A start time that is set does not change in a room's first game.
LEMMA DueKept ==
  ASSUME TypeOK, StartedOnce, [Next]_vars, NEW h \in Group, FirstGame(h), due[h] # None
  PROVE  due'[h] = due[h]
<1>1. ASSUME NEW t \in Tab, SetStartTime(t) PROVE due'[h] = due[h]
  <2>1. lobby[t] \in Group
    BY <1>1 DEF SetStartTime, StartedOnce, TypeOK
  <2>2. lobby[t] = h => deck[h] = 1 /\ due[h] = None
    BY DEF StartedOnce, FirstGame, TypeOK
  <2> QED
    BY <1>1, <2>1, <2>2 DEF SetStartTime, TypeOK
<1>2. ASSUME NEW t \in Tab, ServeStart(t) \/ SetStage(t) PROVE due' = due
  BY <1>2 DEF ServeStart, SetStage
<1> QED
  BY <1>1, <1>2, RoomChange

\* A page that has not moved asks for, shows and is answered about its group only.
LEMMA AtHomeStep == TypeOK /\ AtHome /\ [Next]_vars => AtHome'
<1> SUFFICES ASSUME TypeOK, AtHome, [Next]_vars PROVE AtHome'
  OBVIOUS
<1> USE NamesAssumption
<1> DEFINE Kept(t) == /\ inGroup'[t] => toGroup'[t] # None
                      /\ ~moved' => panel'[t] \in {None, toGroup'[t]} /\ after'[t] \in {None, toGroup'[t]}
<1>m. ~moved' => ~moved
  BY FirstBefore
<1>1. ASSUME NEW u \in Tab PROVE Kept(u)
  <2>1. CASE UNCHANGED <<inGroup, toGroup, panel, after>>
    BY <1>m, <2>1 DEF AtHome
  <2>2. ASSUME NEW t \in Tab, HearSeat(t) PROVE Kept(u)
    BY <1>m, <2>2 DEF AtHome, HearSeat, view, TypeOK
  <2>7. ASSUME NEW t \in Tab, HearNight(t) PROVE Kept(u)
    BY <1>m, <2>7 DEF AtHome, HearNight, TypeOK
  <2>3. ASSUME NEW t \in Tab, Dismiss(t) \/ SelectUser(t) \/ EnterGame(t) \/ ExitGame(t)
        PROVE  Kept(u)
    <3>1. toGroup' = toGroup
      BY <2>3 DEF Dismiss, SelectUser, EnterGame, ExitGame, view
    <3>2. inGroup'[u] => inGroup[u]
      BY <2>3 DEF Dismiss, SelectUser, EnterGame, ExitGame, view, TypeOK
    <3>3. panel'[u] \in {panel[u], None}
      BY <2>3 DEF Dismiss, SelectUser, EnterGame, ExitGame, view, TypeOK
    <3>4. after'[u] \in {after[u], None, panel[u]}
      <4>1. CASE Dismiss(t) \/ SelectUser(t) \/ ExitGame(t)
        BY <4>1 DEF Dismiss, SelectUser, ExitGame, told, TypeOK
      <4>2. CASE EnterGame(t)
        BY <4>2 DEF EnterGame, TypeOK
      <4> QED
        BY <2>3, <4>1, <4>2
    <3> QED
      BY <1>m, <3>1, <3>2, <3>3, <3>4 DEF AtHome
  <2>4. ASSUME NEW t \in Tab, NEW g \in Group, SelectGroup(t, g) PROVE Kept(u)
    BY <1>m, <2>4 DEF AtHome, SelectGroup, told, TypeOK
  <2>5. ASSUME NEW t \in Tab, Reload(t) PROVE Kept(u)
    BY <1>m, <2>5 DEF AtHome, Reload, TypeOK
  <2>6. ASSUME NEW t \in Tab, NEW i \in 1..Len(gets[t]), Arrive(t, i) PROVE Kept(u)
    BY <1>m, <2>6 DEF AtHome, Arrive, TypeOK
  <2> QED
    BY <2>1, <2>2, <2>3, <2>4, <2>5, <2>6, <2>7, PlaceChange
<1>2. ASSUME ~moved', NEW u \in Tab, NEW n \in 1..Len(gets'[u])
      PROVE  gets'[u][n].group = toGroup'[u]
  <2>1. gets'[u][n].group = toGroup[u]
    <3>1. ASSUME NEW j \in 1..Len(gets[u]) PROVE gets[u][j].group = toGroup[u]
      BY <1>m, <1>2 DEF AtHome
    <3>2. CASE \E j \in 1..Len(gets[u]) : gets'[u][n] = gets[u][j]
      BY <3>1, <3>2
    <3>3. ASSUME NEW g \in Group, gets'[u][n] = [group |-> g], ~moved => g = toGroup[u]
          PROVE  gets'[u][n].group = toGroup[u]
      BY <1>m, <1>2, <3>3
    <3>4. ASSUME NEW j \in 1..Len(gets[u]), NEW g, g = gets[u][j].group,
                 gets'[u][n] = [group |-> g, stage |-> stage[g], date |-> Seconds(due[g])]
          PROVE  gets'[u][n].group = toGroup[u]
      BY <3>1, <3>4
    <3>5. \/ \E j \in 1..Len(gets[u]) : gets'[u][n] = gets[u][j]
          \/ \E g \in Group : gets'[u][n] = [group |-> g] /\ (~moved => g = toGroup[u])
          \/ \E j \in 1..Len(gets[u]) : LET g == gets[u][j].group IN
               gets'[u][n] = [group |-> g, stage |-> stage[g], date |-> Seconds(due[g])]
      BY <1>2, GetsAfter
    <3> QED
      BY <3>2, <3>3, <3>4, <3>5
  <2>2. CASE toGroup' = toGroup
    BY <2>1, <2>2
  <2>3. ASSUME NEW t \in Tab, NEW g \in Group, SelectGroup(t, g) PROVE toGroup'[u] = toGroup[u]
    <3>1. gets'[u] = gets[u]
      BY <2>3 DEF SelectGroup
    <3>2. toGroup[u] # None
      BY <2>1, <3>1, UnderWay
    <3> QED
      BY <1>2, <2>3, <3>2 DEF SelectGroup, TypeOK
  <2>4. ASSUME NEW t \in Tab, Reload(t) PROVE toGroup'[u] = toGroup[u]
    <3>1. gets'[t] = <<>>
      BY <2>4 DEF Reload, TypeOK
    <3>2. u # t
      BY <1>2, <3>1
    <3> QED
      BY <2>4, <3>2 DEF Reload, TypeOK
  <2>5. ASSUME NEW t \in Tab, CountDown(t) PROVE toGroup' = toGroup
    BY <2>5 DEF CountDown, view
  <2>6. ASSUME NEW t \in Tab, NEW i \in 1..Len(gets[t]), Arrive(t, i) PROVE toGroup' = toGroup
    BY <2>6 DEF Arrive
  <2> QED
    BY <2>1, <2>2, <2>3, <2>4, <2>5, <2>6, ClockChange
<1> QED
  BY <1>1, <1>2 DEF AtHome

\* In a room's first game a page is told its one start time.
LEMMA AnswersStep ==
  TypeOK /\ StartedOnce /\ AtHome /\ AnswersDated /\ [Next]_vars => AnswersDated'
<1> SUFFICES ASSUME TypeOK, StartedOnce, AtHome, AnswersDated, [Next]_vars,
                    NEW u \in Tab, NEW h \in Group, NEW n \in 1..Len(gets'[u]), gets'[u][n] \in Answer,
                    gets'[u][n].group = h, gets'[u][n].stage = 1, FirstGame(h)'
             PROVE  due'[h] # None /\ gets'[u][n].date = Seconds(due'[h])
  BY DEF AnswersDated, Seconds
<1>1. FirstGame(h)
  BY FirstBefore
<1>2. ASSUME NEW j \in 1..Len(gets[u]), gets'[u][n] = gets[u][j]
      PROVE  due[h] # None /\ gets'[u][n].date = Seconds(due[h])
  BY <1>1, <1>2 DEF AnswersDated
<1>3. ASSUME NEW g \in Group, gets'[u][n] = [group |-> g] PROVE FALSE
  BY <1>3 DEF Answer
<1>4. ASSUME NEW j \in 1..Len(gets[u]), NEW g, g = gets[u][j].group, GetInfo(u, j),
             gets'[u][n] = [group |-> g, stage |-> stage[g], date |-> Seconds(due[g])]
      PROVE  due[h] # None /\ gets'[u][n].date = Seconds(due[h])
  <2>1. g = h /\ stage[h] = 1 /\ gets'[u][n].date = Seconds(due[h])
    BY <1>4
  <2>2. undated' = (undated \/ (stage[h] = 1 /\ due[h] = None))
    BY <1>4, <2>1 DEF GetInfo
  <2>3. ~undated'
    BY DEF FirstGame
  <2>4. due[h] # None
    BY <2>1, <2>2, <2>3, Zenon
  <2> QED
    BY <2>1, <2>4
<1>5. due[h] # None /\ gets'[u][n].date = Seconds(due[h])
  BY <1>2, <1>3, <1>4, GetsAfter
<1>6. due'[h] = due[h]
  BY <1>1, <1>5, DueKept
<1> QED
  BY <1>5, <1>6

\* A page in a room's first game counts to its start.
LEMMA CountsStep ==
  TypeOK /\ StartedOnce /\ AtHome /\ AnswersDated /\ CountsToStart /\ [Next]_vars => CountsToStart'
<1> SUFFICES ASSUME TypeOK, StartedOnce, AtHome, AnswersDated, CountsToStart, [Next]_vars,
                    NEW u \in Tab, interval'[u] = "running" \/ lost'[u]
             PROVE  /\ ~moved' => toGroup'[u] # None
                    /\ \A h \in Group : toGroup'[u] = h /\ FirstGame(h)' =>
                         due'[h] # None /\ inputTime'[u] = Seconds(due'[h])
  BY DEF CountsToStart, Seconds
<1> DEFINE Good == /\ ~moved' => toGroup'[u] # None
                   /\ \A h \in Group : toGroup'[u] = h /\ FirstGame(h)' =>
                        due[h] # None /\ inputTime'[u] = Seconds(due[h])
<1>1. ASSUME interval[u] = "running" \/ lost[u], inputTime'[u] = inputTime[u], toGroup'[u] = toGroup[u]
      PROVE  Good
  BY <1>1, FirstBefore DEF CountsToStart
<1>2. ASSUME NEW t \in Tab, NEW g \in Group, SelectGroup(t, g) PROVE Good
  <2>1. (interval[u] = "running" \/ lost[u]) /\ inputTime'[u] = inputTime[u]
    BY <1>2 DEF SelectGroup, clock
  <2>2. \/ toGroup'[u] = toGroup[u]
        \/ u = t /\ toGroup'[u] = g /\ (toGroup[t] \notin {None, g} => moved')
    BY <1>2 DEF SelectGroup, TypeOK
  <2>3. ~moved' => ~moved
    BY FirstBefore
  <2>4. ASSUME ~moved' PROVE toGroup'[u] = toGroup[u] /\ toGroup[u] # None
    BY <2>1, <2>2, <2>3, <2>4 DEF CountsToStart
  <2>5. \A h \in Group : FirstGame(h)' => ~moved'
    BY DEF FirstGame
  <2> QED
    BY <2>1, <2>4, <2>5, FirstBefore DEF CountsToStart
<1>3. ASSUME NEW t \in Tab, CountDown(t) PROVE Good
  <2>1. (interval[u] = "running" \/ lost[u]) /\ inputTime'[u] = inputTime[u] /\ toGroup'[u] = toGroup[u]
    BY <1>3 DEF CountDown, view, TypeOK
  <2> QED
    BY <1>1, <2>1
<1>4. ASSUME NEW t \in Tab, Reload(t) PROVE Good
  <2>1. u # t
    BY <1>4 DEF Reload, TypeOK
  <2> QED
    BY <1>1, <1>4, <2>1 DEF Reload
<1>5. ASSUME NEW t \in Tab, NEW i \in 1..Len(gets[t]), Arrive(t, i) PROVE Good
  <2>1. moved' = moved /\ toGroup' = toGroup
    BY <1>5 DEF Arrive, hist
  <2>2. CASE (interval[u] = "running" \/ lost[u]) /\ inputTime'[u] = inputTime[u]
    BY <2>1, <2>2, FirstBefore DEF CountsToStart
  <2>3. CASE u = t /\ gets[t][i].stage = 1 /\ inputTime'[t] = gets[t][i].date
    <3>1. ~moved => toGroup[t] = gets[t][i].group
      BY <1>5 DEF AtHome
    <3>2. gets[t][i].group \in Group /\ gets[t][i] \in Answer
      BY <1>5, UnderWay DEF Arrive
    <3>3. ASSUME NEW h \in Group, toGroup[t] = h, FirstGame(h)
          PROVE  due[h] # None /\ gets[t][i].date = Seconds(due[h])
      BY <1>5, <2>3, <3>1, <3>2, <3>3 DEF AnswersDated, FirstGame
    <3> QED
      BY <2>1, <2>3, <3>1, <3>2, <3>3, FirstBefore, NamesAssumption
  <2>4. CASE u = t /\ gets[t][i].stage = 1 /\ inputTime' = [inputTime EXCEPT ![t] = gets[t][i].date]
    BY <2>3, <2>4 DEF TypeOK
  <2>5. CASE gets[t][i].stage # 1
    BY <1>5, <2>2, <2>5 DEF Arrive
  <2>6. CASE u # t
    BY <1>5, <2>2, <2>6 DEF Arrive, TypeOK
  <2> QED
    BY <1>5, <2>4, <2>5, <2>6 DEF Arrive
<1>6. Good
  <2>1. CASE UNCHANGED <<inputTime, interval, lost, toGroup>>
    BY <1>1, <2>1
  <2> QED
    BY <1>2, <1>3, <1>4, <1>5, <2>1, ClockChange
<1>7. \A h \in Group : FirstGame(h)' /\ due[h] # None => due'[h] = due[h]
  BY FirstBefore, DueKept
<1> QED
  BY <1>6, <1>7

\* In a room's first game 84 is sent when the start has come.
LEMMA DealsStep ==
  /\ TypeOK /\ StartedOnce /\ AtHome /\ AnswersDated /\ CountsToStart /\ DealsInTime
  /\ [Next]_vars
  => DealsInTime'
<1> SUFFICES ASSUME TypeOK, StartedOnce, AtHome, AnswersDated, CountsToStart, DealsInTime, [Next]_vars,
                    NEW u \in Tab, NEW h \in Group, NEW n \in 1..Len(wire'[u]),
                    wire'[u][n] = <<"84", h>>, FirstGame(h)'
             PROVE  due'[h] # None /\ Seconds(due'[h]) <= now'
  BY DEF DealsInTime, Seconds
<1>1. FirstGame(h)
  BY FirstBefore
<1>2. due[h] # None => Seconds(due[h]) \in Nat /\ Seconds(due[h]) # None
  BY SecondsBelow, NamesAssumption DEF TypeOK
<1>3. ASSUME NEW j \in 1..Len(wire[u]), wire'[u][n] = wire[u][j]
      PROVE  due[h] # None /\ Seconds(due[h]) <= now
  BY <1>1, <1>3 DEF DealsInTime
<1>4. ASSUME CountDown(u), h = toGroup[u] PROVE due[h] # None /\ Seconds(due[h]) <= now
  <2>1. due[h] # None /\ inputTime[u] = Seconds(due[h]) /\ TimeUp(inputTime[u])
    BY <1>1, <1>4 DEF CountDown, CountsToStart
  <2> QED
    BY <1>2, <2>1 DEF TimeUp
<1>5. ASSUME NEW i \in 1..Len(gets[u]), Arrive(u, i), gets[u][i].stage = 1, TimeUp(gets[u][i].date), h = toGroup[u]
      PROVE  due[h] # None /\ Seconds(due[h]) <= now
  <2>1. gets[u][i].group = h /\ gets[u][i] \in Answer
    BY <1>1, <1>5 DEF AtHome, Arrive, FirstGame
  <2>2. due[h] # None /\ gets[u][i].date = Seconds(due[h])
    BY <1>1, <1>5, <2>1 DEF AnswersDated
  <2> QED
    BY <1>2, <1>5, <2>2 DEF TimeUp
<1>6. due[h] # None /\ Seconds(due[h]) <= now
  <2>1. wire'[u][n][1] = "84" /\ (wire'[u][n] = <<"84", toGroup[u]>> => h = toGroup[u])
    OBVIOUS
  <2> QED
    BY <1>3, <1>4, <1>5, <2>1, WireAfter
<1>7. due'[h] = due[h]
  BY <1>1, <1>6, DueKept
<1>8. now \in Nat /\ (now' = now \/ now' = now + 1)
  BY NowMove DEF TypeOK, Time, Tick
<1> QED
  BY <1>2, <1>6, <1>7, <1>8

\* An 84 that is early was not sent in a room's first game.
LEMMA OnTimeStep ==
  TypeOK /\ StartedOnce /\ DealsInTime /\ FirstGameOnTime /\ [Next]_vars => FirstGameOnTime'
<1> SUFFICES ASSUME TypeOK, StartedOnce, DealsInTime, FirstGameOnTime, [Next]_vars
             PROVE  FirstGameOnTime'
  OBVIOUS
<1>1. ASSUME NEW t \in Tab, ServeDeal(t) PROVE FirstGameOnTime'
  <2>1. PICK g \in Group :
          /\ wire[t] # <<>> /\ Head(wire[t]) = <<"84", g>>
          /\ early' = IF TooEarly(g) THEN early \cup {g} ELSE early
    <3>1. wire[t] # <<>> /\ wire[t] \in Seq(Kind \X Group) /\ Head(wire[t])[1] = "84"
      BY <1>1 DEF ServeDeal, Take, TypeOK
    <3>2. Head(wire[t]) \in Kind \X Group
      BY <3>1
    <3>3. PICK g \in Group : Head(wire[t]) = <<"84", g>>
      BY <3>1, <3>2
    <3>4. Head(wire[t])[2] = g
      BY <3>3
    <3>5. early' = IF TooEarly(Head(wire[t])[2]) THEN early \cup {Head(wire[t])[2]} ELSE early
      BY <1>1 DEF ServeDeal
    <3> QED
      BY <3>1, <3>3, <3>4, <3>5
  <2>2. deck' = deck /\ undated' = undated /\ moved' = moved
    BY <1>1 DEF ServeDeal
  <2>3. ASSUME FirstGame(g), TooEarly(g) PROVE FALSE
    <3>1. wire[t][1] = <<"84", g>> /\ 1 \in 1..Len(wire[t])
      BY <2>1, Shortened DEF TypeOK
    <3>2. due[g] # None /\ Seconds(due[g]) <= now
      BY <2>3, <3>1 DEF DealsInTime
    <3>3. \A v \in Tab : lobby[v] # g
      <4>1. deck[g] \in Nat /\ deck[g] <= 1
        BY <2>3 DEF FirstGame, TypeOK
      <4> QED
        BY <3>2, <4>1 DEF StartedOnce
    <3>4. due[g] \in Nat /\ due[g] < Seconds(due[g]) + Sec /\ Seconds(due[g]) \in Nat
      BY <3>2, SecondsBelow DEF TypeOK
    <3>5. now \in Nat /\ Sec \in Nat
      BY ClockAssumption DEF TypeOK, Time
    <3>6. now + Sec <= due[g]
      BY <2>3, <3>2, <3>3 DEF TooEarly
    <3> QED
      BY <3>2, <3>4, <3>5, <3>6
  <2> QED
    <3> SUFFICES ASSUME NEW h \in Group, FirstGame(h)', h \in early' PROVE FALSE
      BY DEF FirstGameOnTime
    <3>1. FirstGame(h)
      BY FirstBefore
    <3> QED
      BY <2>1, <2>3, <3>1 DEF FirstGameOnTime
<1>2. CASE early' = early
  BY <1>2, FirstBefore DEF FirstGameOnTime
<1> QED
  BY <1>1, <1>2, EarlyChange

\* Every action keeps the types, of the room and the handlers, ...
LEMMA RoomTyped ==
  ASSUME TypeOK, StartedOnce, [Next]_vars
  PROVE  /\ now' \in Time
         /\ stage' \in [Group -> {0, 1}] /\ due' \in [Group -> Nat \cup {None}]
         /\ deck' \in [Group -> Nat] /\ dealt' \in [Group -> Nat]
         /\ pc' \in [Tab -> {"idle", "stage", "time"}] /\ lobby' \in [Tab -> Group \cup {None}]
<1>1. now' \in Time
  <2>1. ASSUME Tick PROVE now' \in Time
    <3>1. Lead * Sec \in Nat /\ MaxNow \in Nat
      BY ClockAssumption
    <3>2. PICK x \in Nat : now + 1 + x <= MaxNow
      BY <2>1, <3>1 DEF Tick
    <3> QED
      BY <2>1, <3>1, <3>2 DEF Tick, TypeOK, Time
  <2>2. CASE now' = now
    BY <2>2 DEF TypeOK
  <2> QED
    BY <2>1, <2>2, NowMove
<1> DEFINE Typed == /\ stage' \in [Group -> {0, 1}] /\ due' \in [Group -> Nat \cup {None}]
                    /\ deck' \in [Group -> Nat]
                    /\ pc' \in [Tab -> {"idle", "stage", "time"}] /\ lobby' \in [Tab -> Group \cup {None}]
<1>2. ASSUME NEW t \in Tab, ServeStart(t) PROVE Typed
  <2>1. PICK g \in Group : /\ deck' = [deck EXCEPT ![g] = @ + 1]
                           /\ lobby' = [lobby EXCEPT ![t] = g]
    BY <1>2, Taken DEF ServeStart, Take
  <2>2. stage' = stage /\ due' = due /\ pc' = [pc EXCEPT ![t] = "stage"]
    BY <1>2 DEF ServeStart
  <2> QED
    BY <2>1, <2>2 DEF TypeOK
<1>3. ASSUME NEW t \in Tab, SetStage(t) PROVE Typed
  BY <1>3 DEF SetStage, TypeOK
<1>4. ASSUME NEW t \in Tab, SetStartTime(t) PROVE Typed
  <2>1. now + Lead * Sec \in Nat
    <3>1. Lead * Sec \in Nat
      BY ClockAssumption
    <3> QED
      BY <3>1 DEF TypeOK, Time
  <2> QED
    BY <1>4, <2>1 DEF SetStartTime, TypeOK
<1>5. dealt' \in [Group -> Nat]
  <2>1. ASSUME NEW t \in Tab, ServeDeal(t) PROVE dealt' \in [Group -> Nat]
    <3>1. PICK g \in Group : dealt' = [dealt EXCEPT ![g] = deck[g]]
      BY <2>1, Taken DEF ServeDeal, Take
    <3> QED
      BY <3>1 DEF TypeOK
  <2>2. CASE dealt' = dealt
    BY <2>2 DEF TypeOK
  <2> QED
    BY <2>1, <2>2, DealtMove
<1>6. Typed
  <2>1. CASE UNCHANGED <<pc, lobby, deck, due, stage>>
    BY <2>1 DEF TypeOK
  <2> QED
    BY <1>2, <1>3, <1>4, <2>1, RoomChange
<1> QED
  BY <1>1, <1>5, <1>6

\* ... of what is under way, ...
LEMMA MessagesTyped ==
  ASSUME TypeOK, StartedOnce, AtHome, [Next]_vars
  PROVE  /\ wire' \in [Tab -> Seq(Kind \X Group)]
         /\ gets' \in [Tab -> Seq(Request \cup Answer)]
         /\ inbox' \in [Tab -> Seq(Kind \X Group)]
<1>1. wire' \in [Tab -> Seq(Kind \X Group)]
  <2>1. ASSUME NEW t \in Tab, wire[t] # <<>>, wire' = [wire EXCEPT ![t] = Tail(@)]
        PROVE  wire' \in [Tab -> Seq(Kind \X Group)]
    BY <2>1, Taken DEF TypeOK
  <2>2. ASSUME NEW t \in Tab, Cut(t) PROVE wire' \in [Tab -> Seq(Kind \X Group)]
    <3>1. PICK n \in 0..Len(wire[t]) : wire' = [wire EXCEPT ![t] = SubSeq(@, 1, n)]
      BY <2>2 DEF Cut
    <3> QED
      BY <3>1, CutShort DEF TypeOK
  <2>3. ASSUME NEW t \in Tab, NEW kind \in Kind, Send(t, kind)
        PROVE  wire' \in [Tab -> Seq(Kind \X Group)]
    <3>1. wire' = wire \/ (inGroup[t] /\ wire' = [wire EXCEPT ![t] = Append(@, <<kind, toGroup[t]>>)])
      BY <2>3 DEF Send
    <3>2. inGroup[t] => Append(wire[t], <<kind, toGroup[t]>>) \in Seq(Kind \X Group)
      BY Sent
    <3> QED
      BY <3>1, <3>2 DEF TypeOK
  <2>4. CASE wire' = wire
    BY <2>4 DEF TypeOK
  <2>5. "84" \in Kind
    BY DEF Kind
  <2> QED
    BY <2>1, <2>2, <2>3, <2>4, <2>5, WireChange
<1>2. gets' \in [Tab -> Seq(Request \cup Answer)]
  <2>1. ASSUME NEW t \in Tab, NEW g \in Group, Ask(t, g)
        PROVE  gets' \in [Tab -> Seq(Request \cup Answer)]
    BY <2>1, Asked DEF Ask, TypeOK
  <2>2. ASSUME NEW t \in Tab, gets' = [gets EXCEPT ![t] = <<>>]
        PROVE  gets' \in [Tab -> Seq(Request \cup Answer)]
    BY <2>2 DEF TypeOK
  <2>3. ASSUME NEW t \in Tab, NEW i \in 1..Len(gets[t]), gets' = [gets EXCEPT ![t] = RemoveAt(@, i)]
        PROVE  gets' \in [Tab -> Seq(Request \cup Answer)]
    BY <2>3, Dropped DEF TypeOK
  <2>4. ASSUME NEW t \in Tab, NEW i \in 1..Len(gets[t]), GetInfo(t, i)
        PROVE  gets' \in [Tab -> Seq(Request \cup Answer)]
    <3>1. PICK g \in Group : gets' = [gets EXCEPT ![t][i] = [group |-> g, stage |-> stage[g], date |-> Seconds(due[g])]]
      BY <2>4, UnderWay DEF GetInfo
    <3>2. [group |-> g, stage |-> stage[g], date |-> Seconds(due[g])] \in Answer
      <4>1. stage[g] \in {0, 1} /\ Seconds(due[g]) \in Nat \cup {None}
        BY SecondsBelow DEF TypeOK, Seconds
      <4> QED
        BY <4>1 DEF Answer
    <3> QED
      BY <3>1, <3>2, Answered DEF TypeOK
  <2>5. CASE gets' = gets
    BY <2>5 DEF TypeOK
  <2> QED
    BY <2>1, <2>2, <2>3, <2>4, <2>5, GetsChange
<1>3. inbox' \in [Tab -> Seq(Kind \X Group)]
  <2>1. ASSUME NEW kind \in Kind, NEW g \in Group, Tell(Tab, kind, g)
        PROVE  inbox' \in [Tab -> Seq(Kind \X Group)]
    <3>1. \A t \in Tab : inbox[t] \in Seq(Kind \X Group) /\ Append(inbox[t], <<kind, g>>) \in Seq(Kind \X Group)
      BY Heard DEF TypeOK
    <3> QED
      BY <2>1, <3>1 DEF Tell
  <2>2. ASSUME NEW t \in Tab, inbox[t] # <<>>, inbox' = [inbox EXCEPT ![t] = Tail(@)]
        PROVE  inbox' \in [Tab -> Seq(Kind \X Group)]
    BY <2>2, Heard DEF TypeOK
  <2>3. ASSUME NEW t \in Tab, CutInbox(t) PROVE inbox' \in [Tab -> Seq(Kind \X Group)]
    <3>1. PICK n \in 0..Len(inbox[t]) : inbox' = [inbox EXCEPT ![t] = SubSeq(@, 1, n)]
      BY <2>3 DEF CutInbox
    <3> QED
      BY <3>1, Heard DEF TypeOK
  <2>4. ASSUME NEW t \in Tab, inbox' = [inbox EXCEPT ![t] = <<>>]
        PROVE  inbox' \in [Tab -> Seq(Kind \X Group)]
    BY <2>4 DEF TypeOK
  <2>5. CASE inbox' = inbox
    BY <2>5 DEF TypeOK
  <2>6. ASSUME NEW t \in Tab, ServeTouch(t) \/ SetStartTime(t) \/ ServeDeal(t)
        PROVE  \E kind \in Kind, g \in Group : Tell(Tab, kind, g)
    <3>1. CASE ServeTouch(t)
      <4>1. PICK kind \in {"seat", "83"} : Tell(Tab, kind, Head(wire[t])[2]) /\ wire[t] # <<>>
        BY <3>1 DEF ServeTouch, Take
      <4> QED
        BY <4>1, Taken DEF Kind
    <3>2. CASE SetStartTime(t)
      <4>1. Tell(Tab, "82", lobby[t]) /\ lobby[t] \in Group
        BY <3>2 DEF SetStartTime, StartedOnce, TypeOK
      <4> QED
        BY <4>1 DEF Kind
    <3>3. CASE ServeDeal(t)
      <4>1. Tell(Tab, "84", Head(wire[t])[2]) /\ wire[t] # <<>>
        BY <3>3 DEF ServeDeal, Take
      <4> QED
        BY <4>1, Taken DEF Kind
    <3> QED
      BY <2>6, <3>1, <3>2, <3>3
  <2>7. ASSUME NEW t \in Tab, HearElsewhere(t) \/ HearSeat(t) \/ HearRoom(t) \/ HearNight(t) \/ NightFails(t)
        PROVE  inbox[t] # <<>> /\ inbox' = [inbox EXCEPT ![t] = Tail(@)]
    BY <2>7 DEF HearElsewhere, HearSeat, HearRoom, HearNight, NightFails, Hear
  <2>8. ASSUME NEW t \in Tab
        PROVE  (Disconnect(t) => CutInbox(t)) /\ (Reload(t) => inbox' = [inbox EXCEPT ![t] = <<>>])
    BY DEF Disconnect, Reload
  <2> QED
    BY <2>1, <2>2, <2>3, <2>4, <2>5, <2>6, <2>7, <2>8, InboxMove
<1> QED
  BY <1>1, <1>2, <1>3

\* ... of the pages, ...
LEMMA PagesTyped ==
  ASSUME TypeOK, [Next]_vars
  PROVE  /\ inGroup' \in [Tab -> BOOLEAN] /\ toGroup' \in [Tab -> Group \cup {None}]
         /\ panel' \in [Tab -> Group \cup {None}] /\ after' \in [Tab -> Group \cup {None}]
         /\ inputTime' \in [Tab -> Nat \cup {None}]
         /\ interval' \in [Tab -> {"none", "running", "cleared"}] /\ lost' \in [Tab -> BOOLEAN]
<1> DEFINE Place == /\ inGroup' \in [Tab -> BOOLEAN] /\ toGroup' \in [Tab -> Group \cup {None}]
                    /\ panel' \in [Tab -> Group \cup {None}] /\ after' \in [Tab -> Group \cup {None}]
           Counted == /\ inputTime' \in [Tab -> Nat \cup {None}]
                      /\ interval' \in [Tab -> {"none", "running", "cleared"}] /\ lost' \in [Tab -> BOOLEAN]
<1>1. Place
  <2>1. CASE UNCHANGED <<inGroup, toGroup, panel, after>>
    BY <2>1 DEF TypeOK
  <2>2. ASSUME NEW t \in Tab, HearSeat(t) PROVE Place
    BY <2>2 DEF HearSeat, view, TypeOK
  <2>7. ASSUME NEW t \in Tab, HearNight(t) PROVE Place
    BY <2>7 DEF HearNight, TypeOK
  <2>3. ASSUME NEW t \in Tab, Dismiss(t) \/ SelectUser(t) \/ EnterGame(t) \/ ExitGame(t) PROVE Place
    BY <2>3 DEF Dismiss, SelectUser, EnterGame, ExitGame, view, told, TypeOK
  <2>4. ASSUME NEW t \in Tab, NEW g \in Group, SelectGroup(t, g) PROVE Place
    BY <2>4 DEF SelectGroup, told, TypeOK
  <2>5. ASSUME NEW t \in Tab, Reload(t) PROVE Place
    BY <2>5 DEF Reload, TypeOK
  <2>6. ASSUME NEW t \in Tab, NEW i \in 1..Len(gets[t]), Arrive(t, i) PROVE Place
    BY <2>6, UnderWay DEF Arrive, TypeOK
  <2> QED
    BY <2>1, <2>2, <2>3, <2>4, <2>5, <2>6, <2>7, PlaceChange
<1>2. Counted
  <2>1. CASE UNCHANGED <<inputTime, interval, lost, toGroup>>
    BY <2>1 DEF TypeOK
  <2>2. ASSUME NEW t \in Tab, NEW g \in Group, SelectGroup(t, g) PROVE Counted
    BY <2>2 DEF SelectGroup, clock, TypeOK
  <2>3. ASSUME NEW t \in Tab, CountDown(t) PROVE Counted
    BY <2>3 DEF CountDown, TypeOK
  <2>4. ASSUME NEW t \in Tab, Reload(t) PROVE Counted
    BY <2>4 DEF Reload, TypeOK
  <2>5. ASSUME NEW t \in Tab, NEW i \in 1..Len(gets[t]), Arrive(t, i) PROVE Counted
    BY <2>5, UnderWay DEF Arrive, TypeOK
  <2> QED
    BY <2>1, <2>2, <2>3, <2>4, <2>5, ClockChange
<1> QED
  BY <1>1, <1>2

\* ... and of what is counted and remembered.
LEMMA RestTyped ==
  ASSUME TypeOK, [Next]_vars
  PROVE  /\ open' \in [Tab -> BOOLEAN] /\ alert' \in [Tab -> BOOLEAN]
         /\ starts' \in 0..MaxStart /\ touches' \in 0..MaxTouch /\ moves' \in 0..MaxMove
         /\ undated' \in BOOLEAN /\ moved' \in BOOLEAN /\ failed' \in BOOLEAN /\ early' \subseteq Group
<1> DEFINE Shown == open' \in [Tab -> BOOLEAN] /\ alert' \in [Tab -> BOOLEAN]
           Counted == /\ starts' \in 0..MaxStart /\ touches' \in 0..MaxTouch /\ moves' \in 0..MaxMove
                      /\ failed' \in BOOLEAN
           Typed == Shown /\ Counted
<1> USE BoundAssumption DEF view, told, bounds, hist
<1>s. \A x \in Nat : \A y \in 0..x : y < x => y + 1 \in 0..x
  OBVIOUS
<1>m. Move => moves' \in 0..MaxMove
  BY <1>s DEF Move, TypeOK
<1>t. Touch => touches' \in 0..MaxTouch
  BY <1>s DEF Touch, TypeOK
<1>1. ASSUME Tick PROVE Typed
  BY <1>1 DEF Tick, TypeOK
<1>2. ASSUME NEW t \in Tab, Serve(t) PROVE Typed
  BY <1>2 DEF Serve, ServeNobody, ServeTouch, ServeStart, SetStage, SetStartTime, ServeDeal, Tell, TypeOK
<1>3. ASSUME NEW t \in Tab, OnMessage(t) PROVE Typed
  <2>1. ASSUME HearElsewhere(t) \/ HearSeat(t) \/ HearRoom(t) \/ HearNight(t) PROVE Typed
    BY <2>1 DEF HearElsewhere, HearSeat, HearRoom, HearNight, TypeOK
  <2>2. ASSUME NightFails(t) PROVE Typed
    BY <1>m, <2>2 DEF NightFails, TypeOK
  <2> QED
    BY <1>3, <2>1, <2>2 DEF OnMessage
<1>4. ASSUME NEW t \in Tab, Click(t) PROVE Typed
  <2>1. ASSUME NEW g \in Group, SelectGroup(t, g) PROVE Typed
    BY <1>m, <2>1 DEF SelectGroup, TypeOK
  <2>2. ASSUME SelectUser(t) \/ OpenGame(t) PROVE Typed
    BY <1>m, <2>2 DEF SelectUser, OpenGame, TypeOK
  <2>3. ASSUME EnterGame(t) PROVE Typed
    BY <1>t, <2>3 DEF EnterGame, Send, TypeOK
  <2>4. ASSUME ExitGame(t) PROVE Typed
    BY <1>t, <2>4 DEF ExitGame, Send, TypeOK
  <2>5. ASSUME PickCard(t) PROVE Typed
    BY <1>t, <2>5 DEF PickCard, Send, TypeOK
  <2>6. ASSUME StartGame(t) PROVE Typed
    BY <1>s, <2>6 DEF StartGame, Send, TypeOK
  <2> QED
    BY <1>4, <2>1, <2>2, <2>3, <2>4, <2>5, <2>6 DEF Click
<1>5. ASSUME NEW t \in Tab, Dismiss(t) \/ CountDown(t) PROVE Typed
  BY <1>5 DEF Dismiss, CountDown, Send, TypeOK
<1>6. ASSUME NEW t \in Tab, Disconnect(t) \/ Reload(t) PROVE Typed
  <2>1. Move /\ UNCHANGED <<starts, touches, failed>>
    BY <1>6 DEF Disconnect, Reload
  <2>2. Counted
    BY <1>m, <2>1 DEF TypeOK
  <2>3. ASSUME Disconnect(t) PROVE Shown
    <3>1. open' = [open EXCEPT ![t] = FALSE] /\ alert' = alert
      BY <2>3 DEF Disconnect
    <3> QED
      BY <3>1 DEF TypeOK
  <2>4. ASSUME Reload(t) PROVE Shown
    <3>1. open' = [open EXCEPT ![t] = TRUE] /\ alert' = [alert EXCEPT ![t] = FALSE]
      BY <2>4 DEF Reload
    <3> QED
      BY <3>1 DEF TypeOK
  <2> QED
    BY <1>6, <2>2, <2>3, <2>4
<1>7. ASSUME NEW t \in Tab, NEW i \in 1..Len(gets[t]), Get(t, i) PROVE Typed
  <2>1. ASSUME GetInfo(t, i) PROVE Typed
    BY <2>1 DEF GetInfo, TypeOK
  <2>2. ASSUME Arrive(t, i) PROVE Typed
    BY <2>2 DEF Arrive, Send, TypeOK
  <2>3. ASSUME Refused(t, i) PROVE Typed
    BY <2>3 DEF Refused, TypeOK
  <2>4. ASSUME Fail(t, i) PROVE Typed
    BY <1>m, <2>4 DEF Fail, TypeOK
  <2> QED
    BY <1>7, <2>1, <2>2, <2>3, <2>4 DEF Get
<1>8. ASSUME UNCHANGED vars PROVE Typed
  BY <1>8 DEF vars, TypeOK
<1>9. undated' \in BOOLEAN /\ moved' \in BOOLEAN
  <2>1. ASSUME NEW t \in Tab, NEW g \in Group, SelectGroup(t, g)
        PROVE  undated' \in BOOLEAN /\ moved' \in BOOLEAN
    BY <2>1 DEF SelectGroup, TypeOK
  <2>2. ASSUME NEW t \in Tab, NEW i \in 1..Len(gets[t]), GetInfo(t, i)
        PROVE  undated' \in BOOLEAN /\ moved' \in BOOLEAN
    BY <2>2 DEF GetInfo, TypeOK
  <2> QED
    BY <2>1, <2>2, PastChange DEF TypeOK
<1>10. early' \subseteq Group
  <2>1. ASSUME NEW t \in Tab, ServeDeal(t) PROVE early' \subseteq Group
    BY <2>1, Taken DEF ServeDeal, Take, TypeOK
  <2> QED
    BY <2>1, EarlyChange DEF TypeOK
<1> QED
  BY <1>1, <1>2, <1>3, <1>4, <1>5, <1>6, <1>7, <1>8, <1>9, <1>10 DEF Next

LEMMA TypeStep == TypeOK /\ StartedOnce /\ AtHome /\ [Next]_vars => TypeOK'
BY RoomTyped, MessagesTyped, PagesTyped, RestTyped DEF TypeOK

LEMMA InitIInv == Init => IInv
<1> SUFFICES ASSUME Init PROVE IInv
  OBVIOUS
<1>1. TypeOK
  <2>1. /\ now \in Time /\ starts \in 0..MaxStart /\ touches \in 0..MaxTouch /\ moves \in 0..MaxMove
        /\ undated \in BOOLEAN /\ moved \in BOOLEAN /\ failed \in BOOLEAN /\ early \subseteq Group
    <3>1. MaxNow \in Nat /\ MaxStart \in Nat /\ MaxTouch \in Nat /\ MaxMove \in Nat
      BY ClockAssumption, BoundAssumption
    <3>2. {} \subseteq Group
      OBVIOUS
    <3>3. /\ now = 0 /\ starts = 0 /\ touches = 0 /\ moves = 0
          /\ undated = FALSE /\ moved = FALSE /\ failed = FALSE /\ early = {}
      BY DEF Init
    <3>4. now \in Time /\ starts \in 0..MaxStart /\ touches \in 0..MaxTouch /\ moves \in 0..MaxMove
      BY <3>1, <3>3 DEF Time
    <3> QED
      BY <3>2, <3>3, <3>4
  <2>2. /\ wire \in [Tab -> Seq(Kind \X Group)] /\ gets \in [Tab -> Seq(Request \cup Answer)]
        /\ inbox \in [Tab -> Seq(Kind \X Group)]
    <3>1. <<>> \in Seq(Kind \X Group) /\ <<>> \in Seq(Request \cup Answer)
      OBVIOUS
    <3> QED
      BY <3>1 DEF Init
  <2> QED
    BY <2>1, <2>2 DEF Init, TypeOK
<1>2. CountsToStart /\ FirstGameOnTime
  BY DEF Init, CountsToStart, FirstGameOnTime
<1>3. \A t \in Tab : Len(gets[t]) = 0 /\ Len(wire[t]) = 0
  BY DEF Init
<1>4. AnswersDated /\ DealsInTime
  BY <1>3 DEF AnswersDated, DealsInTime
<1>5. AtHome
  BY <1>3 DEF Init, AtHome
<1>6. StartedOnce
  BY NamesAssumption DEF Init, StartedOnce
<1> QED
  BY <1>1, <1>2, <1>4, <1>5, <1>6 DEF IInv

\* The inductive invariant of the countdown.
THEOREM IInvHolds == Spec => []IInv
<1>1. IInv /\ [Next]_vars => IInv'
  BY TypeStep, StartedStep, AtHomeStep, AnswersStep, CountsStep, DealsStep, OnTimeStep DEF IInv
<1> QED
  BY InitIInv, <1>1, PTL DEF Spec

\* The variables keep their types.
THEOREM TypeCorrect == Spec => []TypeOK
<1>1. IInv => TypeOK
  BY DEF IInv
<1> QED
  BY IInvHolds, <1>1, PTL

\* Nobody is dealt a card a second or more before the official start of a room's
\* first game, as long as no page went to another group and none asked for the
\* room between setStage and setStartTime.
THEOREM DealtOnTime == Spec => []FirstGameOnTime
<1>1. IInv => FirstGameOnTime
  BY DEF IInv
<1> QED
  BY IInvHolds, <1>1, PTL
=============================================================================
