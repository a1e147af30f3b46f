-------------------------- MODULE ChatLists_proofs --------------------------
(***************************************************************************)
(* The lists of the chat page, for any groups and any number of requests.  *)
(*                                                                         *)
(* Nothing in the code orders the answers; what the lists show in the end  *)
(* follows from the answer to the request made last.  The invariant says   *)
(* of that request, as long as it is under way and nothing newer has been  *)
(* drawn, what its answer will draw; and of the place it is drawn in, once *)
(* no request for it is under way, what is drawn there.                    *)
(***************************************************************************)
EXTENDS ChatLists, TLAPS

\* The history variables have their types.
HistTyped ==
  /\ want \in [kind : Lists, g : Group \cup {None}]
  /\ shown \in [{"list", "bar"} -> Nat]
  /\ lost \in BOOLEAN /\ behind \in BOOLEAN

\* A list is never asked for with an undefined group (only a leave is).
ListsDefined == \A r \in gets : r.kind \in Lists => r.g \in Group \cup {None}

\* The entry wanted last is that of the open group.
WantIsOpen == want.kind = "info" => want.g = toGroup

Of(kinds) == {r \in gets : r.kind \in kinds}

\* The request made last of these kinds, newer than all that is drawn.
InTurn(r, kinds) == Latest(r, kinds) /\ r.k >= shown[Place(r)]

\* Unless it failed, the last list asked for is the one that is wanted.
ListInTurn == ~lost =>
  /\ \A r \in Of(Lists) : InTurn(r, Lists) => [kind |-> r.kind, g |-> r.g] = want
  /\ Of(Lists) = {} => "list" \in stale \/ list = want

\* Unless a leave that is done has still to ask for the bar again, the last
\* answer under way holds the groups of the user.
BarInTurn == ~behind =>
  \/ \E r \in Of({"left"}) : r.served
  \/ /\ \A r \in Of({"channels"}) :
          InTurn(r, {"channels"}) => ~r.served \/ r.seen = joined
     /\ Of({"channels"}) = {} => "bar" \in stale \/ listed = joined

Typed == TypeOK /\ HistTyped /\ ListsDefined
IInv == Typed /\ UnreadMarked /\ WantIsOpen /\ ListInTurn /\ BarInTurn

-----------------------------------------------------------------------------
(* What an action does to the requests of some kinds.                      *)

LEMMA KindsDiffer == "channels" \notin Lists /\ "left" \notin Lists /\ "none" \notin Lists
BY DEF Lists

\* Nothing that concerns the list has changed.
LEMMA ListFrame ==
  ASSUME ListInTurn, Of(Lists)' = Of(Lists), lost' = lost, want' = want, list' = list,
         shown'["list"] = shown["list"], "list" \in stale' <=> "list" \in stale
  PROVE  ListInTurn'
<1> SUFFICES ASSUME ~lost'
    PROVE  /\ \A r \in Of(Lists)' : InTurn(r, Lists)' => [kind |-> r.kind, g |-> r.g] = want'
           /\ Of(Lists)' = {} => "list" \in stale' \/ list' = want'
  BY DEF ListInTurn
<1>1. ASSUME NEW r \in Of(Lists)', InTurn(r, Lists)' PROVE [kind |-> r.kind, g |-> r.g] = want'
  <2>1. r \in Of(Lists) /\ r.kind \in Lists
    BY DEF Of
  <2>2. InTurn(r, Lists)
    <3>1. \A q \in gets : q.kind \in Lists => q \in gets'
      BY DEF Of
    <3> QED
      BY <1>1, <2>1, <3>1 DEF InTurn, Latest, Place
  <2> QED
    BY <2>1, <2>2 DEF ListInTurn
<1> QED
  BY <1>1 DEF ListInTurn

\* Nothing that concerns the bar has changed.
LEMMA BarFrame ==
  ASSUME BarInTurn, Of({"channels"})' = Of({"channels"}), Of({"left"}) \subseteq Of({"left"})',
         behind' = behind, joined' = joined, listed' = listed,
         shown'["bar"] = shown["bar"], "bar" \in stale' <=> "bar" \in stale
  PROVE  BarInTurn'
<1> SUFFICES ASSUME ~behind', ~\E r \in Of({"left"})' : r.served
    PROVE  /\ \A r \in Of({"channels"})' :
                InTurn(r, {"channels"})' => ~r.served \/ r.seen = joined'
           /\ Of({"channels"})' = {} => "bar" \in stale' \/ listed' = joined'
  BY DEF BarInTurn
<1>0. ~\E r \in Of({"left"}) : r.served
  OBVIOUS
<1>1. ASSUME NEW r \in Of({"channels"})', InTurn(r, {"channels"})'
      PROVE  ~r.served \/ r.seen = joined'
  <2>1. r \in Of({"channels"}) /\ r.kind = "channels"
    BY DEF Of
  <2>2. InTurn(r, {"channels"})
    <3>1. \A q \in gets : q.kind \in {"channels"} => q \in gets'
      BY DEF Of
    <3> QED
      BY <1>1, <2>1, <3>1, KindsDiffer DEF InTurn, Latest, Place
  <2> QED
    BY <1>0, <2>1, <2>2 DEF BarInTurn
<1> QED
  BY <1>0, <1>1 DEF BarInTurn

\* A request is queued with the next number.
LEMMA Asked ==
  ASSUME Typed, NEW kind \in Lists \cup {"channels", "left"},
         NEW g \in Group \cup {None, Undefined},
         Ask(kind, g), kind \in Lists => g \in Group \cup {None}
  PROVE  /\ asked' \in 2..MaxGet /\ asked' = asked + 1
         /\ gets' \subseteq [k : 1 .. asked', kind : Lists \cup {"channels", "left"},
                             g : Group \cup {None, Undefined}, seen : SUBSET Group,
                             served : BOOLEAN]
         /\ \A r, s \in gets' : r.k = s.k => r = s
         /\ ListsDefined'
         /\ \A kinds : kind \notin kinds => Of(kinds)' = Of(kinds)
         /\ \A kinds : kind \in kinds => Of(kinds)' = Of(kinds) \cup {Request(asked + 1, kind, g)}
<1> DEFINE new == Request(asked + 1, kind, g)
<1>1. asked \in 2..MaxGet /\ MaxGet \in Nat /\ asked' = asked + 1 /\ gets' = gets \cup {new}
      /\ asked < MaxGet
  BY ListsAssumption DEF Typed, TypeOK, Ask
<1>2. asked' \in 2..MaxGet
  BY <1>1
<1>3. new \in [k : 1 .. asked', kind : Lists \cup {"channels", "left"},
               g : Group \cup {None, Undefined}, seen : SUBSET Group, served : BOOLEAN]
  BY <1>1 DEF Request
<1>4. new.k = asked + 1 /\ new.kind = kind /\ new.g = g /\ ~new.served
  BY DEF Request
<1> HIDE DEF new
<1>5. \A r \in gets : r.k \in 1..asked
  BY DEF Typed, TypeOK
<1>6. gets \subseteq [k : 1 .. asked', kind : Lists \cup {"channels", "left"},
               g : Group \cup {None, Undefined}, seen : SUBSET Group, served : BOOLEAN]
  <2>1. 1..asked \subseteq 1..asked'
    BY <1>1
  <2>2. gets \subseteq [k : 1 .. asked, kind : Lists \cup {"channels", "left"},
               g : Group \cup {None, Undefined}, seen : SUBSET Group, served : BOOLEAN]
    BY DEF Typed, TypeOK
  <2> QED
    BY <2>1, <2>2
<1>7. \A r, s \in gets' : r.k = s.k => r = s
  <2>1. \A r \in gets : r.k # new.k
    BY <1>1, <1>4, <1>5
  <2> QED
    BY <1>1, <2>1 DEF Typed, TypeOK
<1>8. ListsDefined'
  BY <1>1, <1>4 DEF ListsDefined, Typed
<1>9. \A kinds : kind \notin kinds => Of(kinds)' = Of(kinds)
  BY <1>1, <1>4 DEF Of
<1>10. \A kinds : kind \in kinds => Of(kinds)' = Of(kinds) \cup {new}
  BY <1>1, <1>4 DEF Of
<1> QED
  BY <1>1, <1>2, <1>3, <1>6, <1>7, <1>8, <1>9, <1>10 DEF new

\* The list that is asked for now is the one that is wanted.
LEMMA ListAsked ==
  ASSUME Typed, NEW kind \in Lists, NEW g \in Group \cup {None}, NEW n \in Nat,
         asked <= n, want' = [kind |-> kind, g |-> g],
         Of(Lists)' = Of(Lists) \cup {Request(n + 1, kind, g)}
  PROVE  ListInTurn'
<1> DEFINE new == Request(n + 1, kind, g)
<1>1. new.k = n + 1 /\ new.kind = kind /\ new.g = g
  BY DEF Request
<1>2. new \in Of(Lists)' /\ new \in gets' /\ new.kind \in Lists
  BY <1>1 DEF Of
<1> HIDE DEF new
<1>3. ASSUME NEW r \in Of(Lists)', InTurn(r, Lists)' PROVE [kind |-> r.kind, g |-> r.g] = want'
  <2>1. new.k <= r.k
    BY <1>2, <1>3 DEF InTurn, Latest
  <2>2. \A q \in Of(Lists) : q.k \in 1..asked
    BY DEF Typed, TypeOK, Of
  <2>3. r \notin Of(Lists)
    BY <1>1, <2>1, <2>2 DEF Typed, TypeOK
  <2>4. r = new
    BY <1>3, <2>3 DEF new
  <2> QED
    BY <1>1, <2>4
<1> QED
  BY <1>2, <1>3 DEF ListInTurn

\* A bar that is asked for now has still to be read.
LEMMA BarAsked ==
  ASSUME Typed, NEW n \in Nat, asked <= n,
         Of({"channels"})' = Of({"channels"}) \cup {Request(n + 1, "channels", None)}
  PROVE  BarInTurn'
<1> DEFINE new == Request(n + 1, "channels", None)
<1>1. new.k = n + 1 /\ new.kind = "channels" /\ ~new.served
  BY DEF Request
<1>2. new \in Of({"channels"})' /\ new \in gets'
  BY <1>1 DEF Of
<1> HIDE DEF new
<1>3. ASSUME NEW r \in Of({"channels"})', InTurn(r, {"channels"})' PROVE ~r.served
  <2>1. new.k <= r.k
    BY <1>1, <1>2, <1>3 DEF InTurn, Latest
  <2>2. \A q \in Of({"channels"}) : q.k \in 1..asked
    BY DEF Typed, TypeOK, Of
  <2>3. r \notin Of({"channels"})
    BY <1>1, <2>1, <2>2 DEF Typed, TypeOK
  <2>4. r = new
    BY <1>3, <2>3 DEF new
  <2> QED
    BY <1>1, <2>4
<1> QED
  BY <1>2, <1>3 DEF BarInTurn

-----------------------------------------------------------------------------
(* One lemma for each kind of action.                                      *)

LEMMA InitIInv == Init => IInv
<1> SUFFICES ASSUME Init PROVE IInv
  OBVIOUS
<1>1. TypeOK
  BY ListsAssumption DEF Init, TypeOK, NoList, Request, Lists
<1>2. HistTyped /\ ListsDefined
  <2>1. shown \in [{"list", "bar"} -> Nat]
    BY DEF Init
  <2>2. [kind |-> "chats", g |-> None] \in [kind : Lists, g : Group \cup {None}]
    BY DEF Lists
  <2>3. ListsDefined
    <3>1. \A r \in gets : r.g = None
      BY DEF Init, Request
    <3> QED
      BY <3>1 DEF ListsDefined
  <2> QED
    BY <2>1, <2>2, <2>3 DEF Init, HistTyped
<1>3. UnreadMarked /\ WantIsOpen /\ BarInTurn
  BY DEF Init, UnreadMarked, WantIsOpen, BarInTurn
<1>4. ListInTurn
  <2>1. Of(Lists) = {Request(1, "chats", None)}
    BY DEF Init, Of, Request, Lists
  <2>2. /\ Request(1, "chats", None).kind = "chats" /\ Request(1, "chats", None).g = None
        /\ want = [kind |-> "chats", g |-> None]
    BY DEF Init, Request
  <2> QED
    BY <2>1, <2>2 DEF ListInTurn
<1> QED
  BY <1>1, <1>2, <1>3, <1>4 DEF IInv, Typed

\* A click that asks for a list.
LEMMA AskListStep ==
  ASSUME IInv, NEW kind \in Lists, NEW g \in Group \cup {None},
         AskList(kind, g), toGroup' \in Group \cup {None},
         red' \subseteq red, kind = "info" => toGroup' = g
  PROVE  Typed' /\ WantIsOpen' /\ ListInTurn' /\ BarInTurn'
<1>1. Ask(kind, g) /\ Typed
  BY DEF AskList, IInv
<1>2. Typed'
  <2>1. HistTyped'
    BY <1>1 DEF AskList, Typed, HistTyped
  <2>2. kind \in Lists \cup {"channels", "left"} /\ g \in Group \cup {None, Undefined}
    OBVIOUS
  <2>3. /\ asked' \in 2..MaxGet
        /\ gets' \subseteq [k : 1 .. asked', kind : Lists \cup {"channels", "left"},
                            g : Group \cup {None, Undefined}, seen : SUBSET Group,
                            served : BOOLEAN]
        /\ \A r, s \in gets' : r.k = s.k => r = s
        /\ ListsDefined'
    BY <1>1, <2>2, Asked
  <2> QED
    BY <1>1, <2>1, <2>3 DEF AskList, Typed, TypeOK, link
<1>3. WantIsOpen'
  BY DEF AskList, WantIsOpen
<1>4. asked \in Nat
  BY <1>1, ListsAssumption DEF Typed, TypeOK
<1>5. ListInTurn'
  BY <1>1, <1>4, Asked, ListAsked DEF AskList
<1>6. BarInTurn'
  <2>1. kind \notin {"channels"} /\ kind \notin {"left"}
    BY KindsDiffer
  <2>2. Of({"channels"})' = Of({"channels"}) /\ Of({"left"})' = Of({"left"})
    BY <1>1, <2>1, Asked
  <2> QED
    BY <2>2, BarFrame DEF AskList, IInv
<1> QED
  BY <1>2, <1>3, <1>5, <1>6

LEMMA Clicks ==
  ASSUME IInv, ClickMessage \/ ShowFriends \/ \E g \in Group : SelectGroup(g)
  PROVE  IInv'
<1>1. CASE ClickMessage \/ ShowFriends
  <2>1. PICK kind \in {"chats", "friends"} : AskList(kind, None)
    BY <1>1 DEF ClickMessage, ShowFriends
  <2>2. /\ UNCHANGED <<toGroup, red, missed, dropped>>
        /\ toGroup \in Group \cup {None} /\ kind \in Lists /\ kind # "info"
    BY <1>1, <2>1 DEF ClickMessage, ShowFriends, IInv, Typed, TypeOK, Lists
  <2>3. UnreadMarked'
    BY <2>2 DEF IInv, UnreadMarked
  <2> QED
    BY <2>1, <2>2, <2>3, AskListStep DEF IInv
<1>2. ASSUME NEW g \in Group, SelectGroup(g) PROVE IInv'
  <2>1. AskList("info", g) /\ toGroup' = g /\ red' \subseteq red
    BY <1>2 DEF SelectGroup
  <2>2. "info" \in Lists /\ g \in Group \cup {None}
    BY DEF Lists
  <2>3. UnreadMarked'
    BY <1>2 DEF SelectGroup, IInv, UnreadMarked
  <2> QED
    BY <2>1, <2>2, <2>3, AskListStep DEF IInv
<1> QED
  BY <1>1, <1>2

\* What touches neither requests nor lists keeps what is said of them.
LEMMA QuietStep ==
  ASSUME IInv, UNCHANGED <<gets, asked, joined, toGroup, list, listed,
                           want, shown, stale, lost, behind>>,
         red' \subseteq listed, menu' \in Group \cup {None, Undefined},
         conn' \in {"opening", "open", "closed"}, beat' \in {"armed", "sent", "dead"},
         UnreadMarked'
  PROVE  IInv'
<1>1. Typed'
  BY DEF IInv, Typed, TypeOK, HistTyped, ListsDefined
<1>2. Of(Lists)' = Of(Lists) /\ Of({"channels"})' = Of({"channels"}) /\ Of({"left"})' = Of({"left"})
  BY DEF Of
<1>3. ListInTurn' /\ BarInTurn'
  BY <1>2, ListFrame, BarFrame DEF IInv
<1> QED
  BY <1>1, <1>3 DEF IInv, WantIsOpen

LEMMA Quiet ==
  ASSUME IInv, ShowChannelSetting \/ CloseMenu \/ (\E g \in Group : OnGroup(g))
               \/ Open \/ Close \/ Beat \/ Pong
  PROVE  IInv'
<1> USE DEF IInv, Typed
<1>1. CASE ShowChannelSetting
  <2>1. /\ UNCHANGED <<toGroup, list, listed, red, gets, asked, joined, link, hist>>
        /\ menu' \in Group \cup {None, Undefined}
    BY <1>1 DEF ShowChannelSetting, TypeOK
  <2> QED
    BY <2>1, QuietStep DEF TypeOK, hist, link, UnreadMarked
<1>2. CASE CloseMenu
  BY <1>2, QuietStep DEF CloseMenu, TypeOK, hist, link, UnreadMarked
<1>3. ASSUME NEW g \in Group, OnGroup(g) PROVE IInv'
  <2>1. UnreadMarked' /\ red' \subseteq listed
    BY <1>3 DEF OnGroup, TypeOK, UnreadMarked
  <2> QED
    BY <1>3, <2>1, QuietStep DEF OnGroup, TypeOK, link
<1>4. CASE Open \/ Close
  BY <1>4, QuietStep DEF Open, Close, TypeOK, side, hist, UnreadMarked
<1>5. CASE Beat \/ Pong
  BY <1>5, QuietStep DEF Beat, Pong, TypeOK, side, hist, UnreadMarked
<1> QED
  BY <1>1, <1>2, <1>3, <1>4, <1>5

LEMMA LeftChannelStep ==
  ASSUME IInv, LeftChannel
  PROVE  IInv'
<1>1. Typed /\ Ask("left", menu) /\ menu \in Group \cup {None, Undefined}
  BY DEF LeftChannel, IInv, Typed, TypeOK
<1>2. "left" \in Lists \cup {"channels", "left"} /\ "left" \notin Lists
      /\ "left" \notin {"channels"} /\ "left" \in {"left"}
  BY KindsDiffer
<1>3. Typed'
  <2>1. HistTyped'
    BY <1>1 DEF LeftChannel, Typed, HistTyped, hist
  <2> QED
    BY <1>1, <1>2, <2>1, Asked DEF LeftChannel, Typed, TypeOK, link
<1>4. /\ Of(Lists)' = Of(Lists) /\ Of({"channels"})' = Of({"channels"})
      /\ Of({"left"}) \subseteq Of({"left"})'
  BY <1>1, <1>2, Asked
<1>5. ListInTurn' /\ BarInTurn'
  BY <1>4, ListFrame, BarFrame DEF LeftChannel, IInv, hist
<1> QED
  BY <1>3, <1>5 DEF LeftChannel, IInv, WantIsOpen, UnreadMarked, hist

LEMMA JoinStep ==
  ASSUME IInv, Join
  PROVE  IInv'
<1>1. Typed'
  BY DEF Join, IInv, Typed, TypeOK, HistTyped, ListsDefined, side, link
<1>2. ListInTurn'
  <2>1. Of(Lists)' = Of(Lists)
    BY DEF Join, Of
  <2> QED
    BY <2>1, ListFrame DEF Join, IInv, side
<1>3. BarInTurn'
  BY DEF Join, BarInTurn
<1> QED
  BY <1>1, <1>2, <1>3 DEF Join, IInv, UnreadMarked, WantIsOpen, side

\* Two requests at once, the bar and the chats.
LEMMA OnDoneStep ==
  ASSUME IInv, OnDone
  PROVE  IInv'
<1> DEFINE bar == Request(asked + 1, "channels", None)
           chats == Request(asked + 2, "chats", None)
<1>1. /\ asked \in 2..MaxGet /\ MaxGet \in Nat /\ asked' = asked + 2 /\ asked' \in 2..MaxGet
      /\ gets' = gets \cup {bar, chats} /\ want' = [kind |-> "chats", g |-> None]
  BY ListsAssumption DEF OnDone, IInv, Typed, TypeOK
<1>2. /\ bar.k = asked + 1 /\ bar.kind = "channels" /\ bar.g = None
      /\ chats.k = asked + 2 /\ chats.kind = "chats" /\ chats.g = None
  BY DEF Request
<1>3. {bar, chats} \subseteq [k : 1 .. asked', kind : Lists \cup {"channels", "left"},
               g : Group \cup {None, Undefined}, seen : SUBSET Group, served : BOOLEAN]
  BY <1>1 DEF Request, Lists
<1> HIDE DEF bar, chats
<1>4. Typed'
  <2>1. gets' \subseteq [k : 1 .. asked', kind : Lists \cup {"channels", "left"},
               g : Group \cup {None, Undefined}, seen : SUBSET Group, served : BOOLEAN]
    <3>1. 1..asked \subseteq 1..asked'
      BY <1>1
    <3>2. gets \subseteq [k : 1 .. asked, kind : Lists \cup {"channels", "left"},
               g : Group \cup {None, Undefined}, seen : SUBSET Group, served : BOOLEAN]
      BY DEF IInv, Typed, TypeOK
    <3> QED
      BY <1>1, <1>3, <3>1, <3>2
  <2>2. \A r, s \in gets' : r.k = s.k => r = s
    <3>1. \A r \in gets : r.k \in 1..asked
      BY DEF IInv, Typed, TypeOK
    <3>2. \A r \in gets : r.k # bar.k /\ r.k # chats.k
      BY <1>1, <1>2, <3>1
    <3>3. bar.k # chats.k
      BY <1>1, <1>2
    <3> QED
      BY <1>1, <3>2, <3>3 DEF IInv, Typed, TypeOK
  <2>3. HistTyped' /\ ListsDefined'
    <3>1. [kind |-> "chats", g |-> None] \in [kind : Lists, g : Group \cup {None}]
      BY DEF Lists
    <3>2. HistTyped'
      BY <1>1, <3>1 DEF OnDone, IInv, Typed, HistTyped
    <3>3. ListsDefined'
      BY <1>1, <1>2 DEF IInv, Typed, ListsDefined
    <3> QED
      BY <3>2, <3>3
  <2> QED
    BY <1>1, <2>1, <2>2, <2>3 DEF OnDone, IInv, Typed, TypeOK, side, link
<1>5. ListInTurn'
  <2>1. Of(Lists)' = Of(Lists) \cup {chats}
    BY <1>1, <1>2, KindsDiffer DEF Of, Lists
  <2>2. chats = Request((asked + 1) + 1, "chats", None)
    BY <1>1 DEF chats
  <2>3. asked + 1 \in Nat /\ asked <= asked + 1 /\ "chats" \in Lists /\ Typed
    BY <1>1 DEF Lists, IInv
  <2> QED
    BY <1>1, <2>1, <2>2, <2>3, ListAsked
<1>6. BarInTurn'
  <2>1. Of({"channels"})' = Of({"channels"}) \cup {bar}
    BY <1>1, <1>2 DEF Of
  <2>2. asked \in Nat /\ asked <= asked /\ Typed
    BY <1>1 DEF IInv
  <2> QED
    BY <2>1, <2>2, BarAsked DEF bar
<1>7. UnreadMarked' /\ WantIsOpen'
  BY <1>1 DEF OnDone, IInv, UnreadMarked, WantIsOpen, side
<1> QED
  BY <1>4, <1>5, <1>6, <1>7 DEF IInv

-----------------------------------------------------------------------------
(* The server and the answers.                                             *)

\* A request is answered: the types stay, if what is drawn is of theirs.
LEMMA TakenTyped ==
  ASSUME Typed, NEW r \in gets, gets' = gets \ {r}
  PROVE  /\ gets' \subseteq [k : 1 .. asked, kind : Lists \cup {"channels", "left"},
                             g : Group \cup {None, Undefined}, seen : SUBSET Group,
                             served : BOOLEAN]
         /\ \A q, s \in gets' : q.k = s.k => q = s
         /\ ListsDefined'
         /\ \A kinds : Of(kinds)' = Of(kinds) \ {r}
         /\ r.k \in Nat /\ r.kind \in Lists \cup {"channels", "left"} /\ Place(r) \in {"list", "bar"}
         /\ r.seen \subseteq Group
         /\ r.kind \in Lists => r.g \in Group \cup {None}
BY DEF Typed, TypeOK, ListsDefined, Of, Place

LEMMA DrawnTyped ==
  ASSUME Typed, NEW r \in gets, r.k \in Nat, Place(r) \in {"list", "bar"}, Drawn(r)
  PROVE  /\ shown' \in [{"list", "bar"} -> Nat]
         /\ shown'[Place(r)] >= r.k /\ shown'[Place(r)] >= shown[Place(r)]
         /\ \A p \in {"list", "bar"} \ {Place(r)} :
               shown'[p] = shown[p] /\ (p \in stale' <=> p \in stale)
         /\ r.k >= shown[Place(r)] \/ Place(r) \in stale'
<1>1. shown \in [{"list", "bar"} -> Nat] /\ shown[Place(r)] \in Nat
  BY DEF Typed, HistTyped
<1>2. CASE r.k > shown[Place(r)]
  <2>1. shown' = [shown EXCEPT ![Place(r)] = r.k] /\ shown'[Place(r)] = r.k
    BY <1>1, <1>2 DEF Drawn
  <2> QED
    BY <1>1, <1>2, <2>1 DEF Drawn
<1>3. CASE ~(r.k > shown[Place(r)])
  <2>1. shown' = shown
    BY <1>1, <1>3 DEF Drawn
  <2> QED
    BY <1>1, <1>3, <2>1 DEF Drawn
<1> QED
  BY <1>2, <1>3

\* A request in turn after an answer is drawn was in turn before it was.
LEMMA StillInTurn ==
  ASSUME Typed, NEW r \in gets, NEW q \in gets, NEW kinds, r.kind \in kinds,
         gets' = gets \ {r}, shown'[Place(q)] >= r.k, shown'[Place(q)] >= shown[Place(q)],
         shown[Place(q)] \in Nat, shown'[Place(q)] \in Nat, InTurn(q, kinds)'
  PROVE  InTurn(q, kinds)
<1>1. r.k \in Nat /\ q.k \in Nat
  BY DEF Typed, TypeOK
<1>2. q.kind \in kinds /\ q.k >= shown'[Place(q)]
  BY DEF InTurn, Latest, Place
<1>3. q.k >= r.k /\ q.k >= shown[Place(q)]
  BY <1>1, <1>2
<1>4. \A p \in gets : p.kind \in kinds => p.k <= q.k
  BY <1>1, <1>3 DEF InTurn, Latest
<1> QED
  BY <1>2, <1>3, <1>4 DEF InTurn, Latest

\* The only request for a list is the last one.
LEMMA AloneIsLatest ==
  ASSUME Typed, NEW r \in gets, NEW kinds, r.kind \in kinds, Of(kinds) \ {r} = {}
  PROVE  Latest(r, kinds)
<1>1. \A q \in gets : q.kind \in kinds => q = r
  BY DEF Of
<1>2. r.k \in Nat /\ r.k <= r.k
  BY DEF Typed, TypeOK
<1> QED
  BY <1>1, <1>2 DEF Latest

LEMMA AnswerListStep ==
  ASSUME IInv, NEW r \in gets, AnswerList(r)
  PROVE  IInv'
<1>1. /\ Typed /\ gets' = gets \ {r} /\ r.kind \in Lists /\ Place(r) = "list"
      /\ list' = [kind |-> r.kind, g |-> r.g] /\ Drawn(r) /\ shown["list"] \in Nat
  BY DEF AnswerList, IInv, Place, Typed, HistTyped
<1>2. /\ r.k \in Nat /\ r.g \in Group \cup {None}
      /\ \A kinds : Of(kinds)' = Of(kinds) \ {r}
  BY <1>1, TakenTyped
<1>3. /\ shown' \in [{"list", "bar"} -> Nat] /\ shown'["list"] >= r.k
      /\ shown'["list"] >= shown["list"] /\ shown'["list"] \in Nat
      /\ shown'["bar"] = shown["bar"] /\ ("bar" \in stale' <=> "bar" \in stale)
      /\ r.k >= shown["list"] \/ "list" \in stale'
  BY <1>1, <1>2, DrawnTyped
<1>4. Typed'
  <2>1. HistTyped'
    BY <1>1, <1>3 DEF AnswerList, Typed, HistTyped
  <2>2. list' \in [kind : Lists \cup {"none"}, g : Group \cup {None}]
    BY <1>1, <1>2
  <2> QED
    BY <1>1, <2>1, <2>2, TakenTyped DEF AnswerList, Typed, TypeOK, link
<1>5. ListInTurn'
  <2> SUFFICES ASSUME ~lost
      PROVE  /\ \A q \in Of(Lists)' : InTurn(q, Lists)' => [kind |-> q.kind, g |-> q.g] = want
             /\ Of(Lists)' = {} => "list" \in stale' \/ list' = want
    BY DEF ListInTurn, AnswerList
  <2>1. ASSUME NEW q \in Of(Lists)', InTurn(q, Lists)' PROVE [kind |-> q.kind, g |-> q.g] = want
    <3>1. q \in gets /\ q \in Of(Lists) /\ Place(q) = "list"
      BY <1>1 DEF Of, Place
    <3>2. InTurn(q, Lists)
      BY <1>1, <1>3, <2>1, <3>1, StillInTurn
    <3> QED
      BY <3>1, <3>2 DEF IInv, ListInTurn
  <2>2. ASSUME Of(Lists)' = {}, "list" \notin stale' PROVE list' = want
    <3>1. Latest(r, Lists)
      BY <1>1, <1>2, <2>2, AloneIsLatest
    <3>2. InTurn(r, Lists) /\ r \in Of(Lists)
      BY <1>1, <1>3, <2>2, <3>1 DEF InTurn, Of
    <3> QED
      BY <1>1, <3>2 DEF IInv, ListInTurn
  <2> QED
    BY <2>1, <2>2
<1>6. BarInTurn'
  <2>1. Of({"channels"})' = Of({"channels"}) /\ Of({"left"}) \subseteq Of({"left"})'
    <3>1. r \notin Of({"channels"}) /\ r \notin Of({"left"})
      BY <1>1, KindsDiffer DEF Of
    <3> QED
      BY <1>2, <3>1
  <2> QED
    BY <1>3, <2>1, BarFrame DEF AnswerList, IInv
<1> QED
  BY <1>4, <1>5, <1>6 DEF AnswerList, IInv, UnreadMarked, WantIsOpen

LEMMA AnswerChannelsStep ==
  ASSUME IInv, NEW r \in gets, AnswerChannels(r)
  PROVE  IInv'
<1>1. /\ Typed /\ gets' = gets \ {r} /\ r.kind = "channels" /\ Place(r) = "bar" /\ r.served
      /\ listed' = r.seen /\ Drawn(r) /\ shown["bar"] \in Nat
  BY KindsDiffer DEF AnswerChannels, IInv, Place, Typed, HistTyped
<1>2. /\ r.k \in Nat /\ r.seen \subseteq Group
      /\ \A kinds : Of(kinds)' = Of(kinds) \ {r}
  BY <1>1, TakenTyped
<1>3. /\ shown' \in [{"list", "bar"} -> Nat] /\ shown'["bar"] >= r.k
      /\ shown'["bar"] >= shown["bar"] /\ shown'["bar"] \in Nat
      /\ shown'["list"] = shown["list"] /\ ("list" \in stale' <=> "list" \in stale)
      /\ r.k >= shown["bar"] \/ "bar" \in stale'
  BY <1>1, <1>2, DrawnTyped
<1>4. Typed'
  <2>1. HistTyped'
    BY <1>1, <1>3 DEF AnswerChannels, Typed, HistTyped
  <2> QED
    BY <1>1, <1>2, <2>1, TakenTyped DEF AnswerChannels, Typed, TypeOK, link
<1>5. ListInTurn'
  <2>1. Of(Lists)' = Of(Lists)
    <3>1. r \notin Of(Lists)
      BY <1>1, KindsDiffer DEF Of
    <3> QED
      BY <1>2, <3>1
  <2> QED
    BY <1>3, <2>1, ListFrame DEF AnswerChannels, IInv
<1>6. BarInTurn'
  <2> SUFFICES ASSUME ~behind, ~\E q \in Of({"left"})' : q.served
      PROVE  /\ \A q \in Of({"channels"})' :
                   InTurn(q, {"channels"})' => ~q.served \/ q.seen = joined
             /\ Of({"channels"})' = {} => "bar" \in stale' \/ listed' = joined
    BY DEF BarInTurn, AnswerChannels
  <2>0. ~\E q \in Of({"left"}) : q.served
    <3>1. r \notin Of({"left"})
      BY <1>1 DEF Of
    <3> QED
      BY <1>2, <3>1
  <2>1. ASSUME NEW q \in Of({"channels"})', InTurn(q, {"channels"})'
        PROVE  ~q.served \/ q.seen = joined
    <3>1. q \in gets /\ q \in Of({"channels"}) /\ Place(q) = "bar" /\ r.kind \in {"channels"}
      BY <1>1, KindsDiffer DEF Of, Place
    <3>2. InTurn(q, {"channels"})
      BY <1>1, <1>3, <2>1, <3>1, StillInTurn
    <3> QED
      BY <2>0, <3>1, <3>2 DEF IInv, BarInTurn
  <2>2. ASSUME Of({"channels"})' = {}, "bar" \notin stale' PROVE listed' = joined
    <3>0. r.kind \in {"channels"} /\ Of({"channels"}) \ {r} = {}
      BY <1>1, <1>2, <2>2
    <3>1. Latest(r, {"channels"})
      BY <1>1, <3>0, AloneIsLatest
    <3>2. InTurn(r, {"channels"}) /\ r \in Of({"channels"})
      BY <1>1, <1>3, <2>2, <3>1 DEF InTurn, Of
    <3> QED
      BY <1>1, <2>0, <3>2 DEF IInv, BarInTurn
  <2> QED
    BY <2>1, <2>2
<1> QED
  BY <1>4, <1>5, <1>6 DEF AnswerChannels, IInv, UnreadMarked, WantIsOpen

\* When a leave is done, the bar is asked for again.
LEMMA AnswerLeftStep ==
  ASSUME IInv, NEW r \in gets, AnswerLeft(r)
  PROVE  IInv'
<1> DEFINE new == Request(asked + 1, "channels", None)
<1>1. /\ asked \in 2..MaxGet /\ asked' = asked + 1 /\ asked' \in 2..MaxGet
      /\ gets' = (gets \ {r}) \cup {new} /\ r.kind = "left"
  BY ListsAssumption DEF AnswerLeft, IInv, Typed, TypeOK
<1>2. new.k = asked + 1 /\ new.kind = "channels"
  BY DEF Request
<1>3. new \in [k : 1 .. asked', kind : Lists \cup {"channels", "left"},
               g : Group \cup {None, Undefined}, seen : SUBSET Group, served : BOOLEAN]
  BY <1>1 DEF Request
<1> HIDE DEF new
<1>4. Typed'
  <2>1. gets' \subseteq [k : 1 .. asked', kind : Lists \cup {"channels", "left"},
               g : Group \cup {None, Undefined}, seen : SUBSET Group, served : BOOLEAN]
    <3>1. 1..asked \subseteq 1..asked'
      BY <1>1
    <3>2. gets \subseteq [k : 1 .. asked, kind : Lists \cup {"channels", "left"},
               g : Group \cup {None, Undefined}, seen : SUBSET Group, served : BOOLEAN]
      BY DEF IInv, Typed, TypeOK
    <3> QED
      BY <1>1, <1>3, <3>1, <3>2
  <2>2. \A q, s \in gets' : q.k = s.k => q = s
    <3>1. \A q \in gets : q.k \in 1..asked
      BY DEF IInv, Typed, TypeOK
    <3>2. \A q \in gets : q.k # new.k
      BY <1>1, <1>2, <3>1
    <3> QED
      BY <1>1, <3>2 DEF IInv, Typed, TypeOK
  <2>3. ListsDefined'
    BY <1>1, <1>2, KindsDiffer DEF IInv, Typed, ListsDefined
  <2> QED
    BY <1>1, <2>1, <2>2, <2>3 DEF AnswerLeft, IInv, Typed, TypeOK, HistTyped, side, link, hist
<1>5. ListInTurn'
  <2>1. Of(Lists)' = Of(Lists)
    BY <1>1, <1>2, KindsDiffer DEF Of
  <2> QED
    BY <2>1, ListFrame DEF AnswerLeft, IInv, side, hist
<1>6. BarInTurn'
  <2>1. Of({"channels"})' = Of({"channels"}) \cup {new}
    BY <1>1, <1>2 DEF Of
  <2>2. asked \in Nat /\ asked <= asked /\ Typed
    BY <1>1 DEF IInv
  <2> QED
    BY <2>1, <2>2, BarAsked DEF new
<1> QED
  BY <1>4, <1>5, <1>6 DEF AnswerLeft, IInv, UnreadMarked, WantIsOpen, side, hist

\* What the server does for a bar or a leave, at some moment before the answer.
LEMMA ServeStep ==
  ASSUME IInv, NEW r \in gets, Serve(r)
  PROVE  IInv'
<1> DEFINE s == [r EXCEPT !.served = TRUE, !.seen = IF r.kind = "channels" THEN joined ELSE {}]
<1>0. r \in [k : 1 .. asked, kind : Lists \cup {"channels", "left"},
             g : Group \cup {None, Undefined}, seen : SUBSET Group, served : BOOLEAN]
  BY DEF IInv, Typed, TypeOK
<1>1. /\ Typed /\ gets' = (gets \ {r}) \cup {s} /\ r.kind \in {"channels", "left"} /\ r.kind \notin Lists
      /\ UNCHANGED <<toGroup, list, listed, red, menu, asked, conn, beat>>
      /\ UNCHANGED <<missed, dropped, want, shown, stale, lost>>
  BY <1>0 DEF Serve, IInv, side, link
<1>2. /\ s.k = r.k /\ s.kind = r.kind /\ s.served
      /\ r.kind = "channels" => s.seen = joined
      /\ s \in [k : 1 .. asked, kind : Lists \cup {"channels", "left"},
                g : Group \cup {None, Undefined}, seen : SUBSET Group, served : BOOLEAN]
  BY <1>0 DEF IInv, Typed, TypeOK
<1> HIDE DEF s
<1>3. Typed'
  <2>1. gets' \subseteq [k : 1 .. asked', kind : Lists \cup {"channels", "left"},
               g : Group \cup {None, Undefined}, seen : SUBSET Group, served : BOOLEAN]
    BY <1>1, <1>2 DEF Typed, TypeOK
  <2>2. \A q, p \in gets' : q.k = p.k => q = p
    BY <1>1, <1>2 DEF Typed, TypeOK
  <2>3. ListsDefined'
    BY <1>1, <1>2 DEF Typed, ListsDefined
  <2>4. joined' \subseteq Group /\ behind' \in BOOLEAN
    BY DEF Serve, IInv, Typed, TypeOK, HistTyped
  <2> QED
    BY <1>1, <2>1, <2>2, <2>3, <2>4 DEF Typed, TypeOK, HistTyped
<1>4. ListInTurn'
  <2>1. Of(Lists)' = Of(Lists)
    BY <1>1, <1>2 DEF Of
  <2> QED
    BY <1>1, <2>1, ListFrame DEF IInv
<1>5. BarInTurn'
  <2>1. CASE r.kind = "left"
    <3>1. s \in Of({"left"})'
      BY <1>1, <1>2, <2>1 DEF Of
    <3> QED
      BY <1>2, <3>1 DEF BarInTurn
  <2>2. CASE r.kind = "channels"
    <3> SUFFICES ASSUME ~behind', ~\E q \in Of({"left"})' : q.served
        PROVE  /\ \A q \in Of({"channels"})' :
                     InTurn(q, {"channels"})' => ~q.served \/ q.seen = joined'
               /\ Of({"channels"})' = {} => "bar" \in stale' \/ listed' = joined'
      BY DEF BarInTurn
    <3>1. joined' = joined /\ (~behind \/ Latest(r, {"channels"}))
      BY <2>2 DEF Serve
    <3>2. ~\E q \in Of({"left"}) : q.served
      BY <1>1, <1>2, <2>2 DEF Of
    <3>3. s \in Of({"channels"})' /\ s.seen = joined
      BY <1>1, <1>2, <2>2 DEF Of
    <3>4. ASSUME NEW q \in Of({"channels"})', InTurn(q, {"channels"})', q # s
          PROVE  ~q.served \/ q.seen = joined
      <4>1. q \in gets /\ q # r /\ q.kind = "channels" /\ q \in Of({"channels"}) /\ q.k \in Nat /\ r.k \in Nat
        BY <1>0, <1>1, <3>4 DEF Of, Typed, TypeOK
      <4>2. r.k <= q.k /\ r.k # q.k
        BY <1>1, <1>2, <3>3, <3>4, <4>1 DEF InTurn, Latest, Of, Typed, TypeOK
      <4>3. ~Latest(r, {"channels"})
        BY <4>1, <4>2 DEF Latest
      <4>4. InTurn(q, {"channels"})
        <5>1. \A p \in gets : p.kind \in {"channels"} => p.k <= q.k
          BY <1>1, <3>4, <4>2 DEF InTurn, Latest
        <5>2. q.k >= shown[Place(q)]
          BY <1>1, <3>4, <4>1 DEF InTurn, Place
        <5> QED
          BY <4>1, <5>1, <5>2 DEF InTurn, Latest
      <4> QED
        BY <3>1, <3>2, <4>1, <4>3, <4>4 DEF IInv, BarInTurn
    <3> QED
      BY <3>1, <3>3, <3>4
  <2> QED
    BY <1>1, <2>1, <2>2
<1> QED
  BY <1>1, <1>3, <1>4, <1>5 DEF IInv, UnreadMarked, WantIsOpen

LEMMA FailStep ==
  ASSUME IInv, NEW r \in gets, Fail(r)
  PROVE  IInv'
<1>1. /\ Typed /\ gets' = gets \ {r}
      /\ UNCHANGED <<toGroup, list, listed, red, menu, asked, joined, conn, beat>>
      /\ UNCHANGED <<missed, dropped, want, shown, stale>>
      /\ lost' = (lost \/ Latest(r, Lists)) /\ behind' = (behind \/ r.kind \notin Lists)
  BY DEF Fail, IInv, side, link
<1>2. /\ r.k \in Nat /\ \A kinds : Of(kinds)' = Of(kinds) \ {r}
  BY <1>1, TakenTyped
<1>3. Typed'
  <2>1. HistTyped'
    BY <1>1 DEF Typed, HistTyped
  <2> QED
    BY <1>1, <2>1, TakenTyped DEF Typed, TypeOK
<1>4. ListInTurn'
  <2> SUFFICES ASSUME ~lost, ~Latest(r, Lists)
      PROVE  /\ \A q \in Of(Lists)' : InTurn(q, Lists)' => [kind |-> q.kind, g |-> q.g] = want
             /\ Of(Lists)' = {} => "list" \in stale \/ list = want
    BY <1>1 DEF ListInTurn
  <2>1. CASE r.kind \notin Lists
    <3>1. Of(Lists)' = Of(Lists)
      BY <1>2, <2>1 DEF Of
    <3>2. lost' = lost
      BY <1>1 DEF Typed, HistTyped
    <3>3. ListInTurn'
      BY <1>1, <3>1, <3>2, ListFrame DEF IInv
    <3> QED
      BY <1>1, <3>3 DEF ListInTurn
  <2>2. CASE r.kind \in Lists
    <3>1. PICK p \in gets : p.kind \in Lists /\ ~(p.k <= r.k)
      BY <2>2 DEF Latest
    <3>2. p \in Of(Lists)' /\ p \in gets' /\ p.k > r.k /\ p.k \in Nat
      BY <1>1, <1>2, <3>1 DEF Of, Typed, TypeOK
    <3>3. ASSUME NEW q \in Of(Lists)', InTurn(q, Lists)'
          PROVE  [kind |-> q.kind, g |-> q.g] = want
      <4>1. q \in gets /\ q \in Of(Lists) /\ q.k \in Nat /\ p.k <= q.k
        BY <1>1, <3>1, <3>2, <3>3 DEF Of, InTurn, Latest, Typed, TypeOK
      <4>2. InTurn(q, Lists)
        <5>1. \A x \in gets : x.kind \in Lists => x.k <= q.k
          BY <1>1, <1>2, <3>2, <3>3, <4>1 DEF InTurn, Latest
        <5> QED
          BY <1>1, <3>3, <5>1 DEF InTurn, Latest, Place
      <4> QED
        BY <4>1, <4>2 DEF IInv, ListInTurn
    <3> QED
      BY <3>2, <3>3
  <2> QED
    BY <2>1, <2>2
<1>5. BarInTurn'
  <2>1. CASE r.kind \in Lists
    <3>1. Of({"channels"})' = Of({"channels"}) /\ Of({"left"}) \subseteq Of({"left"})'
      <4>1. r \notin Of({"channels"}) /\ r \notin Of({"left"})
        BY <2>1, KindsDiffer DEF Of
      <4> QED
        BY <1>2, <4>1
    <3>2. behind' = behind
      BY <1>1, <2>1 DEF Typed, HistTyped
    <3> QED
      BY <1>1, <3>1, <3>2, BarFrame DEF IInv
  <2>2. CASE r.kind \notin Lists
    BY <1>1, <2>2 DEF BarInTurn
  <2> QED
    BY <2>1, <2>2
<1> QED
  BY <1>1, <1>3, <1>4, <1>5 DEF IInv, UnreadMarked, WantIsOpen

LEMMA StepIInv ==
  ASSUME IInv, [Next]_vars
  PROVE  IInv'
<1>1. CASE UNCHANGED vars
  <2>1. UNCHANGED <<gets, asked, joined, toGroup, list, listed, red, menu, conn, beat>>
        /\ UNCHANGED <<want, shown, stale, lost, behind, missed, dropped>>
    BY <1>1 DEF vars, side, link, hist
  <2> QED
    BY <2>1, QuietStep DEF IInv, Typed, TypeOK, UnreadMarked
<1>2. CASE \/ ClickMessage \/ ShowFriends \/ \E g \in Group : SelectGroup(g)
  BY <1>2, Clicks
<1>3. CASE \/ ShowChannelSetting \/ CloseMenu \/ (\E g \in Group : OnGroup(g))
           \/ Open \/ Close \/ Beat \/ Pong
  BY <1>3, Quiet
<1>4. CASE LeftChannel \/ OnDone \/ Join
  BY <1>4, LeftChannelStep, OnDoneStep, JoinStep
<1>5. ASSUME NEW r \in gets, Serve(r) \/ AnswerList(r) \/ AnswerChannels(r) \/ AnswerLeft(r) \/ Fail(r)
      PROVE  IInv'
  BY <1>5, ServeStep, AnswerListStep, AnswerChannelsStep, AnswerLeftStep, FailStep
<1> QED
  BY <1>1, <1>2, <1>3, <1>4, <1>5 DEF Next

-----------------------------------------------------------------------------
\* The inductive invariant: what the answer to the last request will draw, or
\* has drawn, in each of the two places.
THEOREM IInvHolds == Spec => []IInv
<1>1. IInv /\ [Next]_vars => IInv'
  BY StepIInv
<1> QED
  BY <1>1, InitIInv, PTL DEF Spec

\* The types of the page; a number is never given to two requests.
THEOREM TypeCorrect == Spec => []TypeOK
<1>1. IInv => TypeOK
  BY DEF IInv, Typed
<1> QED
  BY <1>1, IInvHolds, PTL

\* onmessage, channellist and selectGroup together: a group with messages the
\* user was not shown has its red point, unless a redraw of the bar hid it or
\* the bar did not list the group.
THEOREM PointsMarked == Spec => []UnreadMarked
<1>1. IInv => UnreadMarked
  BY DEF IInv
<1> QED
  BY <1>1, IInvHolds, PTL

\* channellist and leftChannel: however many redraws and leaves overlap, once
\* none is under way the bar lists the groups of the user, unless an answer was
\* lost or an older one drawn last.
THEOREM BarIsJoined == Spec => []ListedIsJoined
<1>1. IInv => ListedIsJoined
  <2> SUFFICES ASSUME IInv, ~Pending({"channels", "left"}), ~behind, "bar" \notin stale
      PROVE  listed = joined
    BY DEF ListedIsJoined
  <2>1. Of({"channels"}) = {} /\ Of({"left"}) = {}
    BY DEF Pending, Of
  <2> QED
    BY <2>1 DEF IInv, BarInTurn
<1> QED
  BY <1>1, IInvHolds, PTL

\* userlist, showFriends and viewChannel write one list: when every answer is in
\* it is the one asked for last, and an entry is that of the open group.
THEOREM ListIsWanted == Spec => []ListSettles
<1>1. IInv => ListSettles
  <2> SUFFICES ASSUME IInv, ~Pending(Lists), ~lost, "list" \notin stale
      PROVE  list = want /\ (list.kind = "info" => list.g = toGroup)
    BY DEF ListSettles
  <2>1. Of(Lists) = {}
    BY DEF Pending, Of
  <2> QED
    BY <2>1 DEF IInv, ListInTurn, WantIsOpen
<1> QED
  BY <1>1, IInvHolds, PTL
=============================================================================
