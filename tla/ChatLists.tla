------------------------------ MODULE ChatLists ------------------------------
(***************************************************************************)
(* The left side of the chat page (chat.js, group.js, event.js): the bar   *)
(* of channels with their red points, the list beside it that three        *)
(* functions write to (chats, friends, one channel), the channels' context *)
(* menu, and the heartbeat of the page's socket.                           *)
(*                                                                         *)
(* Every list is drawn by the answer to a request, whatever was drawn      *)
(* since it was asked for.  The variables of hist are history variables,   *)
(* read by no code.                                                        *)
(***************************************************************************)
EXTENDS Integers

CONSTANTS Group, None, Undefined,
          MaxGet          \* bound: requests

ASSUME ListsAssumption ==
  /\ {None, Undefined} \cap Group = {} /\ None # Undefined
  /\ MaxGet \in Nat \ {0, 1}

VARIABLES
  toGroup,     \* the group opened last
  list,        \* what #userlist shows: [kind, g]
  listed,      \* the groups in #channellist
  red,         \* those of them whose red point is shown
  menu,        \* channelSettingID while the menu is open, else None
  gets,        \* requests under way; seen is what the server read for them
  asked,       \* requests made so far
  joined,      \* the groups of the user in the database
  conn, beat,  \* the socket; the heartbeat
  missed,      \* groups with messages for another pane since they were opened
  dropped,     \* those whose point a redraw removed, or that were not listed
  want,        \* the list asked for last
  shown,       \* the highest number of an answer drawn, by place
  stale,       \* the places where an older answer was drawn over a newer one
  lost,        \* the last list asked for failed
  behind       \* joined changed, or an answer was lost, since the bar was read

hist == <<missed, dropped, want, shown, stale, lost, behind>>
side == <<toGroup, list, listed, red, menu>>
link == <<conn, beat>>
vars == <<side, gets, asked, joined, link, hist>>

Lists == {"chats", "friends", "info"}
Request(k, kind, g) == [k |-> k, kind |-> kind, g |-> g, seen |-> {}, served |-> FALSE]
Place(r) == IF r.kind \in Lists THEN "list" ELSE "bar"
\* Of the requests of these kinds under way, r was made last.
Latest(r, kinds) == r.kind \in kinds /\ \A q \in gets : q.kind \in kinds => q.k <= r.k
NoList == [kind |-> "none", g |-> None]

TypeOK ==
  /\ toGroup \in Group \cup {None}
  /\ list \in [kind : Lists \cup {"none"}, g : Group \cup {None}]
  /\ red \subseteq listed /\ listed \subseteq Group
  /\ menu \in Group \cup {None, Undefined}
  /\ asked \in 2 .. MaxGet
  /\ gets \subseteq [k : 1 .. asked, kind : Lists \cup {"channels", "left"},
                     g : Group \cup {None, Undefined}, seen : SUBSET Group,
                     served : BOOLEAN]
  /\ \A r, s \in gets : r.k = s.k => r = s
  /\ joined \subseteq Group
  /\ conn \in {"opening", "open", "closed"} /\ beat \in {"armed", "sent", "dead"}

\* $(document).ready: userlist, channellist and the socket; init arms the heartbeat.
Init ==
  /\ toGroup = None /\ list = NoList /\ listed = {} /\ red = {} /\ menu = None
  /\ gets = {Request(1, "chats", None), Request(2, "channels", None)}
  /\ asked = 2 /\ joined \in SUBSET Group
  /\ conn = "opening" /\ beat = "armed"
  /\ missed = {} /\ dropped = {}
  /\ want = [kind |-> "chats", g |-> None]
  /\ shown = [list |-> 0, bar |-> 0] /\ stale = {} /\ lost = FALSE /\ behind = TRUE
-----------------------------------------------------------------------------
(* Clicks.  Every click that reaches the document closes the menu.         *)

\* An ajax call is queued with the next number, and its answer awaited.
Ask(kind, g) == /\ asked < MaxGet /\ asked' = asked + 1
                /\ gets' = gets \cup {Request(asked + 1, kind, g)}

AskList(kind, g) == /\ Ask(kind, g)
                    /\ want' = [kind |-> kind, g |-> g] /\ lost' = FALSE
                    /\ menu' = None
                    /\ UNCHANGED <<list, listed, joined, link, shown, stale, behind>>

ClickMessage == AskList("chats", None) /\ UNCHANGED <<toGroup, red, missed, dropped>>

ShowFriends == AskList("friends", None) /\ UNCHANGED <<toGroup, red, missed, dropped>>

\* Seeded fault: the entry is asked for before the group changes.
SelectGroup_OldEntry(g) ==
  /\ g \in listed \/ list.kind = "chats"
  /\ toGroup' = g /\ red' = red \ {g}
  /\ missed' = missed \ {g} /\ dropped' = dropped \ {g}
  /\ AskList("info", toGroup)

\* selectGroup: from the bar, or from a group's entry in the list of chats.
SelectGroup(g) ==
  /\ g \in listed \/ list.kind = "chats"
  /\ toGroup' = g /\ red' = red \ {g}
  /\ missed' = missed \ {g} /\ dropped' = dropped \ {g}
  /\ AskList("info", g)

\* A right click on a channel; on the red point its id has no "_" to split at.
ShowChannelSetting ==
  \E g \in listed : /\ menu' \in {g} \cup (IF g \in red THEN {Undefined} ELSE {})
                    /\ UNCHANGED <<toGroup, list, listed, red, gets, asked, joined, link,
                                   hist>>

CloseMenu == /\ menu # None /\ menu' = None
             /\ UNCHANGED <<toGroup, list, listed, red, gets, asked, joined, link,
                            hist>>

LeftChannel == /\ menu # None /\ Ask("left", menu) /\ menu' = None
               /\ UNCHANGED <<toGroup, list, listed, red, joined, link, hist>>
-----------------------------------------------------------------------------
(* The server and the answers.                                             *)

\* The database is read, or the row deleted, at some moment before the answer.
Serve(r) ==
  /\ r.kind \notin Lists /\ ~r.served
  /\ gets' = (gets \ {r}) \cup {[r EXCEPT !.served = TRUE,
                                 !.seen = IF r.kind = "channels" THEN joined ELSE {}]}
  /\ joined' = IF r.kind = "left" THEN joined \ {r.g} ELSE joined
  /\ behind' = (behind /\ ~Latest(r, {"channels"}))
  /\ UNCHANGED <<side, asked, link, missed, dropped, want, shown,
                 stale, lost>>

Drawn(r) == /\ shown' = [shown EXCEPT ![Place(r)] = IF r.k > @ THEN r.k ELSE @]
            /\ stale' = IF r.k < shown[Place(r)] THEN stale \cup {Place(r)}
                        ELSE stale \ {Place(r)}

\* success of userlist, showFriends and viewChannel: $("#userlist").html(str)
AnswerList(r) ==
  /\ r.kind \in Lists
  /\ list' = [kind |-> r.kind, g |-> r.g]
  /\ gets' = gets \ {r} /\ Drawn(r)
  /\ UNCHANGED <<toGroup, listed, red, menu, asked, joined, link, missed, dropped, want, lost, behind>>

\* Seeded fault: points stay where no channel is listed.
AnswerChannels_KeepsPoints(r) ==
  /\ r.served /\ r.kind = "channels"
  /\ listed' = r.seen
  /\ gets' = gets \ {r} /\ Drawn(r)
  /\ UNCHANGED <<toGroup, list, red, menu, asked, joined, link, missed, dropped, want,
                 lost, behind>>

\* success of channellist: the new bar has every red point hidden.
AnswerChannels(r) ==
  /\ r.served /\ r.kind = "channels"
  /\ listed' = r.seen /\ red' = {} /\ dropped' = dropped \cup red
  /\ gets' = gets \ {r} /\ Drawn(r)
  /\ UNCHANGED <<toGroup, list, menu, asked, joined, link, missed,
                 want, lost, behind>>

\* Seeded fault: the bar is not read again.
AnswerLeft_Silent(r) ==
  /\ r.served /\ r.kind = "left" /\ asked < MaxGet
  /\ gets' = gets \ {r}
  /\ UNCHANGED <<asked, side, joined, link, hist>>

\* success of leftChannel: channellist().
AnswerLeft(r) ==
  /\ r.served /\ r.kind = "left" /\ asked < MaxGet
  /\ gets' = (gets \ {r}) \cup {Request(asked + 1, "channels", None)}
  /\ asked' = asked + 1
  /\ UNCHANGED <<side, joined, link, hist>>

\* An error, or a code other than 200: nothing is drawn and nothing is said.
Fail(r) ==
  /\ gets' = gets \ {r}
  /\ lost' = (lost \/ Latest(r, Lists))
  /\ behind' = (behind \/ r.kind \notin Lists)
  /\ UNCHANGED <<side, asked, joined, link, missed, dropped, want,
                 shown, stale>>

\* A type-4 message, or the answer to an invitation or a new name:
\* channellist(), userlist().
OnDone ==
  /\ conn = "open" \/ toGroup # None
  /\ asked + 2 <= MaxGet /\ asked' = asked + 2
  /\ gets' = gets \cup {Request(asked + 1, "channels", None),
                        Request(asked + 2, "chats", None)}
  /\ want' = [kind |-> "chats", g |-> None] /\ lost' = FALSE
  /\ UNCHANGED <<side, joined, link, missed, dropped, shown, stale,
                 behind>>

\* Someone else adds the user to a group, or the scheduler stores the new one.
Join == \E g \in Group \ joined :
          /\ joined' = joined \cup {g} /\ behind' = TRUE
          /\ UNCHANGED <<side, gets, asked, link, missed, dropped, want, shown,
                         stale, lost>>
-----------------------------------------------------------------------------
(* The socket.                                                             *)

\* Seeded fault: the point of the open group is lit.
OnGroup_WrongPoint(g) ==
  /\ conn = "open"
  /\ \/ /\ toGroup = g /\ UNCHANGED <<red, missed, dropped>>
     \/ /\ toGroup # g /\ red' = red \cup ({toGroup} \cap listed)
        /\ missed' = missed \cup {g}
        /\ dropped' = dropped \cup ({g} \ listed)
  /\ UNCHANGED <<toGroup, list, listed, menu, gets, asked, joined, link, want, shown,
                 stale, lost, behind>>

\* onmessage, type 10: the open group's goes to the pane, another lights its
\* point (updateRedPoint finds none when the group is not listed).
OnGroup(g) ==
  /\ conn = "open"
  /\ \/ /\ toGroup = g /\ UNCHANGED <<red, missed, dropped>>
     \/ /\ toGroup # g /\ red' = red \cup ({g} \cap listed)
        /\ missed' = missed \cup {g}
        /\ dropped' = dropped \cup ({g} \ listed)
  /\ UNCHANGED <<toGroup, list, listed, menu, gets, asked, joined, link, want,
                 shown, stale, lost, behind>>

Open == /\ conn = "opening" /\ conn' = "open"
        /\ UNCHANGED <<side, gets, asked, joined, beat, hist>>

\* There is no onclose handler, and nothing connects again.
Close == /\ conn # "closed" /\ conn' = "closed"
         /\ UNCHANGED <<side, gets, asked, joined, beat, hist>>

\* The timer of sendHeartBeat; on a socket that is not open send only alerts.
Beat == /\ beat = "armed" /\ beat' = IF conn = "open" THEN "sent" ELSE "dead"
        /\ UNCHANGED <<side, gets, asked, joined, conn, hist>>

\* Seeded fault: the answer arms no timer.
Pong_Unarmed == /\ beat = "sent" /\ conn = "open" /\ beat' = "sent"
                /\ UNCHANGED <<side, gets, asked, joined, conn, hist>>

\* onmessage, type 12.
Pong == /\ beat = "sent" /\ conn = "open" /\ beat' = "armed"
        /\ UNCHANGED <<side, gets, asked, joined, conn, hist>>

Next ==
  \/ ClickMessage \/ ShowFriends \/ \E g \in Group : SelectGroup(g)
  \/ ShowChannelSetting \/ CloseMenu \/ LeftChannel
  \/ \E r \in gets : \/ Serve(r) \/ AnswerList(r) \/ AnswerChannels(r) \/ AnswerLeft(r)
                     \/ Fail(r)
  \/ OnDone \/ Join \/ \E g \in Group : OnGroup(g)
  \/ Open \/ Close \/ Beat \/ Pong

\* Timers fire, and the server answers what it receives.
Spec == Init /\ [][Next]_vars /\ WF_vars(Beat) /\ WF_vars(Pong)
-----------------------------------------------------------------------------
(* Properties.                                                             *)

Pending(kinds) == \E r \in gets : r.kind \in kinds

\* A group with messages the user was not shown has its red point, unless the
\* bar was drawn anew since (which hides every point) or did not list it.
UnreadMarked == missed \subseteq red \cup dropped

\* With no leave and no redraw under way, nothing lost, and the answers drawn
\* in the order asked, the bar lists the user's groups, those left excluded.
ListedIsJoined ==
  (~Pending({"channels", "left"}) /\ ~behind /\ "bar" \notin stale) => listed = joined

\* Three functions write the same list: once every answer is in, and unless
\* an older one was drawn last, it is the list asked for last; and a channel's
\* entry, whose menu invites and renames toGroup, is that of the open group.
ListSettles ==
  (~Pending(Lists) /\ ~lost /\ "list" \notin stale)
    => list = want /\ (list.kind = "info" => list.g = toGroup)

\* The heartbeat goes on while the socket is open: it is sent and armed over
\* and over unless the socket closes, or fired before the socket opened.
BeatsGoOn == \/ []<>(beat = "sent") /\ []<>(beat = "armed")
             \/ <>(conn = "closed") \/ <>(beat = "dead")
=============================================================================
