------------------------------ MODULE ChatPane ------------------------------
(***************************************************************************)
(* The message pane of the chat page (chat.js, group.js, event.js): one    *)
(* element #show that every callback writes to, the pages of history asked *)
(* for it, and the scroll listeners that ask for more.                     *)
(*                                                                         *)
(* A row is [chat, n]: the n-th stored message of a chat, or a message     *)
(* that came or went over the socket (n = 0).  Nothing in the repository   *)
(* that runs writes the history tables, so what is stored is a constant.   *)
(* visit counts the chats opened; visit, stray, overtaken and failed are   *)
(* history variables, read by no code.                                     *)
(***************************************************************************)
EXTENDS Integers, Sequences, SequencesExt

CONSTANTS Group, User, None,
          Stored,      \* how many messages of a chat are stored
          PageSize,    \* 25 in group.js
          MaxVisit, MaxPage, MaxLive   \* bounds: chats opened, pages, messages

ASSUME PaneAssumption ==
    /\ None \notin Group \cup User \cup {2, 3} /\ Group \cap User = {}
    /\ Stored \in [Group \cup User -> Nat] /\ PageSize \in Nat \ {0}
    /\ MaxVisit \in Nat /\ MaxPage \in Nat /\ MaxLive \in Nat

VARIABLES
    type,        \* 2: a user is open, 3: a group, None: nothing yet
    toGroup, toUser,
    show,        \* the rows of the pane, top first
    member,      \* the group whose members are listed beside it
    pageNum, isTop,
    scrollers,   \* how many scroll listeners #show has
    asks,        \* requests for history under way
    uploads,     \* files being uploaded
    live,        \* messages so far
    visit, stray, overtaken, failed

pane == <<type, toGroup, toUser>>
pager == <<pageNum, isTop, scrollers>>
hist == <<visit, stray, overtaken, failed>>
vars == <<pane, show, member, pager, asks, uploads, live, hist>>

Row == [chat : Group \cup User \cup {None}, n : Nat]
OpenChat == IF type = 2 THEN toUser ELSE toGroup

Min2(a, b) == IF a < b THEN a ELSE b
Max2(a, b) == IF a < b THEN b ELSE a
\* Page p of a chat of c messages: the query sorts by time, newest first, and
\* the pager skips the pages before p.
PageTop(c, p) == Max2(c - (p - 1) * PageSize, 0)
PageLen(c, p) == Min2(PageSize, PageTop(c, p))
PageOf(g, p) == [i \in 1..PageLen(Stored[g], p) |->
                    [chat |-> g, n |-> PageTop(Stored[g], p) + 1 - i]]

Init ==
    /\ type = None /\ toGroup = None /\ toUser = None
    /\ show = <<>> /\ member = None /\ pageNum = 1 /\ isTop = FALSE /\ scrollers = 0
    /\ asks = {} /\ uploads = 0 /\ live = 0
    /\ visit = 0 /\ stray = FALSE /\ overtaken = FALSE /\ failed = {}

\* The chat changes: what the new visit remembers of itself.
Leave == /\ visit' = visit + 1
         /\ stray' = FALSE /\ overtaken' = FALSE /\ failed' = {}

\* The request of grouphistory for page p of the group that is open now.
GroupHistory(v, g, p) == [visit |-> v, chat |-> g, page |-> p]

\* Seeded fault: the rows of the last chat stay.
SelectGroup_Keeps(g) ==
    /\ visit < MaxVisit
    /\ Leave
    /\ toGroup' = g /\ type' = 3
    /\ pageNum' = 1 /\ isTop' = FALSE
    /\ asks' = asks \cup {GroupHistory(visit + 1, g, 1)}
    /\ UNCHANGED <<toUser, show, member, scrollers, uploads, live>>

\* Seeded fault: the end of the last group's history stays.
SelectGroup_StaysTop(g) ==
    /\ visit < MaxVisit
    /\ Leave
    /\ toGroup' = g /\ type' = 3 /\ show' = <<>>
    /\ pageNum' = 1
    /\ asks' = asks \cup {GroupHistory(visit + 1, g, 1)}
    /\ UNCHANGED <<toUser, member, isTop, scrollers, uploads, live>>

SelectGroup(g) ==
    /\ visit < MaxVisit
    /\ Leave
    /\ toGroup' = g /\ type' = 3 /\ show' = <<>>
    /\ pageNum' = 1 /\ isTop' = FALSE
    /\ asks' = asks \cup {GroupHistory(visit + 1, g, 1)}
    /\ UNCHANGED <<toUser, member, scrollers, uploads, live>>

SelectUser(u) ==
    /\ visit < MaxVisit
    /\ Leave
    /\ toUser' = u /\ type' = 2 /\ show' = <<>>
    /\ asks' = asks \cup {[visit |-> visit + 1, chat |-> u, page |-> 0]}
    /\ UNCHANGED <<toGroup, member, pager, uploads, live>>

\* Seeded fault: a page is asked for before it is counted.
RefreshScroll_Before ==
    /\ scrollers > 0 /\ pageNum < MaxPage
    /\ pageNum' = pageNum + scrollers
    /\ asks' = IF isTop THEN asks
               ELSE asks \cup {GroupHistory(visit, toGroup, pageNum + i - 1) :
                                 i \in 1..scrollers}
    /\ UNCHANGED <<pane, show, member, isTop, scrollers, uploads, live, hist>>

\* One scroll event near the top runs every listener, and each asks for one
\* page more of toGroup, whether a group or a user is open.
RefreshScroll ==
    /\ scrollers > 0 /\ pageNum < MaxPage
    /\ pageNum' = pageNum + scrollers
    /\ asks' = IF isTop THEN asks
               ELSE asks \cup {GroupHistory(visit, toGroup, pageNum + i) :
                                 i \in 1..scrollers}
    /\ UNCHANGED <<pane, show, member, isTop, scrollers, uploads, live, hist>>

\* What an answer tells the history variables.
Answered(a) ==
    /\ asks' = asks \ {a}
    /\ stray' = (stray \/ a.visit # visit)
    /\ overtaken' = (overtaken \/ \E b \in asks : b.visit = a.visit /\ b.page < a.page)
    /\ UNCHANGED <<visit, failed>>

\* Seeded fault: the rows of a page are put on top as they come.
AnswerPage_AsTheyCome(a) ==
    /\ a \in asks /\ a.page > 0
    /\ show' = PageOf(a.chat, a.page) \o show
    /\ isTop' = (isTop \/ PageLen(Stored[a.chat], a.page) # PageSize)
    /\ member' = a.chat
    /\ scrollers' = scrollers + 2
    /\ Answered(a)
    /\ UNCHANGED <<pane, pageNum, uploads, live>>

\* The rows come newest first and each is put on top of the last.
AnswerPage(a) ==
    /\ a \in asks /\ a.page > 0
    /\ show' = Reverse(PageOf(a.chat, a.page)) \o show
    /\ isTop' = (isTop \/ PageLen(Stored[a.chat], a.page) # PageSize)
    /\ member' = a.chat
    /\ scrollers' = scrollers + 2
    /\ Answered(a)
    /\ UNCHANGED <<pane, pageNum, uploads, live>>

UserHistory(a) ==
    /\ a \in asks /\ a.page = 0
    /\ show' = show \o [i \in 1..Stored[a.chat] |-> [chat |-> a.chat, n |-> i]]
    /\ member' = None
    /\ Answered(a)
    /\ UNCHANGED <<pane, pager, uploads, live>>

\* A request without an error callback fails.
Fail(a) ==
    /\ a \in asks
    /\ asks' = asks \ {a}
    /\ failed' = IF a.visit = visit THEN failed \cup {a.page} ELSE failed
    /\ UNCHANGED <<pane, show, member, pager, uploads, live, visit, stray, overtaken>>

Append1(c) == /\ live < MaxLive
              /\ live' = live + 1
              /\ show' = Append(show, [chat |-> c, n |-> 0])

\* Types 1 and 2 go to the pane whatever is open; type 10 when its group was
\* the last one opened.
OnSystem == Append1(None) /\ UNCHANGED <<pane, member, pager, asks, uploads, hist>>
OnPrivate(u) == Append1(u) /\ UNCHANGED <<pane, member, pager, asks, uploads, hist>>
OnGroup(g) ==
    /\ toGroup = g
    /\ Append1(g)
    /\ UNCHANGED <<pane, member, pager, asks, uploads, hist>>

\* Enter in the text field, and a file chosen and stored: both are sent to the
\* chat that is open when the message is made.
SendName == Append1(OpenChat) /\ UNCHANGED <<pane, member, pager, asks, uploads, hist>>
ChooseFile ==
    /\ uploads = 0 /\ live < MaxLive
    /\ uploads' = 1
    /\ UNCHANGED <<pane, show, member, pager, asks, live, hist>>
Uploaded ==
    /\ uploads > 0
    /\ uploads' = uploads - 1
    /\ \/ Append1(OpenChat)
       \/ UNCHANGED <<show, live>>      \* the answer is an error
    /\ UNCHANGED <<pane, member, pager, asks, hist>>

Next ==
    \/ \E g \in Group : SelectGroup(g) \/ OnGroup(g)
    \/ \E u \in User : SelectUser(u) \/ OnPrivate(u)
    \/ \E a \in asks : AnswerPage(a) \/ UserHistory(a) \/ Fail(a)
    \/ RefreshScroll \/ OnSystem \/ SendName \/ ChooseFile \/ Uploaded

Spec == Init /\ [][Next]_vars

-----------------------------------------------------------------------------
TypeOK ==
    /\ type \in {None, 2, 3} /\ toGroup \in Group \cup {None} /\ toUser \in User \cup {None}
    /\ type = 3 => toGroup \in Group
    /\ type = 2 => toUser \in User
    /\ show \in Seq(Row) /\ member \in Group \cup {None}
    /\ pageNum \in Nat \ {0} /\ isTop \in BOOLEAN
    /\ scrollers \in Nat /\ (scrollers > 0 => toGroup \in Group)
    /\ asks \subseteq [visit : 1..visit, chat : Group \cup User, page : Nat]
    /\ \A a \in asks : a.chat \in IF a.page = 0 THEN User ELSE Group
    /\ uploads \in 0..1 /\ live \in 0..MaxLive
    /\ visit \in Nat /\ stray \in BOOLEAN /\ overtaken \in BOOLEAN /\ failed \subseteq Nat

PageNo(g, n) == (Stored[g] - n) \div PageSize + 1

\* A group's pane holds stored messages of that group alone, as long as no
\* request of an earlier visit is answered in this one (group.js selectGroup).
PaneOfGroup == type = 3 /\ ~stray =>
    \A i \in DOMAIN show : show[i].n > 0 => show[i].chat = toGroup

\* And none of them twice, in whatever order the pages come and however many
\* listeners ask for them (group.js refreshScroll, event.js f1 and f2).
NoneTwice == type = 3 /\ ~stray =>
    \A i, j \in DOMAIN show : show[i].n > 0 /\ show[i] = show[j] => i = j

\* No stored message of an open group is out of reach: it is shown, its page
\* was asked for (and is on its way or failed), or scrolling will ask for it,
\* which takes a listener and so an answer.  An answer of an earlier visit can
\* end the paging (isTop) before its time.
NothingLost == type = 3 /\ ~stray =>
    \A n \in 1..Stored[toGroup] :
        LET p == PageNo(toGroup, n) IN
        \/ \E i \in DOMAIN show : show[i] = [chat |-> toGroup, n |-> n]
        \/ GroupHistory(visit, toGroup, p) \in asks
        \/ p \in failed
        \/ p > pageNum /\ ~isTop /\ (scrollers = 0 => asks # {} \/ failed # {})

\* When no page overtook another and none failed, the pane is the end of the
\* stored history in order, above what came since.
EndOfHistory == type = 3 /\ ~stray /\ ~overtaken /\ failed = {} =>
    \E k \in 0..Len(show) : \A i \in DOMAIN show :
        IF i <= k THEN show[i] = [chat |-> toGroup, n |-> Stored[toGroup] - k + i]
        ELSE show[i].n = 0

\* The list of members is that of the open group once its first page is there,
\* whatever was listed before (group.js grouphistory, chat.js userhistory).
MembersSettle == type = 3 /\ ~stray /\ failed = {} /\ member # toGroup =>
    GroupHistory(visit, toGroup, 1) \in asks
=============================================================================
