-------------------------- MODULE ChatPane_proofs --------------------------
(***************************************************************************)
(* The message pane, for any chats, lengths of history, size of page and   *)
(* bounds: no row of another group, none twice, none out of reach, pages   *)
(* in their order, and the members of the group that is open.              *)
(***************************************************************************)
EXTENDS ChatPane, TLAPS

\* Row n of a group's history is on its page p.
InPage(g, p, n) == /\ Stored[g] - p * PageSize < n
                   /\ n <= Stored[g] - (p - 1) * PageSize

\* Inside a visit to a group without a stray answer: what is asked for is asked of
\* that group, page by page, and what is shown is on pages that are no longer asked
\* for.
Visiting == type = 3 /\ ~stray
AskedHere == type = 3 => \A a \in asks : a.visit = visit =>
                            a.chat = toGroup /\ a.page \in 1..pageNum
ShownOnce == Visiting => \A i \in DOMAIN show : show[i].n > 0 =>
                \E p \in 1..pageNum : /\ InPage(toGroup, p, show[i].n)
                                      /\ GroupHistory(visit, toGroup, p) \notin asks

\* The chat that a page is asked for was opened, and toGroup was never unset.
Visited == /\ toGroup \in Group => visit > 0
           /\ \A a \in asks : a.page > 0 => toGroup \in Group

IInv == /\ TypeOK /\ Visited /\ AskedHere
        /\ PaneOfGroup /\ ShownOnce /\ NoneTwice /\ MembersSettle

\* What is asked for stays accounted for: a page that was asked for is on its way,
\* failed, or has all its rows in the pane; the paging ends with a short page only,
\* and begins with a listener that the first page brings.
Accounted(p) == \/ GroupHistory(visit, toGroup, p) \in asks
                \/ p \in failed
                \/ \A n \in 1..Stored[toGroup] : InPage(toGroup, p, n) =>
                     \E i \in DOMAIN show : show[i] = [chat |-> toGroup, n |-> n]
Short(g, p) == PageLen(Stored[g], p) # PageSize
Paging == Visiting =>
  /\ \A p \in 1..pageNum : Accounted(p)
  /\ isTop => \E p \in 1..pageNum : Short(toGroup, p)
  /\ scrollers = 0 => GroupHistory(visit, toGroup, 1) \in asks \/ 1 \in failed

\* The pane is the last k rows of the history above what came since, and no page
\* asked for has a row of them.
EndShown(k) == /\ k <= Stored[toGroup]
               /\ \A i \in DOMAIN show :
                    IF i <= k THEN show[i] = [chat |-> toGroup, n |-> Stored[toGroup] - k + i]
                    ELSE show[i].n = 0
AskedAbove(k) == \A a \in asks : a.visit = visit =>
                    PageTop(Stored[toGroup], a.page) <= Stored[toGroup] - k
InOrder == Visiting /\ ~overtaken /\ failed = {} =>
  \E k \in 0..Len(show) : EndShown(k) /\ AskedAbove(k)

-----------------------------------------------------------------------------
(* Pages.                                                                  *)

\* The limits of a page, without the products.
LEMMA PageLimits ==
  ASSUME NEW g \in Group \cup User, NEW p \in Nat \ {0}
  PROVE  /\ PageTop(Stored[g], p) \in Nat /\ PageLen(Stored[g], p) \in Nat
         /\ PageLen(Stored[g], p) <= PageTop(Stored[g], p)
         /\ \A n \in Int : /\ PageTop(Stored[g], p) - PageLen(Stored[g], p) < n
                           /\ n <= PageTop(Stored[g], p)
              => n > 0 /\ InPage(g, p, n)
<1> DEFINE c == Stored[g]
           before == (p - 1) * PageSize
<1>1. c \in Nat /\ PageSize \in Nat \ {0} /\ before \in Int /\ p * PageSize = before + PageSize
  BY PaneAssumption
<1>2. PageTop(c, p) = IF c - before < 0 THEN 0 ELSE c - before
  BY DEF PageTop, Max2
<1>3. PageLen(c, p) = IF PageSize < PageTop(c, p) THEN PageSize ELSE PageTop(c, p)
  BY DEF PageLen, Min2
<1>4. \A n \in Int : InPage(g, p, n) <=> c - (before + PageSize) < n /\ n <= c - before
  BY <1>1 DEF InPage
<1> HIDE DEF c, before
<1>5. PageTop(c, p) \in Nat /\ PageLen(c, p) \in Nat /\ PageLen(c, p) <= PageTop(c, p)
  BY <1>1, <1>2, <1>3
<1>6. ASSUME NEW n \in Int, PageTop(c, p) - PageLen(c, p) < n, n <= PageTop(c, p)
      PROVE  n > 0 /\ InPage(g, p, n)
  BY <1>1, <1>2, <1>3, <1>4, <1>6
<1> QED
  BY <1>5, <1>6 DEF c

\* What the page's rows are once each has been put on top of the last.
LEMMA PageRows ==
  ASSUME NEW g \in Group, NEW p \in Nat \ {0}, NEW rows, rows = Reverse(PageOf(g, p))
  PROVE  /\ rows \in Seq(Row)
         /\ \A i \in DOMAIN rows : /\ rows[i].chat = g /\ rows[i].n > 0
                                   /\ InPage(g, p, rows[i].n)
         /\ \A i, j \in DOMAIN rows : rows[i] = rows[j] => i = j
<1> DEFINE top == PageTop(Stored[g], p)
           len == PageLen(Stored[g], p)
<1>1. top \in Nat /\ len \in Nat /\ len <= top
  BY PageLimits
<1>2. PageOf(g, p) = [i \in 1..len |-> [chat |-> g, n |-> top + 1 - i]]
  BY DEF PageOf
<1>3. Len(PageOf(g, p)) = len
  BY <1>1, <1>2
<1>4. rows = [i \in 1..len |-> PageOf(g, p)[(len - i) + 1]]
  BY <1>3 DEF Reverse
<1> HIDE DEF top, len
<1>5. \A i \in 1..len : rows[i] = [chat |-> g, n |-> top - len + i]
  <2> SUFFICES ASSUME NEW i \in 1..len PROVE rows[i] = [chat |-> g, n |-> top - len + i]
    OBVIOUS
  <2>1. (len - i) + 1 \in 1..len /\ top + 1 - ((len - i) + 1) = top - len + i
    BY <1>1
  <2> QED
    BY <1>2, <1>4, <2>1
<1>6. DOMAIN rows = 1..len
  BY <1>4
<1>7. ASSUME NEW i \in 1..len
      PROVE  top - len + i \in Nat /\ top - len + i > 0 /\ InPage(g, p, top - len + i)
  BY <1>1, PageLimits DEF top, len
<1>8. rows \in Seq(Row)
  <2>1. ASSUME NEW i \in 1..len PROVE rows[i] \in Row
    <3>1. top - len + i \in Nat /\ rows[i] = [chat |-> g, n |-> top - len + i]
      BY <1>5, <1>7
    <3> QED
      BY <3>1 DEF Row
  <2> QED
    BY <1>1, <1>4, <2>1
<1>9. ASSUME NEW i \in 1..len, NEW j \in 1..len, rows[i] = rows[j] PROVE i = j
  <2>1. rows[i] = [chat |-> g, n |-> top - len + i] /\ rows[j] = [chat |-> g, n |-> top - len + j]
    BY <1>5
  <2>2. rows[i].n = top - len + i /\ rows[j].n = top - len + j
    BY <2>1
  <2>3. top - len + i = top - len + j
    BY <1>9, <2>2
  <2> QED
    BY <1>1, <2>3
<1> QED
  BY <1>5, <1>6, <1>7, <1>8, <1>9

\* A row is on one page.
LEMMA OnePage ==
  ASSUME NEW g \in Group, NEW p \in Nat \ {0}, NEW q \in Nat \ {0}, NEW n \in Nat,
         InPage(g, p, n), InPage(g, q, n)
  PROVE  p = q
<1>1. ASSUME NEW a \in Nat \ {0}, NEW b \in Nat \ {0}, a < b, InPage(g, a, n), InPage(g, b, n)
      PROVE  FALSE
  <2> DEFINE d == b - 1 - a
  <2>1. d \in Nat /\ b - 1 = a + d /\ Stored[g] \in Nat /\ PageSize \in Nat
    BY <1>1, PaneAssumption
  <2>2. (b - 1) * PageSize = a * PageSize + d * PageSize /\ d * PageSize \in Nat
    BY <2>1
  <2>3. a * PageSize \in Int
    BY <2>1
  <2>4. Stored[g] - a * PageSize < n /\ n <= Stored[g] - (b - 1) * PageSize
    BY <1>1 DEF InPage
  <2> QED
    BY <2>1, <2>2, <2>3, <2>4
<1> QED
  BY <1>1

\* What is left by a whole division.
LEMMA Division ==
  ASSUME NEW a \in Nat, NEW b \in Nat \ {0}
  PROVE  a \div b \in Nat /\ b * (a \div b) <= a /\ a < b * (a \div b) + b
<1>1. a \div b \in Int /\ a \div b >= 0
  OBVIOUS
<1>2. b * (a \div b) <= a /\ a < b * (a \div b) + b
  OBVIOUS
<1> QED
  BY <1>1, <1>2

\* Row n of a group is on page PageNo(n).
LEMMA PageNoPage ==
  ASSUME NEW g \in Group, NEW n \in 1..Stored[g]
  PROVE  PageNo(g, n) \in Nat \ {0} /\ InPage(g, PageNo(g, n), n)
<1> DEFINE d == (Stored[g] - n) \div PageSize
<1>1. Stored[g] \in Nat /\ PageSize \in Nat \ {0} /\ Stored[g] - n \in Nat
  BY PaneAssumption
<1>2. d \in Nat /\ PageSize * d <= Stored[g] - n /\ Stored[g] - n < PageSize * d + PageSize
  BY <1>1, Division
<1>3. PageNo(g, n) = d + 1
  BY DEF PageNo
<1> HIDE DEF d
<1>4. (d + 1) * PageSize = PageSize * d + PageSize /\ (d + 1 - 1) * PageSize = PageSize * d
  BY <1>1, <1>2
<1>5. PageSize * d \in Nat
  BY <1>1, <1>2
<1> QED
  BY <1>1, <1>2, <1>3, <1>4, <1>5 DEF InPage

\* A row of a page lies between its limits.
LEMMA RowLimits ==
  ASSUME NEW g \in Group, NEW p \in Nat \ {0}, NEW n \in Nat \ {0}, InPage(g, p, n)
  PROVE  /\ PageTop(Stored[g], p) - PageLen(Stored[g], p) < n
         /\ n <= PageTop(Stored[g], p)
<1> DEFINE c == Stored[g]
           before == (p - 1) * PageSize
<1>1. c \in Nat /\ PageSize \in Nat \ {0} /\ before \in Int /\ p * PageSize = before + PageSize
  BY PaneAssumption
<1>2. PageTop(c, p) = IF c - before < 0 THEN 0 ELSE c - before
  BY DEF PageTop, Max2
<1>3. PageLen(c, p) = IF PageSize < PageTop(c, p) THEN PageSize ELSE PageTop(c, p)
  BY DEF PageLen, Min2
<1>4. c - (before + PageSize) < n /\ n <= c - before
  BY <1>1 DEF InPage
<1> HIDE DEF c, before
<1>5. PageTop(c, p) - PageLen(c, p) < n /\ n <= PageTop(c, p)
  BY <1>1, <1>2, <1>3, <1>4
<1> QED
  BY <1>5 DEF c

\* A later page begins below all of an earlier one, and the earlier one is full if
\* the later has rows.
LEMMA LaterPage ==
  ASSUME NEW g \in Group, NEW p \in Nat \ {0}, NEW q \in Nat \ {0}, p < q
  PROVE  /\ PageTop(Stored[g], q) <= PageTop(Stored[g], p) - PageLen(Stored[g], p)
         /\ Short(g, p) => PageTop(Stored[g], q) = 0
<1> DEFINE c == Stored[g]
           before == (p - 1) * PageSize
           later == (q - 1) * PageSize
           d == q - 1 - p
<1>1. c \in Nat /\ PageSize \in Nat \ {0} /\ d \in Nat /\ q - 1 = (p - 1) + 1 + d /\ p - 1 \in Nat
  BY PaneAssumption
<1>2. later = before + PageSize + d * PageSize /\ d * PageSize \in Nat /\ before \in Nat
  BY <1>1
<1>3. PageTop(c, p) = IF c - before < 0 THEN 0 ELSE c - before
  BY DEF PageTop, Max2
<1>4. PageTop(c, q) = IF c - later < 0 THEN 0 ELSE c - later
  BY DEF PageTop, Max2
<1>5. PageLen(c, p) = IF PageSize < PageTop(c, p) THEN PageSize ELSE PageTop(c, p)
  BY DEF PageLen, Min2
<1>6. later \in Int /\ before + PageSize <= later
  <2> DEFINE e == d * PageSize
  <2>1. later = before + PageSize + e /\ e \in Nat
    BY <1>2
  <2> HIDE DEF later, before, e
  <2> QED
    BY <1>1, <1>2, <2>1
<1>7. PageTop(c, q) <= PageTop(c, p) - PageLen(c, p)
  <2> HIDE DEF c, before, later, d
  <2> QED
    BY <1>1, <1>2, <1>3, <1>4, <1>5, <1>6
<1>8. PageLen(c, p) # PageSize => PageTop(c, q) = 0
  <2> HIDE DEF c, before, later, d
  <2> QED
    BY <1>1, <1>2, <1>3, <1>4, <1>5, <1>6
<1> QED
  BY <1>7, <1>8 DEF Short

\* The rows of a page, each put on top of the last, are its part of the history.
LEMMA PageInOrder ==
  ASSUME NEW g \in Group, NEW p \in Nat \ {0}, NEW rows, rows = Reverse(PageOf(g, p)),
         NEW top, top = PageTop(Stored[g], p), NEW len, len = PageLen(Stored[g], p)
  PROVE  /\ top \in Nat /\ len \in Nat /\ len <= top /\ Len(rows) = len /\ DOMAIN rows = 1..len
         /\ \A i \in 1..len : rows[i] = [chat |-> g, n |-> top - len + i]
<1>1. top \in Nat /\ len \in Nat /\ len <= top
  BY PageLimits
<1>2. PageOf(g, p) = [i \in 1..len |-> [chat |-> g, n |-> top + 1 - i]]
  BY DEF PageOf
<1>3. Len(PageOf(g, p)) = len
  BY <1>1, <1>2
<1>4. rows = [i \in 1..len |-> PageOf(g, p)[(len - i) + 1]]
  BY <1>3 DEF Reverse
<1>5. \A i \in 1..len : rows[i] = [chat |-> g, n |-> top - len + i]
  <2> SUFFICES ASSUME NEW i \in 1..len PROVE rows[i] = [chat |-> g, n |-> top - len + i]
    OBVIOUS
  <2>1. (len - i) + 1 \in 1..len /\ top + 1 - ((len - i) + 1) = top - len + i
    BY <1>1
  <2> QED
    BY <1>2, <1>4, <2>1
<1>6. DOMAIN rows = 1..len /\ Len(rows) = len
  BY <1>1, <1>4
<1> QED
  BY <1>1, <1>5, <1>6

\* What two sequences of rows are, one after the other.
LEMMA TwoParts ==
  ASSUME NEW s \in Seq(Row), NEW u \in Seq(Row)
  PROVE  /\ s \o u \in Seq(Row) /\ DOMAIN (s \o u) = 1..(Len(s) + Len(u))
         /\ \A i \in 1..Len(s) : i \in DOMAIN s /\ (s \o u)[i] = s[i]
         /\ \A i \in 1..(Len(s) + Len(u)) : i \notin 1..Len(s) =>
              i - Len(s) \in DOMAIN u /\ (s \o u)[i] = u[i - Len(s)]
OBVIOUS

-----------------------------------------------------------------------------
(* Steps.                                                                  *)

LEMMA InitIInv == Init => IInv
<1> SUFFICES ASSUME Init PROVE IInv
  OBVIOUS
<1>1. TypeOK
  <2>1. show \in Seq(Row)
    BY DEF Init
  <2>2. /\ type \in {None, 2, 3} /\ toGroup \in Group \cup {None} /\ toUser \in User \cup {None}
        /\ member \in Group \cup {None} /\ uploads \in 0..1 /\ live \in 0..MaxLive
    BY PaneAssumption DEF Init
  <2>3. type # 3 /\ type # 2
    BY PaneAssumption DEF Init
  <2>4. asks \subseteq [visit : 1..visit, chat : Group \cup User, page : Nat] /\ failed \subseteq Nat
    BY DEF Init
  <2>5. /\ pageNum \in Nat \ {0} /\ scrollers \in Nat /\ ~(scrollers > 0) /\ visit \in Nat
        /\ \A a \in asks : a.chat \in IF a.page = 0 THEN User ELSE Group
    BY DEF Init
  <2>6. isTop \in BOOLEAN /\ stray \in BOOLEAN /\ overtaken \in BOOLEAN
    BY DEF Init
  <2> QED
    BY <2>1, <2>2, <2>3, <2>4, <2>5, <2>6 DEF TypeOK
<1>2. type # 3 /\ toGroup \notin Group /\ asks = {}
  BY PaneAssumption DEF Init
<1> QED
  BY <1>1, <1>2 DEF IInv, Visited, AskedHere, PaneOfGroup, ShownOnce, NoneTwice,
                    MembersSettle, Visiting

\* A step that touches neither the pane nor what is asked for.
LEMMA ElsewhereStep ==
  ASSUME IInv, UNCHANGED <<pane, show, member, pager, asks, hist, live>>, uploads' \in 0..1
  PROVE  IInv'
<1> USE DEF pane, pager, hist
<1>1. TypeOK' /\ Visited' /\ AskedHere'
  BY DEF IInv, TypeOK, Visited, AskedHere
<1>2. PaneOfGroup' /\ NoneTwice' /\ MembersSettle'
  BY DEF IInv, PaneOfGroup, NoneTwice, MembersSettle, GroupHistory
<1>3. ShownOnce'
  BY DEF IInv, ShownOnce, Visiting, InPage, GroupHistory
<1> QED
  BY <1>1, <1>2, <1>3 DEF IInv

\* A message below what is shown: not a stored one.
LEMMA LiveStep ==
  ASSUME IInv, NEW c \in Group \cup User \cup {None}, Append1(c),
         UNCHANGED <<pane, member, pager, asks, hist>>, uploads' \in 0..1
  PROVE  IInv'
<1> USE DEF pane, pager, hist
<1> DEFINE row == [chat |-> c, n |-> 0]
<1>1. show' = Append(show, row) /\ live' \in 0..MaxLive /\ row \in Row /\ show \in Seq(Row)
  BY PaneAssumption DEF Append1, IInv, TypeOK, Row
<1>2. show' \in Seq(Row) /\ DOMAIN show' = 1..(Len(show) + 1) /\ DOMAIN show = 1..Len(show)
  BY <1>1
<1>3. \A i \in DOMAIN show' : show'[i].n > 0 => i \in DOMAIN show /\ show'[i] = show[i]
  BY <1>1, <1>2
<1>4. TypeOK' /\ Visited' /\ AskedHere'
  BY <1>1, <1>2 DEF IInv, TypeOK, Visited, AskedHere
<1>5. PaneOfGroup'
  BY <1>3 DEF IInv, PaneOfGroup
<1>6. ShownOnce'
  BY <1>3 DEF IInv, ShownOnce, Visiting, InPage, GroupHistory
<1>7. NoneTwice'
  <2> SUFFICES ASSUME type' = 3, ~stray', NEW i \in DOMAIN show', NEW j \in DOMAIN show',
                      show'[i].n > 0, show'[i] = show'[j]
               PROVE  i = j
    BY DEF NoneTwice
  <2>1. /\ i \in DOMAIN show /\ j \in DOMAIN show /\ show[i].n > 0 /\ show[i] = show[j]
    BY <1>3
  <2> QED
    BY <2>1 DEF IInv, NoneTwice
<1>8. MembersSettle'
  BY DEF IInv, MembersSettle, GroupHistory
<1> QED
  BY <1>4, <1>5, <1>6, <1>7, <1>8 DEF IInv

LEMMA SelectGroupStep ==
  ASSUME IInv, NEW g \in Group, SelectGroup(g)
  PROVE  IInv'
<1> DEFINE ask == GroupHistory(visit + 1, g, 1)
<1>1. /\ toGroup' = g /\ type' = 3 /\ show' = <<>> /\ pageNum' = 1 /\ isTop' = FALSE
      /\ asks' = asks \cup {ask} /\ visit' = visit + 1 /\ stray' = FALSE
      /\ overtaken' = FALSE /\ failed' = {}
      /\ UNCHANGED <<toUser, member, scrollers, uploads, live>>
  BY DEF SelectGroup, Leave
<1>2. /\ visit \in Nat
      /\ asks \subseteq [visit : 1..visit, chat : Group \cup User, page : Nat]
      /\ \A a \in asks : a.chat \in IF a.page = 0 THEN User ELSE Group
  BY DEF IInv, TypeOK
<1>3. asks' \subseteq [visit : 1..visit', chat : Group \cup User, page : Nat]
  BY <1>1, <1>2 DEF GroupHistory
<1>4. \A a \in asks' : a.chat \in IF a.page = 0 THEN User ELSE Group
  BY <1>1, <1>2 DEF GroupHistory
<1>5. TypeOK'
  <2>1. show' \in Seq(Row)
    BY <1>1
  <2>2. /\ type' \in {None, 2, 3} /\ toGroup' \in Group \cup {None}
        /\ toUser' \in User \cup {None} /\ type' # 2
    BY <1>1 DEF IInv, TypeOK
  <2>3. /\ member' \in Group \cup {None} /\ pageNum' \in Nat \ {0} /\ isTop' \in BOOLEAN
        /\ scrollers' \in Nat /\ uploads' \in 0..1 /\ live' \in 0..MaxLive
    <3>1. isTop' \in BOOLEAN
      BY <1>1
    <3>2. pageNum' \in Nat \ {0}
      BY <1>1
    <3> QED
      BY <1>1, <3>1, <3>2 DEF IInv, TypeOK
  <2>4. visit' \in Nat /\ failed' \subseteq Nat
    BY <1>1, <1>2
  <2>5. stray' \in BOOLEAN /\ overtaken' \in BOOLEAN
    BY <1>1
  <2> QED
    BY <1>1, <1>3, <1>4, <2>1, <2>2, <2>3, <2>4, <2>5 DEF TypeOK
<1>6. AskedHere' /\ Visited'
  <2>1. \A a \in asks : a.visit # visit'
    BY <1>1, <1>2
  <2>2. ask.chat = g /\ ask.page = 1
    BY DEF GroupHistory
  <2> QED
    BY <1>1, <1>2, <2>1, <2>2 DEF AskedHere, Visited
<1>7. DOMAIN show' = {}
  BY <1>1
<1>8. MembersSettle'
  BY <1>1 DEF MembersSettle, GroupHistory
<1> QED
  BY <1>5, <1>6, <1>7, <1>8 DEF IInv, PaneOfGroup, ShownOnce, NoneTwice

LEMMA SelectUserStep ==
  ASSUME IInv, NEW u \in User, SelectUser(u)
  PROVE  IInv'
<1> DEFINE ask == [visit |-> visit + 1, chat |-> u, page |-> 0]
<1>1. /\ toUser' = u /\ type' = 2 /\ show' = <<>>
      /\ asks' = asks \cup {ask} /\ visit' = visit + 1 /\ stray' = FALSE
      /\ overtaken' = FALSE /\ failed' = {}
      /\ UNCHANGED <<toGroup, member, pageNum, isTop, scrollers, uploads, live>>
  BY DEF SelectUser, Leave, pager
<1>2. /\ visit \in Nat
      /\ asks \subseteq [visit : 1..visit, chat : Group \cup User, page : Nat]
      /\ \A a \in asks : a.chat \in IF a.page = 0 THEN User ELSE Group
  BY DEF IInv, TypeOK
<1>3. asks' \subseteq [visit : 1..visit', chat : Group \cup User, page : Nat]
  BY <1>1, <1>2
<1>4. \A a \in asks' : a.chat \in IF a.page = 0 THEN User ELSE Group
  BY <1>1, <1>2
<1>5. TypeOK'
  <2>1. show' \in Seq(Row)
    BY <1>1
  <2>2. /\ type' \in {None, 2, 3} /\ toGroup' \in Group \cup {None}
        /\ toUser' \in User \cup {None} /\ type' # 3
    BY <1>1 DEF IInv, TypeOK
  <2>3. /\ member' \in Group \cup {None} /\ pageNum' \in Nat \ {0} /\ isTop' \in BOOLEAN
        /\ scrollers' \in Nat /\ uploads' \in 0..1 /\ live' \in 0..MaxLive
        /\ (scrollers' > 0 => toGroup' \in Group)
    BY <1>1 DEF IInv, TypeOK
  <2>4. visit' \in Nat /\ failed' \subseteq Nat
    BY <1>1, <1>2
  <2>5. stray' \in BOOLEAN /\ overtaken' \in BOOLEAN
    BY <1>1
  <2> QED
    BY <1>1, <1>3, <1>4, <2>1, <2>2, <2>3, <2>4, <2>5 DEF TypeOK
<1>6. Visited'
  BY <1>1, <1>2 DEF IInv, Visited
<1>7. type' # 3
  BY <1>1
<1> QED
  BY <1>5, <1>6, <1>7 DEF IInv, AskedHere, PaneOfGroup, ShownOnce, NoneTwice, MembersSettle, Visiting

\* The pages asked for are later than all asked for before.
LEMMA RefreshStep ==
  ASSUME IInv, RefreshScroll
  PROVE  IInv'
<1> DEFINE new == {GroupHistory(visit, toGroup, pageNum + i) : i \in 1..scrollers}
<1>1. /\ pageNum' = pageNum + scrollers /\ asks' \in {asks, asks \cup new}
      /\ UNCHANGED <<type, toGroup, toUser, show, member, isTop, scrollers, uploads, live,
                     visit, stray, overtaken, failed>>
  BY DEF RefreshScroll, pane, hist
<1>2. /\ pageNum \in Nat \ {0} /\ scrollers \in Nat /\ toGroup \in Group /\ visit \in Nat
      /\ visit > 0
  BY DEF RefreshScroll, IInv, TypeOK, Visited
<1>3. \A a \in new : /\ a \in [visit : 1..visit, chat : Group \cup User, page : Nat]
                     /\ a.chat = toGroup /\ a.page > pageNum
                     /\ a.page \in 1..(pageNum + scrollers)
  BY <1>2 DEF GroupHistory
<1>4. asks' \subseteq asks \cup new
  BY <1>1
<1> HIDE DEF new
<1>5. TypeOK'
  <2>1. asks' \subseteq [visit : 1..visit, chat : Group \cup User, page : Nat]
    BY <1>3, <1>4 DEF IInv, TypeOK
  <2>2. \A a \in asks' : a.chat \in IF a.page = 0 THEN User ELSE Group
    BY <1>2, <1>3, <1>4 DEF IInv, TypeOK
  <2> QED
    BY <1>1, <1>2, <2>1, <2>2 DEF IInv, TypeOK
<1>6. AskedHere' /\ Visited'
  <2>1. ASSUME type = 3, NEW a \in asks', a.visit = visit
        PROVE  a.chat = toGroup /\ a.page \in 1..(pageNum + scrollers)
    <3>1. CASE a \in asks
      BY <1>2, <2>1, <3>1 DEF IInv, AskedHere
    <3>2. CASE a \in new
      BY <1>3, <3>2
    <3> QED
      BY <1>4, <3>1, <3>2
  <2>2. AskedHere'
    BY <1>1, <2>1 DEF AskedHere
  <2> QED
    BY <1>1, <1>2, <2>2 DEF Visited
<1>7. \A p \in 1..pageNum : /\ p \in 1..pageNum'
                            /\ GroupHistory(visit, toGroup, p) \notin asks
                                 => GroupHistory(visit, toGroup, p) \notin asks'
  <2>1. ASSUME NEW p \in 1..pageNum PROVE GroupHistory(visit, toGroup, p) \notin new
    <3>1. GroupHistory(visit, toGroup, p).page = p
      BY DEF GroupHistory
    <3> QED
      BY <1>2, <1>3, <3>1
  <2> QED
    BY <1>1, <1>2, <1>4, <2>1
<1>8. ShownOnce'
  BY <1>1, <1>7 DEF IInv, ShownOnce, Visiting, InPage, GroupHistory
<1>9. PaneOfGroup' /\ NoneTwice'
  BY <1>1 DEF IInv, PaneOfGroup, NoneTwice
<1>10. MembersSettle'
  <2>1. asks \subseteq asks'
    BY <1>1
  <2> QED
    BY <1>1, <2>1 DEF IInv, MembersSettle, GroupHistory
<1> QED
  BY <1>5, <1>6, <1>8, <1>9, <1>10 DEF IInv

\* A page of the open group has rows that no page shown before had; a page of an
\* earlier visit makes the pane stray.
LEMMA AnswerPageStep ==
  ASSUME IInv, NEW a \in asks, AnswerPage(a)
  PROVE  IInv'
<1> DEFINE rows == Reverse(PageOf(a.chat, a.page))
<1>1. /\ a.page > 0 /\ show' = rows \o show /\ member' = a.chat /\ scrollers' = scrollers + 2
      /\ asks' = asks \ {a} /\ stray' = (stray \/ a.visit # visit)
      /\ overtaken' = (overtaken \/ \E b \in asks : b.visit = a.visit /\ b.page < a.page)
      /\ isTop' = (isTop \/ PageLen(Stored[a.chat], a.page) # PageSize)
      /\ UNCHANGED <<type, toGroup, toUser, pageNum, uploads, live, visit, failed>>
  BY DEF AnswerPage, Answered, pane
<1>2. /\ asks \subseteq [visit : 1..visit, chat : Group \cup User, page : Nat]
      /\ a.chat \in Group /\ a.page \in Nat \ {0} /\ toGroup \in Group /\ show \in Seq(Row)
      /\ scrollers \in Nat /\ pageNum \in Nat \ {0}
  BY <1>1 DEF IInv, TypeOK, Visited
<1>0. rows = Reverse(PageOf(a.chat, a.page))
  OBVIOUS
<1> HIDE DEF rows
<1>3. /\ rows \in Seq(Row)
      /\ \A i \in DOMAIN rows : /\ rows[i].chat = a.chat /\ rows[i].n > 0
                                /\ InPage(a.chat, a.page, rows[i].n)
      /\ \A i, j \in DOMAIN rows : rows[i] = rows[j] => i = j
  BY <1>2, <1>0, PageRows
<1> DEFINE k == Len(rows)
           old(i) == i \in DOMAIN show' /\ i \notin 1..k
<1>4. /\ show' \in Seq(Row) /\ DOMAIN show' = 1..(k + Len(show)) /\ k \in Nat /\ Len(show) \in Nat
      /\ \A i \in 1..k : i \in DOMAIN rows /\ show'[i] = rows[i]
      /\ \A i : old(i) => i - k \in DOMAIN show /\ show'[i] = show[i - k]
  BY <1>1, <1>2, <1>3, TwoParts
<1>5. TypeOK'
  <2>1. /\ type' \in {None, 2, 3} /\ toGroup' \in Group \cup {None} /\ toUser' \in User \cup {None}
        /\ (type' = 3 => toGroup' \in Group) /\ (type' = 2 => toUser' \in User)
        /\ uploads' \in 0..1 /\ live' \in 0..MaxLive /\ visit' \in Nat /\ failed' \subseteq Nat
    BY <1>1 DEF IInv, TypeOK
  <2>2. /\ member' \in Group \cup {None} /\ pageNum' \in Nat \ {0} /\ scrollers' \in Nat
        /\ (scrollers' > 0 => toGroup' \in Group)
    BY <1>1, <1>2
  <2>3. isTop' \in BOOLEAN /\ stray' \in BOOLEAN /\ overtaken' \in BOOLEAN
    BY <1>1
  <2>4. /\ asks' \subseteq [visit : 1..visit', chat : Group \cup User, page : Nat]
        /\ \A b \in asks' : b.chat \in IF b.page = 0 THEN User ELSE Group
    BY <1>1, <1>2 DEF IInv, TypeOK
  <2> QED
    BY <1>4, <2>1, <2>2, <2>3, <2>4 DEF TypeOK
<1>6. Visited' /\ AskedHere'
  <2>1. Visited'
    BY <1>1 DEF IInv, Visited
  <2>2. AskedHere'
    BY <1>1 DEF IInv, AskedHere
  <2> QED
    BY <2>1, <2>2
<1>7. ASSUME Visiting'
      PROVE  /\ Visiting /\ a.visit = visit /\ a.chat = toGroup /\ a.page \in 1..pageNum
             /\ a = GroupHistory(visit, toGroup, a.page)
  <2>1. Visiting /\ a.visit = visit
    BY <1>1, <1>7 DEF Visiting
  <2>2. a.chat = toGroup /\ a.page \in 1..pageNum
    BY <2>1 DEF IInv, AskedHere, Visiting
  <2>3. a = [visit |-> a.visit, chat |-> a.chat, page |-> a.page]
    BY <1>2
  <2> QED
    BY <2>1, <2>2, <2>3 DEF GroupHistory
<1>8. PaneOfGroup'
  <2> SUFFICES ASSUME Visiting', NEW i \in DOMAIN show', show'[i].n > 0
               PROVE  show'[i].chat = toGroup
    BY <1>1 DEF PaneOfGroup, Visiting
  <2>1. Visiting /\ a.chat = toGroup
    BY <1>7
  <2>2. CASE i \in 1..k
    BY <1>3, <1>4, <2>1, <2>2
  <2>3. CASE i \notin 1..k
    BY <1>4, <2>1, <2>3 DEF IInv, PaneOfGroup, Visiting
  <2> QED
    BY <2>2, <2>3
<1>9. ShownOnce'
  <2> SUFFICES ASSUME Visiting', NEW i \in DOMAIN show', show'[i].n > 0
               PROVE  \E p \in 1..pageNum : /\ InPage(toGroup, p, show'[i].n)
                                            /\ GroupHistory(visit, toGroup, p) \notin asks'
    BY <1>1 DEF ShownOnce, InPage, GroupHistory
  <2>1. /\ Visiting /\ a.chat = toGroup /\ a.page \in 1..pageNum
        /\ a = GroupHistory(visit, toGroup, a.page)
    BY <1>7
  <2>2. CASE i \in 1..k
    <3>1. InPage(toGroup, a.page, show'[i].n)
      BY <1>3, <1>4, <2>1, <2>2
    <3>2. GroupHistory(visit, toGroup, a.page) \notin asks'
      BY <1>1, <2>1
    <3> QED
      BY <2>1, <3>1, <3>2
  <2>3. CASE i \notin 1..k
    <3>1. i - k \in DOMAIN show /\ show'[i] = show[i - k]
      BY <1>4, <2>3
    <3>2. PICK p \in 1..pageNum : /\ InPage(toGroup, p, show[i - k].n)
                                  /\ GroupHistory(visit, toGroup, p) \notin asks
      BY <2>1, <3>1 DEF IInv, ShownOnce
    <3> QED
      BY <1>1, <3>1, <3>2
  <2> QED
    BY <2>2, <2>3
<1>10. NoneTwice'
  <2>1. ASSUME Visiting', NEW i \in 1..k, NEW j \in DOMAIN show', j \notin 1..k
        PROVE  show'[i] # show'[j]
    <3>1. /\ Visiting /\ a.chat = toGroup /\ a.page \in 1..pageNum
          /\ a = GroupHistory(visit, toGroup, a.page)
      BY <1>7, <2>1
    <3>2. show'[i].n > 0 /\ InPage(toGroup, a.page, show'[i].n)
      BY <1>3, <1>4, <2>1, <3>1
    <3>3. j - k \in DOMAIN show /\ show'[j] = show[j - k] /\ show[j - k] \in Row
      BY <1>2, <1>4, <2>1
    <3>4. SUFFICES ASSUME show'[i] = show[j - k] PROVE FALSE
      BY <3>3
    <3>5. PICK p \in 1..pageNum : /\ InPage(toGroup, p, show[j - k].n)
                                  /\ GroupHistory(visit, toGroup, p) \notin asks
      BY <3>1, <3>2, <3>3, <3>4 DEF IInv, ShownOnce
    <3>6. show[j - k].n \in Nat
      BY <3>3 DEF Row
    <3>7. p = a.page
      BY <1>2, <3>1, <3>2, <3>4, <3>5, <3>6, OnePage
    <3> QED
      BY <3>1, <3>5, <3>7
  <2>2. ASSUME Visiting', NEW i \in DOMAIN show', NEW j \in DOMAIN show',
               show'[i].n > 0, show'[i] = show'[j]
        PROVE  i = j
    <3>1. CASE i \in 1..k /\ j \in 1..k
      BY <1>3, <1>4, <2>2, <3>1
    <3>2. CASE i \notin 1..k /\ j \notin 1..k
      <4>1. /\ i - k \in DOMAIN show /\ show'[i] = show[i - k]
            /\ j - k \in DOMAIN show /\ show'[j] = show[j - k]
        BY <1>4, <3>2
      <4>2. i - k = j - k
        BY <1>7, <2>2, <4>1 DEF IInv, NoneTwice, Visiting
      <4> QED
        BY <1>4, <4>2
    <3>3. i \in 1..k <=> j \in 1..k
      BY <2>1, <2>2
    <3> QED
      BY <3>1, <3>2, <3>3
  <2> QED
    BY <2>2 DEF NoneTwice, Visiting
<1>11. MembersSettle'
  <2>1. Visiting' => member' = toGroup'
    BY <1>1, <1>7
  <2> QED
    BY <2>1 DEF MembersSettle, Visiting
<1> QED
  BY <1>5, <1>6, <1>8, <1>9, <1>10, <1>11 DEF IInv

\* A user's history makes the pane of a group stray.
LEMMA UserHistoryStep ==
  ASSUME IInv, NEW a \in asks, UserHistory(a)
  PROVE  IInv'
<1> DEFINE rows == [i \in 1..Stored[a.chat] |-> [chat |-> a.chat, n |-> i]]
<1>1. /\ a.page = 0 /\ show' = show \o rows /\ member' = None
      /\ asks' = asks \ {a} /\ stray' = (stray \/ a.visit # visit)
      /\ overtaken' = (overtaken \/ \E b \in asks : b.visit = a.visit /\ b.page < a.page)
      /\ UNCHANGED <<type, toGroup, toUser, pageNum, isTop, scrollers, uploads, live, visit, failed>>
  BY DEF UserHistory, Answered, pane, pager
<1>2. /\ asks \subseteq [visit : 1..visit, chat : Group \cup User, page : Nat]
      /\ a.chat \in User /\ show \in Seq(Row)
  BY <1>1 DEF IInv, TypeOK
<1>3. rows \in Seq(Row)
  <2>1. Stored[a.chat] \in Nat
    BY <1>2, PaneAssumption
  <2>2. \A i \in 1..Stored[a.chat] : [chat |-> a.chat, n |-> i] \in Row
    BY <1>2, <2>1 DEF Row
  <2> QED
    BY <2>1, <2>2
<1> HIDE DEF rows
<1>4. show' \in Seq(Row)
  BY <1>1, <1>2, <1>3, TwoParts
<1>5. TypeOK'
  <2>1. /\ type' \in {None, 2, 3} /\ toGroup' \in Group \cup {None} /\ toUser' \in User \cup {None}
        /\ (type' = 3 => toGroup' \in Group) /\ (type' = 2 => toUser' \in User)
        /\ uploads' \in 0..1 /\ live' \in 0..MaxLive /\ visit' \in Nat /\ failed' \subseteq Nat
    BY <1>1 DEF IInv, TypeOK
  <2>2. /\ member' \in Group \cup {None} /\ pageNum' \in Nat \ {0} /\ scrollers' \in Nat
        /\ (scrollers' > 0 => toGroup' \in Group) /\ isTop' \in BOOLEAN
    BY <1>1 DEF IInv, TypeOK
  <2>3. stray' \in BOOLEAN /\ overtaken' \in BOOLEAN
    BY <1>1
  <2>4. /\ asks' \subseteq [visit : 1..visit', chat : Group \cup User, page : Nat]
        /\ \A b \in asks' : b.chat \in IF b.page = 0 THEN User ELSE Group
    BY <1>1, <1>2 DEF IInv, TypeOK
  <2> QED
    BY <1>4, <2>1, <2>2, <2>3, <2>4 DEF TypeOK
<1>6. Visited' /\ AskedHere'
  <2>1. Visited'
    BY <1>1 DEF IInv, Visited
  <2>2. AskedHere'
    BY <1>1 DEF IInv, AskedHere
  <2> QED
    BY <2>1, <2>2
<1>7. ~Visiting'
  <2>1. type = 3 => a.visit # visit
    BY <1>1, <1>2 DEF IInv, AskedHere
  <2> QED
    BY <1>1, <2>1 DEF Visiting
<1> QED
  BY <1>5, <1>6, <1>7 DEF IInv, PaneOfGroup, ShownOnce, NoneTwice, MembersSettle, Visiting

\* A page that failed is on the books of the visit that asked for it.
LEMMA FailStep ==
  ASSUME IInv, NEW a \in asks, Fail(a)
  PROVE  IInv'
<1>1. /\ asks' = asks \ {a}
      /\ failed' = IF a.visit = visit THEN failed \cup {a.page} ELSE failed
      /\ UNCHANGED <<type, toGroup, toUser, show, member, pageNum, isTop, scrollers, uploads,
                     live, visit, stray, overtaken>>
  BY DEF Fail, pane, pager
<1>2. a \in [visit : 1..visit, chat : Group \cup User, page : Nat]
  BY DEF IInv, TypeOK
<1>3. TypeOK'
  <2>1. failed' \subseteq Nat
    BY <1>1, <1>2 DEF IInv, TypeOK
  <2>2. /\ asks' \subseteq [visit : 1..visit', chat : Group \cup User, page : Nat]
        /\ \A b \in asks' : b.chat \in IF b.page = 0 THEN User ELSE Group
    BY <1>1 DEF IInv, TypeOK
  <2> QED
    BY <1>1, <2>1, <2>2 DEF IInv, TypeOK
<1>4. Visited' /\ AskedHere'
  <2>1. Visited'
    BY <1>1 DEF IInv, Visited
  <2>2. AskedHere'
    BY <1>1 DEF IInv, AskedHere
  <2> QED
    BY <2>1, <2>2
<1>5. PaneOfGroup' /\ NoneTwice'
  BY <1>1 DEF IInv, PaneOfGroup, NoneTwice
<1>6. ShownOnce'
  BY <1>1 DEF IInv, ShownOnce, Visiting, InPage, GroupHistory
<1>7. MembersSettle'
  <2>1. failed' = {} => failed = {} /\ a.visit # visit
    BY <1>1
  <2>2. a.visit # visit => a # GroupHistory(visit, toGroup, 1)
    BY DEF GroupHistory
  <2> QED
    BY <1>1, <2>1, <2>2 DEF IInv, MembersSettle, GroupHistory
<1> QED
  BY <1>3, <1>4, <1>5, <1>6, <1>7 DEF IInv

LEMMA StepIInv == IInv /\ [Next]_vars => IInv'
<1> SUFFICES ASSUME IInv, [Next]_vars PROVE IInv'
  OBVIOUS
<1> USE DEF pane, pager, hist
<1>0. uploads \in 0..1
  BY DEF IInv, TypeOK
<1>1. ASSUME NEW g \in Group, SelectGroup(g) PROVE IInv'
  BY <1>1, SelectGroupStep
<1>2. ASSUME NEW g \in Group, OnGroup(g) PROVE IInv'
  BY <1>0, <1>2, LiveStep DEF OnGroup
<1>3. ASSUME NEW u \in User, SelectUser(u) PROVE IInv'
  BY <1>3, SelectUserStep
<1>4. ASSUME NEW u \in User, OnPrivate(u) PROVE IInv'
  BY <1>0, <1>4, LiveStep DEF OnPrivate
<1>5. ASSUME NEW a \in asks, AnswerPage(a) PROVE IInv'
  BY <1>5, AnswerPageStep
<1>6. ASSUME NEW a \in asks, UserHistory(a) PROVE IInv'
  BY <1>6, UserHistoryStep
<1>7. ASSUME NEW a \in asks, Fail(a) PROVE IInv'
  BY <1>7, FailStep
<1>8. CASE RefreshScroll
  BY <1>8, RefreshStep
<1>9. CASE OnSystem
  BY <1>0, <1>9, LiveStep DEF OnSystem
<1>10. OpenChat \in Group \cup User \cup {None}
  BY DEF OpenChat, IInv, TypeOK
<1>11. CASE SendName
  BY <1>0, <1>10, <1>11, LiveStep DEF SendName
<1>12. CASE ChooseFile
  <2>1. uploads' \in 0..1 /\ UNCHANGED <<pane, show, member, pager, asks, hist, live>>
    BY <1>12 DEF ChooseFile
  <2> QED
    BY <2>1, ElsewhereStep
<1>13. CASE Uploaded
  <2>1. uploads' \in 0..1 /\ UNCHANGED <<pane, member, pager, asks, hist>>
    BY <1>0, <1>13 DEF Uploaded
  <2>2. CASE Append1(OpenChat)
    BY <1>10, <2>1, <2>2, LiveStep
  <2>3. CASE UNCHANGED <<show, live>>
    BY <2>1, <2>3, ElsewhereStep
  <2> QED
    BY <1>13, <2>2, <2>3 DEF Uploaded
<1>14. CASE UNCHANGED vars
  BY <1>0, <1>14, ElsewhereStep DEF vars
<1> QED
  BY <1>1, <1>2, <1>3, <1>4, <1>5, <1>6, <1>7, <1>8, <1>9, <1>11, <1>12, <1>13, <1>14 DEF Next

\* The invariant that the four theorems are parts of.
LEMMA IInvHolds == Spec => []IInv
<1>1. Init => IInv
  BY InitIInv
<1>2. IInv /\ [Next]_vars => IInv'
  BY StepIInv
<1> QED
  BY <1>1, <1>2, PTL DEF Spec

-----------------------------------------------------------------------------
(* The paging and the order of the rows.                                   *)

\* A step that touches neither the group's pane nor its pages.
LEMMA PagingFrame ==
  ASSUME Paging, InOrder,
         UNCHANGED <<type, toGroup, show, pageNum, isTop, scrollers, asks, hist>>
  PROVE  Paging' /\ InOrder'
BY DEF Paging, InOrder, Visiting, Accounted, InPage, GroupHistory, Short, PageLen, PageTop,
       Min2, Max2, EndShown, AskedAbove, hist

\* A message below what is shown: the rows of the history stay where they are.
LEMMA LivePaging ==
  ASSUME IInv, Paging, InOrder, NEW c \in Group \cup User \cup {None}, Append1(c),
         UNCHANGED <<pane, member, pager, asks, hist>>
  PROVE  Paging' /\ InOrder'
<1> USE DEF pane, pager, hist
<1> DEFINE row == [chat |-> c, n |-> 0]
<1>1. show' = Append(show, row) /\ row \in Row /\ show \in Seq(Row) /\ row.n = 0
  BY PaneAssumption DEF Append1, IInv, TypeOK, Row
<1> HIDE DEF row
<1>2. /\ DOMAIN show' = 1..(Len(show) + 1) /\ DOMAIN show = 1..Len(show)
      /\ Len(show) \in Nat /\ Len(show') = Len(show) + 1
      /\ \A i \in DOMAIN show : show'[i] = show[i]
      /\ show'[Len(show) + 1] = row
  BY <1>1
<1>3. Paging'
  <2>1. \A p \in 1..pageNum : Accounted(p) => Accounted(p)'
    BY <1>2 DEF Accounted, InPage, GroupHistory
  <2> QED
    BY <2>1 DEF Paging, Visiting, GroupHistory, Short, PageLen, PageTop, Min2, Max2
<1>4. InOrder'
  <2> SUFFICES ASSUME Visiting', ~overtaken', failed' = {}
               PROVE  \E k \in 0..Len(show') : EndShown(k)' /\ AskedAbove(k)'
    BY DEF InOrder
  <2>1. PICK k \in 0..Len(show) : EndShown(k) /\ AskedAbove(k)
    BY DEF InOrder, Visiting
  <2>2. ASSUME NEW i \in DOMAIN show'
        PROVE  IF i <= k THEN show'[i] = [chat |-> toGroup, n |-> Stored[toGroup] - k + i]
               ELSE show'[i].n = 0
    <3>1. CASE i \in DOMAIN show
      BY <1>2, <2>1, <3>1 DEF EndShown
    <3>2. CASE i = Len(show) + 1
      BY <1>1, <1>2, <3>2
    <3> QED
      BY <1>2, <3>1, <3>2
  <2>3. EndShown(k)' /\ AskedAbove(k)'
    BY <2>1, <2>2 DEF EndShown, AskedAbove, PageTop, Max2
  <2> QED
    BY <1>2, <2>3
<1> QED
  BY <1>3, <1>4

\* A group opened: its first page is on its way to an empty pane.
LEMMA SelectGroupPaging ==
  ASSUME IInv, NEW g \in Group, SelectGroup(g)
  PROVE  Paging' /\ InOrder'
<1>1. /\ toGroup' = g /\ show' = <<>> /\ pageNum' = 1 /\ isTop' = FALSE /\ visit' = visit + 1
      /\ asks' = asks \cup {GroupHistory(visit + 1, g, 1)}
  BY DEF SelectGroup, Leave
<1>2. Paging'
  <2>1. GroupHistory(visit', toGroup', 1) \in asks'
    BY <1>1
  <2>2. \A p \in 1..pageNum' : Accounted(p)'
    <3>1. \A p \in 1..pageNum' : p = 1
      BY <1>1
    <3> QED
      BY <2>1, <3>1 DEF Accounted, GroupHistory
  <2> QED
    BY <1>1, <2>1, <2>2 DEF Paging, GroupHistory
<1>3. EndShown(0)' /\ AskedAbove(0)'
  <2>1. \A a \in asks : a.visit # visit + 1
    BY DEF IInv, TypeOK
  <2>2. GroupHistory(visit + 1, g, 1).page = 1
    BY DEF GroupHistory
  <2>3. Stored[g] \in Nat /\ PageTop(Stored[g], 1) = Stored[g] - 0
    BY PaneAssumption DEF PageTop, Max2
  <2>4. \A a \in asks' : a.visit = visit' => PageTop(Stored[g], a.page) <= Stored[g] - 0
    BY <1>1, <2>1, <2>2, <2>3
  <2>5. AskedAbove(0)'
    BY <1>1, <2>4 DEF AskedAbove, PageTop, Max2
  <2> QED
    BY <1>1, <2>3, <2>5 DEF EndShown
<1>4. 0 \in 0..Len(show')
  BY <1>1
<1> QED
  BY <1>2, <1>3, <1>4 DEF InOrder

\* One more page for each listener, if the last page was full; below a short one
\* there is nothing.
LEMMA RefreshPaging ==
  ASSUME IInv, Paging, InOrder, RefreshScroll
  PROVE  Paging' /\ InOrder'
<1> DEFINE new == {GroupHistory(visit, toGroup, pageNum + i) : i \in 1..scrollers}
<1>1. /\ pageNum' = pageNum + scrollers
      /\ asks' = IF isTop THEN asks ELSE asks \cup new
      /\ UNCHANGED <<type, toGroup, show, isTop, scrollers, visit, stray, overtaken, failed>>
  BY DEF RefreshScroll, pane, hist
<1>2. /\ pageNum \in Nat \ {0} /\ scrollers \in Nat \ {0} /\ toGroup \in Group
      /\ Stored[toGroup] \in Nat
  BY PaneAssumption DEF RefreshScroll, IInv, TypeOK
<1>3. Paging'
  <2> SUFFICES ASSUME Visiting
               PROVE  /\ \A p \in 1..pageNum' : Accounted(p)'
                      /\ isTop' => \E p \in 1..pageNum' : Short(toGroup, p)'
                      /\ scrollers' # 0
    BY <1>1 DEF Paging, Visiting
  <2>1. ASSUME NEW p \in 1..pageNum PROVE Accounted(p)'
    <3>1. Accounted(p)
      BY <2>1 DEF Paging
    <3>2. asks \subseteq asks'
      BY <1>1
    <3> QED
      BY <1>1, <3>1, <3>2 DEF Accounted, InPage, GroupHistory
  <2>2. ASSUME NEW p \in 1..pageNum', p \notin 1..pageNum PROVE Accounted(p)'
    <3>1. p - pageNum \in 1..scrollers /\ p = pageNum + (p - pageNum) /\ p > pageNum
      BY <1>1, <1>2, <2>2
    <3>2. CASE ~isTop
      <4>1. GroupHistory(visit, toGroup, p) \in new
        BY <3>1
      <4> QED
        BY <1>1, <3>2, <4>1 DEF Accounted, GroupHistory
    <3>3. CASE isTop
      <4>1. PICK q \in 1..pageNum : Short(toGroup, q)
        BY <3>3 DEF Paging
      <4>2. PageTop(Stored[toGroup], p) = 0
        BY <1>2, <3>1, <4>1, LaterPage
      <4>3. ASSUME NEW n \in 1..Stored[toGroup], InPage(toGroup, p, n) PROVE FALSE
        <5>1. n <= PageTop(Stored[toGroup], p)
          BY <1>2, <3>1, <4>3, RowLimits
        <5> QED
          BY <4>2, <5>1
      <4> QED
        BY <1>1, <4>3 DEF Accounted, InPage
    <3> QED
      BY <3>2, <3>3
  <2>3. isTop' => \E p \in 1..pageNum' : Short(toGroup, p)'
    <3>1. ASSUME isTop PROVE \E p \in 1..pageNum' : Short(toGroup, p)
      <4>1. PICK q \in 1..pageNum : Short(toGroup, q)
        BY <3>1 DEF Paging
      <4> QED
        BY <1>1, <1>2, <4>1
    <3> QED
      BY <1>1, <3>1 DEF Short, PageLen, PageTop, Min2, Max2
  <2> QED
    BY <1>1, <1>2, <2>1, <2>2, <2>3
<1>4. InOrder'
  <2> SUFFICES ASSUME Visiting', ~overtaken', failed' = {}
               PROVE  \E k \in 0..Len(show') : EndShown(k)' /\ AskedAbove(k)'
    BY DEF InOrder
  <2>1. PICK k \in 0..Len(show) : EndShown(k) /\ AskedAbove(k)
    BY <1>1 DEF InOrder, Visiting
  <2>2. ASSUME NEW a \in new PROVE PageTop(Stored[toGroup], a.page) <= Stored[toGroup] - k
    <3>1. a.page \in Nat \ {0} /\ a.page > pageNum
      BY <1>2 DEF GroupHistory
    <3>2. CASE k = 0
      <4>1. /\ PageTop(Stored[toGroup], a.page)
                 <= PageTop(Stored[toGroup], 1) - PageLen(Stored[toGroup], 1)
            /\ PageTop(Stored[toGroup], a.page) \in Nat
            /\ PageLen(Stored[toGroup], 1) \in Nat
        <5>1. 1 \in Nat \ {0} /\ 1 < a.page /\ toGroup \in Group \cup User
          BY <1>2, <3>1
        <5>2. PageTop(Stored[toGroup], a.page) \in Nat
          BY <3>1, <5>1, PageLimits
        <5>3. PageLen(Stored[toGroup], 1) \in Nat
          BY <5>1, PageLimits
        <5> QED
          BY <1>2, <3>1, <5>1, <5>2, <5>3, LaterPage
      <4>2. PageTop(Stored[toGroup], 1) = Stored[toGroup]
        BY <1>2, PaneAssumption DEF PageTop, Max2
      <4> QED
        BY <1>2, <3>2, <4>1, <4>2
    <3>3. CASE k > 0
      <4> DEFINE n == Stored[toGroup] - k + 1
      <4>1. 1 \in DOMAIN show /\ show[1] = [chat |-> toGroup, n |-> n] /\ n \in Nat \ {0}
        <5>1. show \in Seq(Row)
          BY DEF IInv, TypeOK
        <5>2. 1 \in DOMAIN show
          BY <3>3, <5>1
        <5> QED
          BY <1>2, <2>1, <3>3, <5>2 DEF EndShown
      <4>2. show[1].n = n
        BY <4>1
      <4>3. PICK q \in 1..pageNum : InPage(toGroup, q, n)
        BY <1>1, <4>1, <4>2 DEF IInv, ShownOnce, Visiting
      <4>4. PageTop(Stored[toGroup], q) - PageLen(Stored[toGroup], q) < n
        BY <1>2, <4>1, <4>3, RowLimits
      <4>5. PageTop(Stored[toGroup], a.page)
              <= PageTop(Stored[toGroup], q) - PageLen(Stored[toGroup], q)
        BY <1>2, <3>1, LaterPage
      <4>6. /\ PageTop(Stored[toGroup], a.page) \in Nat /\ PageTop(Stored[toGroup], q) \in Nat
            /\ PageLen(Stored[toGroup], q) \in Nat
        <5>1. q \in Nat \ {0} /\ toGroup \in Group \cup User
          BY <1>2
        <5>2. PageTop(Stored[toGroup], q) \in Nat /\ PageLen(Stored[toGroup], q) \in Nat
          BY <5>1, PageLimits
        <5>3. PageTop(Stored[toGroup], a.page) \in Nat
          BY <3>1, <5>1, PageLimits
        <5> QED
          BY <5>2, <5>3
      <4> QED
        BY <1>2, <4>4, <4>5, <4>6
    <3> QED
      BY <3>2, <3>3
  <2> HIDE DEF new
  <2>3. AskedAbove(k)'
    <3>1. \A a \in asks' : a.visit = visit =>
             PageTop(Stored[toGroup], a.page) <= Stored[toGroup] - k
      BY <1>1, <2>1, <2>2 DEF AskedAbove
    <3> QED
      BY <1>1, <3>1 DEF AskedAbove, PageTop, Max2
  <2>4. EndShown(k)'
    BY <1>1, <2>1 DEF EndShown
  <2> QED
    BY <1>1, <2>3, <2>4
<1> QED
  BY <1>3, <1>4

\* The page that an answer of this visit brings.
LEMMA AnsweredHere ==
  ASSUME IInv, NEW a \in asks, Visiting, a.visit = visit
  PROVE  /\ a.chat = toGroup /\ a.page \in 1..pageNum /\ a = GroupHistory(visit, toGroup, a.page)
         /\ toGroup \in Group /\ Stored[toGroup] \in Nat
<1>1. a.chat = toGroup /\ a.page \in 1..pageNum
  BY DEF IInv, AskedHere, Visiting
<1>2. a = [visit |-> a.visit, chat |-> a.chat, page |-> a.page]
  BY DEF IInv, TypeOK
<1>3. toGroup \in Group
  BY DEF Visiting, IInv, TypeOK
<1> QED
  BY <1>1, <1>2, <1>3, PaneAssumption DEF GroupHistory

\* The lowest page on its way begins right above the history shown: a row between
\* them would be on a lower page, which is no longer on its way, did not fail and is
\* not in the pane.
LEMMA NextPage ==
  ASSUME IInv, Paging, Visiting, failed = {}, NEW a \in asks, a.visit = visit,
         \A b \in asks : b.visit = visit => ~(b.page < a.page),
         NEW k \in 0..Len(show), EndShown(k), AskedAbove(k)
  PROVE  PageTop(Stored[toGroup], a.page) = Stored[toGroup] - k
<1> DEFINE c == Stored[toGroup]
           n == c - k
<1>1. /\ a.page \in 1..pageNum /\ pageNum \in Nat /\ toGroup \in Group /\ c \in Nat
      /\ show \in Seq(Row)
  BY AnsweredHere DEF IInv, TypeOK
<1>2. toGroup \in Group \cup User /\ a.page \in Nat \ {0}
  BY <1>1
<1>3. PageTop(c, a.page) \in Nat /\ PageLen(c, a.page) \in Nat
  BY <1>2, PageLimits
<1>4. PageTop(c, a.page) <= n /\ n \in 0..c
  BY <1>1 DEF AskedAbove, EndShown
<1>5. ASSUME PageTop(c, a.page) < n PROVE FALSE
  <2>1. n \in 1..c
    BY <1>1, <1>3, <1>4, <1>5
  <2> DEFINE q == PageNo(toGroup, n)
  <2>2. q \in Nat \ {0} /\ InPage(toGroup, q, n)
    BY <1>1, <2>1, PageNoPage
  <2> HIDE DEF q, n
  <2>3. n <= PageTop(c, q) /\ PageTop(c, q) \in Nat /\ n \in Nat \ {0}
    <3>1. n \in Nat \ {0}
      BY <1>1, <2>1
    <3>2. n <= PageTop(c, q)
      BY <1>1, <2>2, <3>1, RowLimits
    <3>3. PageTop(c, q) \in Nat
      BY <1>2, <2>2, PageLimits
    <3> QED
      BY <3>1, <3>2, <3>3
  <2>4. q < a.page
    <3>1. a.page < q => PageTop(c, q) <= PageTop(c, a.page) - PageLen(c, a.page)
      BY <1>1, <1>2, <2>2, LaterPage
    <3> QED
      BY <1>2, <1>3, <1>5, <2>2, <2>3, <3>1
  <2>5. Accounted(q)
    BY <1>1, <2>2, <2>4 DEF Paging
  <2>6. GroupHistory(visit, toGroup, q) \notin asks
    BY <2>4 DEF GroupHistory
  <2>7. PICK i \in DOMAIN show : show[i] = [chat |-> toGroup, n |-> n]
    BY <2>1, <2>2, <2>5, <2>6 DEF Accounted
  <2>8. i \in Nat \ {0} /\ show[i].n = n
    BY <1>1, <2>7
  <2>9. CASE i <= k
    <3>1. show[i].n = c - k + i
      BY <2>7, <2>9 DEF EndShown
    <3> QED
      BY <1>1, <2>8, <3>1 DEF n
  <2>10. CASE ~(i <= k)
    BY <2>3, <2>7, <2>8, <2>10 DEF EndShown
  <2> QED
    BY <2>9, <2>10
<1> QED
  BY <1>1, <1>3, <1>4, <1>5

\* The rows of a page come: they are accounted for, and if its page was the lowest
\* on its way they go right above the rows they precede.
LEMMA AnswerPagePaging ==
  ASSUME IInv, Paging, InOrder, NEW a \in asks, AnswerPage(a)
  PROVE  Paging' /\ InOrder'
<1> DEFINE rows == Reverse(PageOf(a.chat, a.page))
           len == PageLen(Stored[a.chat], a.page)
           top == PageTop(Stored[a.chat], a.page)
<1>1. /\ a.page > 0 /\ show' = rows \o show /\ scrollers' = scrollers + 2
      /\ asks' = asks \ {a} /\ stray' = (stray \/ a.visit # visit)
      /\ overtaken' = (overtaken \/ \E b \in asks : b.visit = a.visit /\ b.page < a.page)
      /\ isTop' = (isTop \/ len # PageSize)
      /\ UNCHANGED <<type, toGroup, pageNum, visit, failed>>
  BY DEF AnswerPage, Answered, pane
<1>2. a.chat \in Group /\ a.page \in Nat \ {0} /\ show \in Seq(Row) /\ scrollers \in Nat
  BY <1>1 DEF IInv, TypeOK
<1>0. /\ rows = Reverse(PageOf(a.chat, a.page)) /\ len = PageLen(Stored[a.chat], a.page)
      /\ top = PageTop(Stored[a.chat], a.page)
  OBVIOUS
<1> HIDE DEF rows, len, top
<1>3. /\ top \in Nat /\ len \in Nat /\ len <= top /\ Len(rows) = len /\ DOMAIN rows = 1..len
      /\ \A i \in 1..len : rows[i] = [chat |-> a.chat, n |-> top - len + i]
  BY <1>0, <1>2, PageInOrder
<1>4. rows \in Seq(Row)
  BY <1>0, <1>2, PageRows
<1>5. /\ DOMAIN show' = 1..(len + Len(show)) /\ Len(show') = len + Len(show) /\ Len(show) \in Nat
      /\ \A i \in 1..len : show'[i] = rows[i]
      /\ \A i \in DOMAIN show' : i \notin 1..len => i - len \in DOMAIN show /\ show'[i] = show[i - len]
      /\ \A i \in DOMAIN show : i + len \in DOMAIN show' /\ show'[i + len] = show[i]
  <2>1. /\ DOMAIN show' = 1..(Len(rows) + Len(show)) /\ Len(show) \in Nat
        /\ \A i \in 1..Len(rows) : show'[i] = rows[i]
        /\ \A i \in 1..(Len(rows) + Len(show)) : i \notin 1..Len(rows) =>
             i - Len(rows) \in DOMAIN show /\ show'[i] = show[i - Len(rows)]
    BY <1>1, <1>2, <1>4, TwoParts
  <2>2. Len(show') = Len(rows) + Len(show)
    BY <1>1, <1>2, <1>4
  <2>3. ASSUME NEW i \in DOMAIN show PROVE i + len \in DOMAIN show' /\ show'[i + len] = show[i]
    <3>1. i \in 1..Len(show)
      BY <1>2
    <3>2. i + len \in 1..(len + Len(show)) /\ i + len \notin 1..len /\ (i + len) - len = i
      BY <1>3, <2>1, <3>1
    <3> QED
      BY <1>3, <2>1, <3>2
  <2> QED
    BY <1>3, <2>1, <2>2, <2>3
<1> SUFFICES ASSUME Visiting' PROVE Paging' /\ InOrder'
  BY DEF Paging, InOrder
<1>6. Visiting /\ a.visit = visit
  BY <1>1 DEF Visiting
<1>7. /\ a.chat = toGroup /\ a.page \in 1..pageNum /\ a = GroupHistory(visit, toGroup, a.page)
      /\ toGroup \in Group /\ Stored[toGroup] \in Nat
  BY <1>6, AnsweredHere
<1>8. Paging'
  <2>1. ASSUME NEW p \in 1..pageNum PROVE Accounted(p)'
    <3>1. CASE p = a.page
      <4>1. ASSUME NEW n \in 1..Stored[toGroup], InPage(toGroup, p, n)
            PROVE  \E i \in DOMAIN show' : show'[i] = [chat |-> toGroup, n |-> n]
        <5>1. top - len < n /\ n <= top
          BY <1>0, <1>2, <1>7, <3>1, <4>1, RowLimits
        <5> DEFINE i == n - (top - len)
        <5>2. i \in 1..len /\ top - len + i = n
          BY <1>3, <5>1
        <5> HIDE DEF i
        <5>3. show'[i] = [chat |-> toGroup, n |-> n]
          BY <1>3, <1>5, <1>7, <5>2
        <5>4. i \in DOMAIN show'
          BY <1>3, <1>5, <5>2
        <5> QED
          BY <5>3, <5>4
      <4> QED
        BY <1>1, <4>1 DEF Accounted, InPage
    <3>2. CASE p # a.page
      <4>1. Accounted(p)
        BY <1>6, <2>1 DEF Paging
      <4>2. GroupHistory(visit, toGroup, p) # a
        BY <3>2 DEF GroupHistory
      <4>3. ASSUME NEW i \in DOMAIN show PROVE \E j \in DOMAIN show' : show'[j] = show[i]
        BY <1>5
      <4>4. ASSUME NEW n \in 1..Stored[toGroup],
                   \E i \in DOMAIN show : show[i] = [chat |-> toGroup, n |-> n]
            PROVE  \E i \in DOMAIN show' : show'[i] = [chat |-> toGroup, n |-> n]
        BY <4>3, <4>4
      <4> QED
        BY <1>1, <4>1, <4>2, <4>4 DEF Accounted, InPage, GroupHistory
    <3> QED
      BY <3>1, <3>2
  <2>2. isTop' => \E p \in 1..pageNum' : Short(toGroup, p)'
    <3>1. ASSUME isTop' PROVE \E p \in 1..pageNum : Short(toGroup, p)
      <4>1. CASE isTop
        BY <1>6, <4>1 DEF Paging
      <4>2. CASE len # PageSize
        BY <1>0, <1>7, <4>2 DEF Short
      <4> QED
        BY <1>1, <3>1, <4>1, <4>2
    <3> QED
      BY <1>1, <3>1 DEF Short, PageLen, PageTop, Min2, Max2
  <2>3. scrollers' # 0
    BY <1>1, <1>2
  <2> QED
    BY <1>1, <2>1, <2>2, <2>3 DEF Paging
<1>9. InOrder'
  <2> SUFFICES ASSUME ~overtaken', failed' = {}
               PROVE  \E k \in 0..Len(show') : EndShown(k)' /\ AskedAbove(k)'
    BY DEF InOrder
  <2>1. PICK k \in 0..Len(show) : EndShown(k) /\ AskedAbove(k)
    BY <1>1, <1>6 DEF InOrder
  <2>2. \A b \in asks : b.visit = visit => ~(b.page < a.page)
    BY <1>1, <1>6
  <2>3. top = Stored[toGroup] - k
    BY <1>0, <1>1, <1>6, <1>7, <2>1, <2>2, NextPage
  <2>4. k + len \in 0..Len(show') /\ k \in Nat
    BY <1>3, <1>5, <2>1
  <2>5. ASSUME NEW i \in DOMAIN show'
        PROVE  IF i <= k + len
               THEN show'[i] = [chat |-> toGroup, n |-> Stored[toGroup] - (k + len) + i]
               ELSE show'[i].n = 0
    <3>1. i \in Nat \ {0}
      BY <1>3, <1>5
    <3>2. CASE i \in 1..len
      <4>1. top - len + i = Stored[toGroup] - (k + len) + i /\ i <= k + len
        <5>1. i \in Nat /\ i <= len /\ k \in Nat /\ len \in Nat /\ top \in Nat
          BY <1>3, <2>4, <3>2
        <5>2. Stored[toGroup] \in Nat /\ top = Stored[toGroup] - k
          BY <1>7, <2>3
        <5> QED
          BY <5>1, <5>2
      <4> QED
        BY <1>3, <1>5, <1>7, <3>2, <4>1
    <3>3. CASE i \notin 1..len
      <4>1. i - len \in DOMAIN show /\ show'[i] = show[i - len]
        BY <1>5, <3>3
      <4>2. /\ i - len <= k <=> i <= k + len
            /\ Stored[toGroup] - k + (i - len) = Stored[toGroup] - (k + len) + i
        BY <1>3, <1>7, <2>4, <3>1
      <4> QED
        BY <2>1, <4>1, <4>2 DEF EndShown
    <3> QED
      BY <3>2, <3>3
  <2>6. EndShown(k + len)'
    <3>1. k + len <= Stored[toGroup]
      BY <1>3, <1>7, <2>3, <2>4
    <3> DEFINE m == k + len
    <3>2. m' = m
      BY <1>1, <1>3 DEF len, PageLen, PageTop, Min2, Max2
    <3> QED
      BY <1>1, <2>5, <3>1, <3>2 DEF EndShown
  <2>7. ASSUME NEW b \in asks', b.visit = visit
        PROVE  PageTop(Stored[toGroup], b.page) <= Stored[toGroup] - (k + len)
    <3>1. b \in asks /\ b # a /\ b.page \in 1..pageNum /\ b = GroupHistory(visit, toGroup, b.page)
      <4>1. b \in asks /\ b # a
        BY <1>1
      <4> QED
        BY <1>6, <2>7, <4>1, AnsweredHere
    <3>2. b.page # a.page
      BY <1>7, <3>1
    <3>3. pageNum \in Nat
      BY DEF IInv, TypeOK
    <3>4. a.page < b.page /\ b.page \in Nat \ {0}
      BY <1>2, <2>2, <2>7, <3>1, <3>2, <3>3
    <3>5. PageTop(Stored[toGroup], b.page) <= top - len
      BY <1>0, <1>2, <1>7, <3>4, LaterPage
    <3>6. PageTop(Stored[toGroup], b.page) \in Nat
      BY <1>7, <3>4, PageLimits
    <3> QED
      BY <1>3, <1>7, <2>3, <2>4, <3>5, <3>6
  <2>8. AskedAbove(k + len)'
    BY <1>1, <2>7 DEF AskedAbove, PageTop, PageLen, Max2, Min2
  <2> QED
    BY <2>4, <2>6, <2>8
<1> QED
  BY <1>8, <1>9

\* A user's history leaves no visit to a group; a page that failed is on the books.
LEMMA UserHistoryPaging ==
  ASSUME IInv, NEW a \in asks, UserHistory(a)
  PROVE  Paging' /\ InOrder'
<1>1. a.page = 0 /\ type' = type /\ stray' = (stray \/ a.visit # visit)
  BY DEF UserHistory, Answered, pane
<1>2. ~Visiting'
  <2>1. Visiting /\ a.visit = visit => a.page \in 1..pageNum
    BY AnsweredHere
  <2>2. a.page \notin 1..pageNum
    <3>1. pageNum \in Nat
      BY DEF IInv, TypeOK
    <3> QED
      BY <1>1, <3>1
  <2>3. Visiting' => Visiting /\ a.visit = visit
    BY <1>1 DEF Visiting
  <2> QED
    BY <2>1, <2>2, <2>3
<1> QED
  BY <1>2 DEF Paging, InOrder

LEMMA FailPaging ==
  ASSUME IInv, Paging, InOrder, NEW a \in asks, Fail(a)
  PROVE  Paging' /\ InOrder'
<1>1. /\ asks' = asks \ {a}
      /\ failed' = IF a.visit = visit THEN failed \cup {a.page} ELSE failed
      /\ UNCHANGED <<type, toGroup, show, pageNum, isTop, scrollers, visit, stray, overtaken>>
  BY DEF Fail, pane, pager
<1>2. \A p : GroupHistory(visit, toGroup, p) \in asks =>
              GroupHistory(visit, toGroup, p) \in asks' \/ p \in failed'
  <2>1. \A p : GroupHistory(visit, toGroup, p).visit = visit /\ GroupHistory(visit, toGroup, p).page = p
    BY DEF GroupHistory
  <2> QED
    BY <1>1, <2>1
<1>3. failed \subseteq failed'
  BY <1>1
<1>4. \A p \in 1..pageNum : Accounted(p) => Accounted(p)'
  BY <1>1, <1>2, <1>3 DEF Accounted, InPage, GroupHistory
<1>5. Paging'
  BY <1>1, <1>2, <1>3, <1>4
     DEF Paging, Visiting, GroupHistory, Short, PageLen, PageTop, Min2, Max2
<1>6. InOrder'
  <2>1. failed' = {} => failed = {}
    BY <1>3
  <2>2. \A k : EndShown(k) /\ AskedAbove(k) => EndShown(k)' /\ AskedAbove(k)'
    BY <1>1 DEF EndShown, AskedAbove, PageTop, Max2
  <2> QED
    BY <1>1, <2>1, <2>2 DEF InOrder, Visiting
<1> QED
  BY <1>5, <1>6

\* Every step keeps the paging and the order.
LEMMA StepPaging ==
  ASSUME IInv, Paging, InOrder, [Next]_vars
  PROVE  Paging' /\ InOrder'
<1> USE DEF pane, pager, hist
<1>1. ASSUME NEW g \in Group, SelectGroup(g) PROVE Paging' /\ InOrder'
  BY <1>1, SelectGroupPaging
<1>2. ASSUME NEW u \in User, SelectUser(u) PROVE Paging' /\ InOrder'
  <2>1. type' # 3
    BY <1>2 DEF SelectUser
  <2> QED
    BY <2>1 DEF Paging, InOrder, Visiting
<1>3. ASSUME NEW a \in asks, AnswerPage(a) \/ UserHistory(a) \/ Fail(a)
      PROVE  Paging' /\ InOrder'
  BY <1>3, AnswerPagePaging, UserHistoryPaging, FailPaging
<1>4. CASE RefreshScroll
  BY <1>4, RefreshPaging
<1>5. ASSUME NEW c \in Group \cup User \cup {None}, Append1(c),
             UNCHANGED <<pane, member, pager, asks, hist>>
      PROVE  Paging' /\ InOrder'
  BY <1>5, LivePaging
<1>6. OpenChat \in Group \cup User \cup {None}
  BY DEF OpenChat, IInv, TypeOK
<1>7. ASSUME UNCHANGED <<type, toGroup, show, pageNum, isTop, scrollers, asks, hist>>
      PROVE  Paging' /\ InOrder'
  BY <1>7, PagingFrame
<1>8. ASSUME NEW g \in Group, OnGroup(g) PROVE Paging' /\ InOrder'
  BY <1>5, <1>8 DEF OnGroup
<1>9. ASSUME NEW u \in User, OnPrivate(u) PROVE Paging' /\ InOrder'
  BY <1>5, <1>9 DEF OnPrivate
<1>10. CASE OnSystem \/ SendName
  BY <1>5, <1>6, <1>10 DEF OnSystem, SendName
<1>11. CASE ChooseFile
  BY <1>7, <1>11 DEF ChooseFile
<1>12. CASE Uploaded
  BY <1>5, <1>6, <1>7, <1>12 DEF Uploaded
<1>13. CASE UNCHANGED vars
  BY <1>7, <1>13 DEF vars
<1> QED
  BY <1>1, <1>2, <1>3, <1>4, <1>8, <1>9, <1>10, <1>11, <1>12, <1>13 DEF Next

LEMMA PagingHolds == Spec => [](Paging /\ InOrder)
<1>1. Init => Paging /\ InOrder
  BY PaneAssumption DEF Init, Paging, InOrder, Visiting
<1>2. IInv /\ (Paging /\ InOrder) /\ [Next]_vars => (Paging /\ InOrder)'
  BY StepPaging
<1> QED
  BY <1>1, <1>2, IInvHolds, PTL DEF Spec

-----------------------------------------------------------------------------
\* Every variable of the pane has its type, and the pane always knows the chat
\* that is open: listeners, rows and requests only come after a chat was opened.
THEOREM TypeCorrect == Spec => []TypeOK
<1>1. IInv => TypeOK
  BY DEF IInv
<1> QED
  BY <1>1, IInvHolds, PTL

\* Without an answer of an earlier visit, the pane of a group holds stored messages
\* of that group alone (group.js selectGroup).
THEOREM PaneIsGroups == Spec => []PaneOfGroup
<1>1. IInv => PaneOfGroup
  BY DEF IInv
<1> QED
  BY <1>1, IInvHolds, PTL

\* And no stored message twice, however many listeners a scroll runs and in whatever
\* order the pages come (group.js refreshScroll, event.js f1 and f2).
THEOREM NoRowTwice == Spec => []NoneTwice
<1>1. IInv => NoneTwice
  BY DEF IInv
<1> QED
  BY <1>1, IInvHolds, PTL

\* The members listed are those of the open group once its first page has come
\* (group.js grouphistory, chat.js userhistory).
THEOREM MembersAreGroups == Spec => []MembersSettle
<1>1. IInv => MembersSettle
  BY DEF IInv
<1> QED
  BY <1>1, IInvHolds, PTL
\* No stored message of an open group gets out of reach: whatever page it is on is
\* shown, asked for, failed, or will be asked for (group.js refreshScroll).
THEOREM NoMessageLost == Spec => []NothingLost
<1>1. ASSUME IInv, Paging PROVE NothingLost
  <2> SUFFICES ASSUME Visiting, NEW n \in 1..Stored[toGroup]
               PROVE  LET p == PageNo(toGroup, n) IN
                      \/ \E i \in DOMAIN show : show[i] = [chat |-> toGroup, n |-> n]
                      \/ GroupHistory(visit, toGroup, p) \in asks
                      \/ p \in failed
                      \/ p > pageNum /\ ~isTop /\ (scrollers = 0 => asks # {} \/ failed # {})
    BY DEF NothingLost, Visiting
  <2> DEFINE p == PageNo(toGroup, n)
  <2>1. toGroup \in Group /\ pageNum \in Nat \ {0} /\ Stored[toGroup] \in Nat
    BY <1>1, PaneAssumption DEF IInv, TypeOK, Visiting
  <2>2. p \in Nat \ {0} /\ InPage(toGroup, p, n)
    BY <2>1, PageNoPage
  <2> HIDE DEF p
  <2>3. CASE p \in 1..pageNum
    BY <1>1, <2>2, <2>3 DEF Paging, Accounted, p
  <2>4. CASE p \notin 1..pageNum
    <3>1. p > pageNum
      BY <2>1, <2>2, <2>4
    <3>2. ~isTop
      <4> SUFFICES ASSUME isTop PROVE FALSE
        OBVIOUS
      <4>1. PICK q \in 1..pageNum : Short(toGroup, q)
        BY <1>1 DEF Paging
      <4>2. PageTop(Stored[toGroup], p) = 0
        BY <2>1, <2>2, <3>1, <4>1, LaterPage
      <4>3. n \in Nat \ {0} /\ n <= PageTop(Stored[toGroup], p)
        BY <2>1, <2>2, RowLimits
      <4> QED
        BY <4>2, <4>3
    <3>3. scrollers = 0 => asks # {} \/ failed # {}
      BY <1>1 DEF Paging
    <3> QED
      BY <3>1, <3>2, <3>3 DEF p
  <2> QED
    BY <2>3, <2>4
<1> QED
  BY <1>1, IInvHolds, PagingHolds, PTL

\* When no page overtakes another and none fails, the pane is the end of the history
\* in the order of the messages, above what came since (group.js grouphistory).
THEOREM HistoryInOrder == Spec => []EndOfHistory
<1>1. InOrder => EndOfHistory
  BY DEF InOrder, EndOfHistory, EndShown, Visiting
<1> QED
  BY <1>1, PagingHolds, PTL

=============================================================================
