----------------------------- MODULE ImSession -----------------------------
(***************************************************************************)
(* The routing core of imservice: the static maps of SessionUtil (user ->  *)
(* channel, group id -> ChannelGroup), the Netty handlers that read and    *)
(* write them, and the REST and database threads that share them.          *)
(*                                                                         *)
(* Every channel runs its handlers on one event loop thread, so a channel  *)
(* is also the thread of its own handler: pc[c] says where the handler of  *)
(* channel c stands, and the handlers of different channels interleave     *)
(* between any two accesses to the shared maps.                            *)
(*                                                                         *)
(* A ChannelGroup object is named by its group id and by the channel whose *)
(* handler constructed it: two handlers may construct one each for the     *)
(* same id.                                                                *)
(***************************************************************************)
EXTENDS Naturals

CONSTANTS
  Channel,        \* connections, each used once
  User,           \* accounts (SysUser.user_name)
  Group,          \* group ids
  UserOf,         \* the user named by the token in each connection's URL
  Numeric,        \* the users whose user_name Long.valueOf accepts
  InitialMember,  \* rows of sys_group_member when the server starts
  None,           \* Java's null
  MaxSend,        \* bound: messages (type 2 and 3) sent in a behaviour
  MaxRest,        \* bound: leftchannel and invitefriend requests
  MaxCreate       \* bound: createGroup messages (type 4)

ASSUME UserOfAssumption   == UserOf \in [Channel -> User]
ASSUME NumericAssumption  == Numeric \subseteq User
ASSUME MemberAssumption   == InitialMember \in [Group -> SUBSET User]
ASSUME NoneAssumption     == None \notin Channel \cup User \cup Group
ASSUME QuotaAssumption    == MaxSend \in Nat /\ MaxRest \in Nat /\ MaxCreate \in Nat

VARIABLES
  link,      \* "new" -> "shaking" -> "open" -> "closed" for each channel
  session,   \* the SESSION attribute of each channel
  userChan,  \* SessionUtil.userIdChannelMap
  bound,     \* SessionUtil.groupIdChannelGroupMap: the creator of the object
  members,   \* members[g][k]: channels in the ChannelGroup k created for g
  member,    \* table sys_group_member
  pc,        \* where the handler of each channel stands
  grp,       \* local: the group id being handled
  ref,       \* local: the ChannelGroup or the channel looked up
  todo,      \* local: groups still to join, users still to add
  listed,    \* local: the user list of a createGroup message
  kind,      \* local: fileType of a group message
  leave,     \* the leftchannel request of each user
  task,      \* what the dbScheduler task storing a group does next
  pending,   \* the listed users whose rows the task has still to insert
  creator,   \* the user the task inserts last
  rows,      \* which of a group's welcome message and sys_group row exist
  used,      \* group ids given out so far
  quota,     \* what is left of the three bounds
  home,      \* history: channels added to a group and not removed by leave or close
  overlap    \* history: groups that two handshakes found unbound at one time

vars == <<link, session, userChan, bound, members, member, pc, grp, ref, todo,
          listed, kind, leave, task, pending, creator, rows, used, quota, home,
          overlap>>
locals == <<grp, ref, todo, listed, kind>>
rooms  == <<bound, members, home>>
store  == <<task, pending, creator, rows>>

Kinds    == {"text", "file", "game"}
Requests == {"send", "rest", "create"}
Steps    == {"none", "welcome", "group", "members", "over"}
NoLeave  == [step |-> "none"]
Leaving  == [step : {"remove", "clear"}, grp : Group, obj : Channel,
             chan : Channel \cup {None}]
PCs == {"idle", "attr", "query", "lookup", "join", "invite", "direct",
        "deliver", "exclude", "write", "readd"}

TypeOK ==
  /\ link \in [Channel -> {"new", "shaking", "open", "closed"}]
  /\ session \in [Channel -> User \cup {None}]
  /\ userChan \in [User -> Channel \cup {None}]
  /\ bound \in [Group -> Channel \cup {None}]
  /\ members \in [Group -> [Channel -> SUBSET Channel]]
  /\ member \in [Group -> SUBSET User]
  /\ pc \in [Channel -> PCs]
  /\ grp \in [Channel -> Group \cup {None}]
  /\ ref \in [Channel -> Channel \cup {None}]
  /\ todo \in [Channel -> SUBSET (Group \cup User)]
  /\ listed \in [Channel -> SUBSET User]
  /\ kind \in [Channel -> Kinds]
  /\ leave \in [User -> {NoLeave} \cup Leaving]
  /\ task \in [Group -> Steps]
  /\ pending \in [Group -> SUBSET User]
  /\ creator \in [Group -> User \cup {None}]
  /\ rows \in [Group -> SUBSET {"welcome", "group"}]
  /\ used \subseteq Group
  /\ quota \in [Requests -> Nat]
  /\ home \in [Group -> [Channel -> SUBSET Channel]]
  /\ overlap \subseteq Group

Init ==
  /\ link = [c \in Channel |-> "new"]
  /\ session = [c \in Channel |-> None]
  /\ userChan = [u \in User |-> None]
  /\ bound = [g \in Group |-> None]
  /\ members = [g \in Group |-> [k \in Channel |-> {}]]
  /\ member = InitialMember
  /\ pc = [c \in Channel |-> "idle"]
  /\ grp = [c \in Channel |-> None]
  /\ ref = [c \in Channel |-> None]
  /\ todo = [c \in Channel |-> {}]
  /\ listed = [c \in Channel |-> {}]
  /\ kind = [c \in Channel |-> "text"]
  /\ leave = [u \in User |-> NoLeave]
  /\ task = [g \in Group |-> "none"]
  /\ pending = [g \in Group |-> {}]
  /\ creator = [g \in Group |-> None]
  /\ rows = [g \in Group |-> {r \in {"welcome", "group"} : InitialMember[g] # {}}]
  /\ used = {g \in Group : InitialMember[g] # {}}
  /\ quota = [r \in Requests |-> CASE r = "send"   -> MaxSend
                                   [] r = "rest"   -> MaxRest
                                   [] r = "create" -> MaxCreate]
  /\ home = [g \in Group |-> [k \in Channel |-> {}]]
  /\ overlap = {}

-----------------------------------------------------------------------------
Goto(c, from, to) == pc[c] = from /\ pc' = [pc EXCEPT ![c] = to]

\* The handler returns or raises: its locals are gone.
Return(c, from) ==
  /\ Goto(c, from, "idle")
  /\ grp' = [grp EXCEPT ![c] = None]   /\ ref' = [ref EXCEPT ![c] = None]
  /\ todo' = [todo EXCEPT ![c] = {}]   /\ listed' = [listed EXCEPT ![c] = {}]
  /\ kind' = [kind EXCEPT ![c] = "text"]

Spend(r) == quota[r] > 0 /\ quota' = [quota EXCEPT ![r] = @ - 1]

\* ChannelGroup.add and remove of channel d on the object k of group g.
Added(f, g, k, d)   == [f EXCEPT ![g][k] = @ \cup {d}]
Removed(f, g, k, d) == [f EXCEPT ![g][k] = @ \ {d}]

\* The close listener every ChannelGroup.add registers.
Dropped(f, d) == [g \in Group |-> [k \in Channel |-> f[g][k] \ {d}]]

(***************************************************************************)
(* HttpRequestHandler.handleHttpRequest                                    *)
(***************************************************************************)

\* bindChannel, first statement: the user is routable before it has a session.
BindChannel(c) ==
  /\ link[c] = "new" /\ link' = [link EXCEPT ![c] = "shaking"]
  /\ Goto(c, "idle", "attr")
  /\ userChan' = [userChan EXCEPT ![UserOf[c]] = c]
  /\ UNCHANGED <<session, rooms, member, locals, leave, store, overlap, used,
                 quota>>

\* Seeded fault: the user is read from a field that all handshakes share.
SetSession_SharedUser(c) ==
  /\ Goto(c, "attr", "query")
  /\ session' = [session EXCEPT ![c] = CHOOSE u \in User : userChan[u] # None]
  /\ UNCHANGED <<link, userChan, rooms, member, locals, leave, store, overlap,
                 used, quota>>

\* bindChannel, second statement.
SetSession(c) ==
  /\ Goto(c, "attr", "query")
  /\ session' = [session EXCEPT ![c] = UserOf[c]]
  /\ UNCHANGED <<link, userChan, rooms, member, locals, leave, store, overlap,
                 used, quota>>

\* The rows are read once, and the loop runs over this snapshot.
QueryGroups(c) ==
  /\ Goto(c, "query", "lookup")
  /\ todo' = [todo EXCEPT ![c] = {g \in Group : UserOf[c] \in member[g]}]
  /\ UNCHANGED <<link, session, userChan, rooms, member, grp, ref, listed, kind,
                 leave, store, overlap, used, quota>>

\* The query raises: the handshake is not answered, the connection stays.
HandshakeFails(c) ==
  /\ Return(c, "query")
  /\ UNCHANGED <<link, session, userChan, rooms, member, leave, store, overlap,
                 used, quota>>

\* Handshakes that have looked group g up, found nothing and not bound it yet.
Finders(g) == {c \in Channel : pc[c] = "join" /\ grp[c] = g /\ ref[c] = None}

JoinLookup(c) ==
  /\ Goto(c, "lookup", "join")
  /\ \E g \in todo[c] \cap Group :
       /\ todo' = [todo EXCEPT ![c] = @ \ {g}]
       /\ grp' = [grp EXCEPT ![c] = g]
       /\ ref' = [ref EXCEPT ![c] = bound[g]]
       /\ overlap' = overlap \cup {h \in {g} : bound[h] = None /\ Finders(h) # {}}
  /\ UNCHANGED <<link, session, userChan, rooms, member, listed, kind, leave,
                 store, used, quota>>

\* Seeded fault: the handshake binds a new object whether or not one was found.
JoinNew_Always(c) ==
  /\ Goto(c, "join", "lookup")
  /\ members' = Added(members, grp[c], c, c)
  /\ home' = Added(home, grp[c], c, c)
  /\ bound' = [bound EXCEPT ![grp[c]] = c]
  /\ grp' = [grp EXCEPT ![c] = None]
  /\ UNCHANGED <<link, session, userChan, member, ref, todo, listed, kind,
                 leave,
                 store, overlap, used, quota>>

\* The lookup returned null: construct, add and bind, whatever was bound since.
JoinNew(c) ==
  /\ ref[c] = None /\ Goto(c, "join", "lookup")
  /\ members' = Added(members, grp[c], c, c)
  /\ home' = Added(home, grp[c], c, c)
  /\ bound' = [bound EXCEPT ![grp[c]] = c]
  /\ grp' = [grp EXCEPT ![c] = None]
  /\ UNCHANGED <<link, session, userChan, member, ref, todo, listed, kind,
                 leave,
                 store, overlap, used, quota>>

JoinAdd(c) ==
  /\ ref[c] # None /\ Goto(c, "join", "lookup")
  /\ members' = Added(members, grp[c], ref[c], c)
  /\ home' = Added(home, grp[c], ref[c], c)
  /\ grp' = [grp EXCEPT ![c] = None] /\ ref' = [ref EXCEPT ![c] = None]
  /\ UNCHANGED <<link, session, userChan, bound, member, todo, listed, kind,
                 leave,
                 store, overlap, used, quota>>

FinishHandshake(c) ==
  /\ Return(c, "lookup") /\ todo[c] = {}
  /\ link' = [link EXCEPT ![c] = "open"]
  /\ UNCHANGED <<session, userChan, rooms, member, leave, store, overlap, used,
                 quota>>

\* The event loop sees the connection close between two reads. No code of the
\* repository runs: SessionUtil keeps the user's entry, Netty empties the groups.
Close(c) ==
  /\ link[c] \in {"shaking", "open"} /\ pc[c] = "idle"
  /\ link' = [link EXCEPT ![c] = "closed"]
  /\ members' = Dropped(members, c)
  /\ home' = Dropped(home, c)
  /\ UNCHANGED <<session, userChan, bound, member, pc, locals, leave, store,
                 overlap, used, quota>>

(***************************************************************************)
(* MessageRequestHandler.channelRead0: a message to one user               *)
(***************************************************************************)
DirectLookup(c, u) ==
  /\ link[c] = "open" /\ Spend("send") /\ Goto(c, "idle", "direct")
  /\ ref' = [ref EXCEPT ![c] = userChan[u]]
  /\ UNCHANGED <<link, session, userChan, rooms, member, grp, todo, listed,
                 kind,
                 leave, store, overlap, used>>

\* Seeded fault: the session of the channel found is not tested.
Online_NoLogin(d) == d # None

Online(d) == d # None /\ session[d] # None

DirectOffline(c) ==
  /\ Return(c, "direct") /\ ~ Online(ref[c])
  /\ UNCHANGED <<link, session, userChan, rooms, member, leave, store,
                 overlap, used, quota>>

DirectOnline(c) ==
  /\ Goto(c, "direct", "deliver") /\ Online(ref[c])
  /\ UNCHANGED <<link, session, userChan, rooms, member, locals, leave, store,
                 overlap, used, quota>>

DirectWrite(c) ==
  /\ Return(c, "deliver")
  /\ UNCHANGED <<link, session, userChan, rooms, member, leave, store,
                 overlap, used, quota>>

(***************************************************************************)
(* GroupMessageRequestHandler.channelRead0: a message to a group. What the *)
(* fileTypes 80 to 84 do to the lobby is in the lobby modules.             *)
(***************************************************************************)

\* With no object bound the name loop raises before anything is changed.
SendLookup(c, g, k) ==
  /\ link[c] = "open" /\ bound[g] # None
  /\ Spend("send") /\ Goto(c, "idle", "exclude")
  /\ grp' = [grp EXCEPT ![c] = g]
  /\ ref' = [ref EXCEPT ![c] = bound[g]]
  /\ kind' = [kind EXCEPT ![c] = k]
  /\ UNCHANGED <<link, session, userChan, rooms, member, todo, listed, leave,
                 store, overlap, used>>

Nameless(g, k) == \E d \in members[g][k] : session[d] = None

\* NullPointerException in the name loop, in the lobby part of an 8x message
\* (no lobby, not seated), or at fileType.startsWith of a text message.
SendFails(c) ==
  /\ Return(c, "exclude")
  /\ kind[c] \in {"text", "game"} \/ Nameless(grp[c], ref[c])
  /\ UNCHANGED <<link, session, userChan, rooms, member, leave, store,
                 overlap, used, quota>>

\* Seeded fault: the test of startsWith("8") is inverted.
SendExclude_Inverted(c) ==
  /\ Goto(c, "exclude", "write")
  /\ kind[c] # "text" /\ ~ Nameless(grp[c], ref[c])
  /\ members' = IF kind[c] = "game" THEN Removed(members, grp[c], ref[c], c)
                                    ELSE members
  /\ UNCHANGED <<link, session, userChan, bound, home, member, locals, leave,
                 store, overlap, used, quota>>

\* The sender takes itself out of the group before it writes to the group.
SendExclude(c) ==
  /\ Goto(c, "exclude", "write")
  /\ kind[c] # "text" /\ ~ Nameless(grp[c], ref[c])
  /\ members' = IF kind[c] = "file" THEN Removed(members, grp[c], ref[c], c)
                                    ELSE members
  /\ UNCHANGED <<link, session, userChan, bound, home, member, locals, leave,
                 store, overlap, used, quota>>

SendWrite(c) ==
  /\ Goto(c, "write", "readd")
  /\ UNCHANGED <<link, session, userChan, rooms, member, locals, leave, store,
                 overlap, used, quota>>

\* Seeded fault: the sender is not added back.
SendReadd_Lost(c) ==
  /\ Return(c, "readd")
  /\ UNCHANGED <<link, session, userChan, rooms, member, leave, store, overlap,
                 used, quota>>

\* Long.valueOf(userName) raises for a name that is no number, before the add.
SendReadd(c) ==
  /\ Return(c, "readd")
  /\ members' = IF UserOf[c] \in Numeric THEN Added(members, grp[c], ref[c], c)
                                         ELSE members
  /\ UNCHANGED <<link, session, userChan, bound, home, member, leave,
                 store, overlap, used, quota>>

(***************************************************************************)
(* CreateGroupRequestHandler.channelRead0                                  *)
(***************************************************************************)
CreateStart(c, us) ==
  /\ link[c] = "open" /\ UserOf[c] \in Numeric
  /\ Spend("create") /\ Goto(c, "idle", "invite")
  /\ \E g \in Group \ used :
       /\ used' = used \cup {g}
       /\ grp' = [grp EXCEPT ![c] = g]
       /\ members' = Added(members, g, c, c)
       /\ home' = Added(home, g, c, c)
  /\ todo' = [todo EXCEPT ![c] = us]
  /\ listed' = [listed EXCEPT ![c] = us]
  /\ UNCHANGED <<link, session, userChan, bound, member, ref, kind, leave,
                 store, overlap>>

\* One turn of the loop; adding a closed channel has no effect. A listed user
\* caught between the two statements of bindChannel has a channel without a
\* session: getUser(channel) is null and the handler raises.
CreateAdd(c) ==
  /\ Goto(c, "invite", "invite")
  /\ \E u \in todo[c] \cap User : LET d == userChan[u] IN
       /\ Online(d) \/ d = None
       /\ todo' = [todo EXCEPT ![c] = @ \ {u}]
       /\ IF Online(d) /\ link[d] # "closed"
          THEN members' = Added(members, grp[c], c, d) /\ home' = Added(home, grp[c], c, d)
          ELSE UNCHANGED <<members, home>>
  /\ UNCHANGED <<link, session, userChan, bound, member, grp, ref, listed, kind,
                 leave, store, overlap, used, quota>>

CreateFails(c) ==
  /\ Return(c, "invite")
  /\ \E u \in todo[c] \cap User : userChan[u] # None /\ ~ Online(userChan[u])
  /\ UNCHANGED <<link, session, userChan, rooms, member, leave, store, overlap,
                 used, quota>>

\* bindChannelGroup under the UUID told to the clients; DataBaseStore.createGroup
\* draws a UUID of its own for the rows and queues one task that stores them.
CreateBind(c) ==
  /\ todo[c] = {} /\ Return(c, "invite")
  /\ bound' = [bound EXCEPT ![grp[c]] = c]
  /\ \E s \in Group \ used :
       /\ used' = used \cup {s}
       /\ task' = [task EXCEPT ![s] = "welcome"]
       /\ pending' = [pending EXCEPT ![s] = listed[c]]
       /\ creator' = [creator EXCEPT ![s] = UserOf[c]]
  /\ UNCHANGED <<link, session, userChan, members, home, member, leave, rows,
                 overlap, quota>>

(***************************************************************************)
(* The task of DataBaseStore.createGroup on a dbScheduler thread: inserts  *)
(* outside a transaction, each of which may raise and end the task.        *)
(***************************************************************************)
Stores(g, from, to) == task[g] = from /\ task' = [task EXCEPT ![g] = to]

Inserts(g, u) == member' = [member EXCEPT ![g] = @ \cup {u}]

DbWelcome(g) ==
  /\ Stores(g, "welcome", "group")
  /\ rows' = [rows EXCEPT ![g] = @ \cup {"welcome"}]
  /\ UNCHANGED <<link, session, userChan, rooms, member, pc, locals, leave,
                 pending, creator, overlap, used, quota>>

\* Seeded fault: the listed users are inserted before the group itself.
DbGroup_Last(g) ==
  /\ Stores(g, "group", IF pending[g] = {} THEN "members" ELSE "group")
  /\ IF pending[g] = {}
     THEN /\ rows' = [rows EXCEPT ![g] = @ \cup {"group"}]
          /\ UNCHANGED <<member, pending>>
     ELSE \E u \in pending[g] :
            /\ Inserts(g, u) /\ pending' = [pending EXCEPT ![g] = @ \ {u}]
            /\ UNCHANGED rows
  /\ UNCHANGED <<link, session, userChan, rooms, pc, locals, leave, creator,
                 overlap, used, quota>>

DbGroup(g) ==
  /\ Stores(g, "group", "members")
  /\ rows' = [rows EXCEPT ![g] = @ \cup {"group"}]
  /\ UNCHANGED <<link, session, userChan, rooms, member, pc, locals, leave,
                 pending, creator, overlap, used, quota>>

\* The listed users in the order of their list, then the creator, whom the
\* handler appended.
DbInsert(g) ==
  /\ \/ \E u \in pending[g] :
          /\ Stores(g, "members", "members")
          /\ Inserts(g, u) /\ pending' = [pending EXCEPT ![g] = @ \ {u}]
     \/ /\ pending[g] = {} /\ Stores(g, "members", "over")
        /\ Inserts(g, creator[g]) /\ UNCHANGED pending
  /\ UNCHANGED <<link, session, userChan, rooms, pc, locals, leave, creator,
                 rows, overlap, used, quota>>

\* SnowUtils.nextId finds the clock set back, or an insert raises: what is
\* inserted stays, what is not is lost.
DbFails(g) ==
  /\ task[g] \in {"welcome", "group", "members"}
  /\ task' = [task EXCEPT ![g] = "over"]
  /\ pending' = [pending EXCEPT ![g] = {}]
  /\ UNCHANGED <<link, session, userChan, rooms, member, pc, locals, leave,
                 creator, rows, overlap, used, quota>>

(***************************************************************************)
(* ChannelController.leftChannel and inviteFriend, on the servlet threads  *)
(***************************************************************************)

\* With no object bound, leftChannel raises and the row stays.
LeaveLookup(u, g) ==
  /\ leave[u] = NoLeave /\ bound[g] # None /\ Spend("rest")
  /\ leave' = [leave EXCEPT ![u] = [step |-> "remove", grp |-> g, obj |-> bound[g],
                                    chan |-> userChan[u]]]
  /\ UNCHANGED <<link, session, userChan, rooms, member, pc, locals, store,
                 overlap, used>>

LeaveRemove(u) ==
  /\ leave[u].step = "remove"
  /\ members' = Removed(members, leave[u].grp, leave[u].obj, leave[u].chan)
  /\ home' = Removed(home, leave[u].grp, leave[u].obj, leave[u].chan)
  /\ leave' = [leave EXCEPT ![u].step = "clear"]
  /\ UNCHANGED <<link, session, userChan, bound, member, pc, locals, store,
                 overlap, used, quota>>

LeaveClear(u) ==
  /\ leave[u].step = "clear"
  /\ member' = [member EXCEPT ![leave[u].grp] = @ \ {u}]
  /\ leave' = [leave EXCEPT ![u] = NoLeave]
  /\ UNCHANGED <<link, session, userChan, rooms, pc, locals, store, overlap,
                 used, quota>>

\* The delete raises: the channel is out of the group and the row stays.
LeaveFails(u) ==
  /\ leave[u].step = "clear"
  /\ leave' = [leave EXCEPT ![u] = NoLeave]
  /\ UNCHANGED <<link, session, userChan, rooms, member, pc, locals, store,
                 overlap, used, quota>>

\* Only a row: the object of the group does not learn of the new member. A
\* client knows an id from its rows or from the answer to a createGroup.
InviteFriend(u, g) ==
  /\ Spend("rest")
  /\ bound[g] # None \/ member[g] # {}
  /\ member' = [member EXCEPT ![g] = @ \cup {u}]
  /\ UNCHANGED <<link, session, userChan, rooms, pc, locals, leave, store,
                 overlap, used>>

-----------------------------------------------------------------------------
\* What the event loop still has to run once a handler of channel c has begun.
Handler(c) ==
  \/ SetSession(c) \/ QueryGroups(c) \/ HandshakeFails(c)
  \/ JoinLookup(c) \/ JoinNew(c) \/ JoinAdd(c) \/ FinishHandshake(c)
  \/ DirectOffline(c) \/ DirectOnline(c) \/ DirectWrite(c)
  \/ SendFails(c) \/ SendExclude(c) \/ SendWrite(c) \/ SendReadd(c)
  \/ CreateAdd(c) \/ CreateFails(c) \/ CreateBind(c)

\* What arrives from outside: nothing obliges a client to send it.
Arrival(c) ==
  \/ BindChannel(c)
  \/ Close(c)
  \/ \E u \in User : DirectLookup(c, u)
  \/ \E g \in Group, k \in Kinds : SendLookup(c, g, k)
  \/ \E us \in SUBSET Numeric : CreateStart(c, us)

Rest(u) == LeaveRemove(u) \/ LeaveClear(u) \/ LeaveFails(u)

\* The scheduler's thread, while the task of group g runs.
Db(g) == DbWelcome(g) \/ DbGroup(g) \/ DbInsert(g) \/ DbFails(g)

\* Every channel that came has gone and nothing is under way.
Quiet ==
  /\ \A c \in Channel : link[c] \in {"new", "closed"} /\ pc[c] = "idle"
  /\ \A u \in User : leave[u] = NoLeave
  /\ \A g \in Group : task[g] \in {"none", "over"}
  /\ UNCHANGED vars

Next ==
  \/ \E c \in Channel : Handler(c) \/ Arrival(c)
  \/ \E u \in User : Rest(u)
  \/ \E u \in User, g \in Group : LeaveLookup(u, g) \/ InviteFriend(u, g)
  \/ \E g \in Group : Db(g)
  \/ Quiet

\* An event loop runs the handler it has begun.
Fairness == \A c \in Channel : WF_vars(Handler(c))

Spec == Init /\ [][Next]_vars /\ Fairness

-----------------------------------------------------------------------------
(***************************************************************************)
(* Properties                                                              *)
(***************************************************************************)

\* The name loop of a group message (GroupMessageRequestHandler, "foreach online
\* user") dereferences the session of every channel of the group, also of those
\* another handler is adding at that moment: no ChannelGroup ever holds a
\* channel whose SESSION attribute is not yet set.
MembersHaveSession ==
  \A g \in Group, k \in Channel : \A d \in members[g][k] : session[d] # None

\* The handler of a group message takes the sender out of the group and puts it
\* back later, unlocked, while others join, leave and send. A channel that was
\* added to a group and neither left nor closed is in the group or is itself
\* between those two steps; only a sender whose name is no number stays out.
HomeOrSending ==
  \A g \in Group, k \in Channel : \A c \in home[g][k] :
    \/ c \in members[g][k]
    \/ pc[c] \in {"write", "readd"} /\ kind[c] = "file" /\ grp[c] = g /\ ref[c] = k
    \/ UserOf[c] \notin Numeric

\* While a message other than 8x is written to the group, its sender is not in
\* it, whatever joins of the same group are under way: a client shows its own
\* message itself and must not receive it again.
SenderExcluded ==
  \A c \in Channel : pc[c] = "write" /\ kind[c] = "file"
                       => c \notin members[grp[c]][ref[c]]

\* A direct message is routed by userIdChannelMap and stamped with the session
\* of the channel found there: the channel is one of the addressee, and carries
\* the addressee's session unless its handshake is just between the two
\* statements of bindChannel.
RoutesToOwner ==
  \A u \in User : userChan[u] # None =>
    LET c == userChan[u] IN
      UserOf[c] = u /\ (session[c] = u \/ (session[c] = None /\ pc[c] = "attr"))

\* A message handler takes the sender out of its group and puts it back some
\* statements later. Whatever the other threads do to the group meanwhile, a
\* sender with a number for a name gets back in, unless it leaves or closes.
SenderReturns ==
  \A g \in Group, k \in Channel, c \in Channel :
    UserOf[c] \in Numeric /\ c \in home[g][k] \ members[g][k]
      ~> c \in members[g][k] \/ c \notin home[g][k]

\* The handshake looks the object of a group up and binds a new one with no lock
\* between. That two handshakes find one group unbound at the same time is the
\* only way to lose an object: in every other group the channels that joined, by
\* handshake or by createGroup, are in the object groupIdChannelGroupMap holds.
SplitNeedsRace ==
  \A g \in Group \ overlap, k \in Channel :
    bound[g] # None /\ members[g][k] \cup home[g][k] # {} => k = bound[g]

\* The rows of a created group are inserted one by one, outside a transaction,
\* and any insert may fail. Nobody is a member of a stored group or connected to
\* it while its sys_group row or its welcome message is missing.
GroupBeforeMembers ==
  \A g \in Group : task[g] # "none" /\ (member[g] # {} \/ bound[g] # None)
                     => rows[g] = {"welcome", "group"}

(***************************************************************************)
(* The inductive invariant behind the safety properties                    *)
(***************************************************************************)

\* What a handler's locals hold where it uses them.
LocalsSet ==
  \A c \in Channel :
    /\ pc[c] \in {"join", "invite", "exclude", "write", "readd"} => grp[c] \in Group
    /\ pc[c] \in {"exclude", "write", "readd"} => ref[c] \in Channel
    /\ pc[c] \in {"join", "exclude", "write", "readd"} /\ ref[c] # None
         => bound[grp[c]] # None

\* A session is the connection's own user and is there from SetSession on.
SessionSet ==
  \A c \in Channel :
    /\ session[c] \in {None, UserOf[c]}
    /\ link[c] = "open" \/ pc[c] \notin {"idle", "attr"} => session[c] = UserOf[c]

\* The handshake of channel c has group g still to join.
Ahead(c, g) == pc[c] \in {"lookup", "join"} /\ g \in todo[c]

\* A group whose object nobody can look up is known to nobody but the handler
\* that is constructing the object, if it has not failed.
Unbound(g) ==
  /\ member[g] = {} /\ task[g] = "none"
  /\ \A c \in Channel : ~ Ahead(c, g) /\ (grp[c] = g => pc[c] = "invite")

UnboundIsUnknown ==
  \A g \in Group, k \in Channel :
    bound[g] = None /\ members[g][k] \cup home[g][k] # {} => Unbound(g)

\* A stored group that lacks one of its own rows has no members yet, so no
\* handshake comes by its id.
Unseen(g) ==
  /\ member[g] = {} /\ bound[g] = None
  /\ \A c \in Channel : ~ Ahead(c, g) /\ grp[c] # g

StoreOrder ==
  \A g \in Group :
    /\ task[g] = "group" => "welcome" \in rows[g]
    /\ task[g] = "members" => rows[g] = {"welcome", "group"}
    /\ task[g] \notin {"none", "over"} => creator[g] # None
    /\ task[g] # "none" /\ rows[g] # {"welcome", "group"} => Unseen(g)

\* Outside a race at most one handshake is about to bind a group, and what the
\* handlers have looked up is the object bound.
OneFinder ==
  \A g \in Group \ overlap :
    /\ \A c, d \in Finders(g) : c = d
    /\ \A c \in Finders(g) : bound[g] = None
    /\ \A c \in Channel : pc[c] \in {"join", "exclude", "write", "readd"} /\ grp[c] = g
                             => ref[c] \in {None, bound[g]}

\* An id that shows anywhere has been given out.
KnownIds ==
  /\ \A g \in Group : bound[g] # None \/ member[g] # {} \/ task[g] # "none" => g \in used
  /\ \A g \in Group, k \in Channel : members[g][k] \cup home[g][k] # {} => g \in used
  /\ \A c \in Channel : grp[c] \in Group => grp[c] \in used
  /\ \A c \in Channel, g \in Group : Ahead(c, g) => g \in used

\* The id of a group under construction is known to its constructor alone.
Building ==
  \A d \in Channel : pc[d] = "invite" =>
    /\ bound[grp[d]] = None /\ member[grp[d]] = {} /\ task[grp[d]] = "none"
    /\ \A c \in Channel \ {d} : /\ grp[c] # grp[d]
                                /\ members[grp[d]][c] \cup home[grp[d]][c] = {}
                                /\ ~ Ahead(c, grp[d])

\* The inductive invariant: with it, a handler that adds a channel to a group
\* finds a session on it and never touches the object another one writes to.
IInv == /\ TypeOK /\ LocalsSet /\ SessionSet /\ KnownIds /\ Building
        /\ UnboundIsUnknown /\ StoreOrder /\ OneFinder
        /\ SplitNeedsRace
        /\ MembersHaveSession /\ HomeOrSending /\ SenderExcluded /\ RoutesToOwner

(***************************************************************************)
(* What comments of the code say and the code does not do                  *)
(***************************************************************************)

\* MessageRequestHandler: the branch commented "user is online" is taken only
\* for a channel that is connected at that moment.
OnlineBranchIsOnline ==
  [][\A c \in Channel : pc[c] = "direct" /\ pc'[c] = "deliver"
                          => link[ref[c]] # "closed"]_vars

\* GroupMessageRequestHandler, "foreach online user": the object a group message
\* iterates over holds every channel that has joined the group, is connected and
\* is not itself in the middle of a message.
IteratesOnlineUsers ==
  \A g \in Group : bound[g] # None =>
    \A k \in Channel : \A c \in home[g][k] :
      link[c] = "open" /\ pc[c] = "idle" => c \in members[g][bound[g]]

\* CreateGroupRequestHandler, "bind the group id to the channel group": the id
\* bound by a createGroup message is the id its rows are stored under.
CreatedIdIsStoredId ==
  [][\A c \in Channel : pc[c] = "invite" /\ bound'[grp[c]] = c /\ bound[grp[c]] = None
       => task'[grp[c]] # "none"]_vars

\* GroupMessageRequestHandler, "handler that sends group messages": a message of
\* a member, text included, is not given up before it is written to the group.
TextIsSent ==
  [][\A c \in Channel : pc[c] = "exclude" /\ kind[c] = "text" => pc'[c] # "idle"]_vars

=============================================================================
