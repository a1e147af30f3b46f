# A verification project for iotim

iotim is a web chat with group games: a Netty WebSocket server and Spring REST
controllers (`imservice`), the objects of a werewolf game (`gameservice`), an OAuth2
server (`authservice`) and a browser client in JavaScript (under
`imservice/src/main/resources/static`). This directory holds TLA+ modules translated
from that code, TLC configurations that model-check them, and TLAPS proofs.
`PROJECT.json` maps every definition to the source lines it stands for.

Paths below are relative to `src/imservice/src/main/java/org/hints/im/` (im/),
`src/gameservice/src/main/java/org/hints/game/` (game/) and
`src/imservice/src/main/resources/static/bootstrap/js/` (js/).

## 1. Inventory

| Component | Code | State | Operations |
|---|---|---|---|
| Sessions and routing | im/utils/SessionUtil, im/server/HttpRequestHandler, MessageRequestHandler, GroupMessageRequestHandler, CreateGroupRequestHandler | static maps user -> channel, group id -> ChannelGroup; the SESSION attribute of a channel; the ChannelGroup objects | handshake, direct message, group message, create group, connection loss |
| Membership over REST | im/controller/ChannelController | table sys_group_member | leave a group, invite a friend, list, rename |
| Storage | im/persist/DataBaseStore, ThreadPoolExecutorWrapper | queue of inserts on a scheduler | createGroup, persistMessage, persistGroup |
| Game room: seats | game/Lobby, im/controller/GameController, the 80 and 81 branches of GroupMessageRequestHandler | map group id -> Lobby; `players` array, `isOwner` flags | open a room, sit down, leave, inherit, close |
| Game room: cards | game/Lobby, the 82, 83 and 84 branches | `cards` array, `isPicked`, `origanCard`, stage, start time | deal and shuffle, pick, deal to those who did not pick |
| Deck operations | game/Operate | two derived arrays | split, exchange |
| Ids | im/utils/SnowUtils | lastTimestamp, sequence | nextId |
| Game page | js/game.js, the 8x branches of js/chat.js, js/group.js selectGroup, im/controller/GameController getInfo | one start time, one interval handle, the group of the moment | refresh, count down, sit, leave, start, pick, send 84 |
| Chat page: message pane | js/group.js, js/event.js, js/chat.js | the chat that is open, `#show`, page number, scroll listeners | open a group or a user, page through the history, show, send, upload |
| Chat page: lists and heartbeat | js/chat.js, js/group.js, js/event.js | `#userlist`, `#channellist` with its red points, the context menu, the socket | list chats, friends and channels, leave a group, heartbeat |
| Chat page: dialogs and messages | js/bootstrap.js (Modal, Alert), js/common.js, the callbacks that toggle a dialog | per dialog: shown, backdrop; the document's backdrops, padding and handlers; timers | show, hide, dismiss, save, float away |
| Client ids | static/js/snow.js, js/chat.js, js/game.js | fields of an object that lives for one id | nextId, once per object |
| History | im/controller/MessageController | none | one query |
| Authorization | authservice | client registrations cached in Redis | load a client |
| Pools | im/utils/Threads, AsyncManager | task queue | execute, shut down |
| Everything else | records, configuration, MinIO, trial clients, the commented-out Kafka consumer | none | input and output |

**How they interact.** Every WebSocket connection is a Netty channel served by one
event loop thread: one handler of a channel runs at a time, handlers of different
channels run at once. They share the static maps of `SessionUtil` (concurrent maps,
atomic per call only), the ChannelGroup objects they find there (thread-safe sets) and
the Lobby objects (plain arrays, partly under a monitor). Servlet threads run
`ChannelController` and `GameController` against the same maps. The scheduler of
`DataBaseStore` inserts rows that a later handshake reads.

**What is hard.** Look-ups that are acted on later (a group's object, a channel's
session, a seat tested for null and read again); answers that are drawn into whatever
the page shows by then, and scroll listeners that pile up; a dialog that is toggled, not
closed, while its transitions are under way; an alert that stops the page's one thread; two monitors over one array (the
handler's and the lobby's) and methods with none (`Lobby.init`); a sender that takes
itself out of a group and puts itself back; tables and maps that name one group by
different ids; a wait on the system clock inside a monitor; exceptions half way through
a handler. `PROJECT.json` lists them as hazards, each at its line.

**What makes each component correct.** Routing: a channel found by user id belongs to
that user; every channel in a group can be named; a member is in its group's object and
gets what is written to it, but not its own message, and a sender gets back into it.
Storage: no member of a group shows before the group. Seats: one seat per user, nobody is
unseated by another, a room with players stays and has an owner. Cards: one card to a
player, one player to a card, nobody left without when the time is up. Ids: never
repeated, never decreasing. Game page: a start told to a page is counted
down to and dealt, not before its time, and the countdown ends. Message pane: a stored
message is shown once, in its group, in order, and none is out of reach. Lists: what is
listed is what was asked for last; unread groups are marked; the heartbeat goes on.
Dialogs: at rest the page is what the dialogs shown make it; messages go away.

## 2. The modules

| Module | What it is |
|---|---|
| `ImSession` | routing, group creation, membership and the task that stores a created group |
| `LobbySeats` | the seats of a game room, one step per array access |
| `SeatTable` | abstract: what the seats promise. `LobbySeats` implements it |
| `CardPick` | the cards of a game room |
| `SnowUtils` | the id generator under a clock that may be set back |
| `IdSource` | abstract: ids increase. `SnowUtils` implements it |
| `Countdown` | the game page's countdown against a room's stage and start time |
| `ChatPane` | the message pane of the chat page and its pages of history |
| `ChatLists` | the bar of channels, the list beside it, the context menu and the heartbeat |
| `Dialogs` | Modal of bootstrap.js and the callbacks that toggle a dialog |
| `FloatMessage` | the messages of common.js that float away |
| `PageWidgets` | both on one page: a backdrop keeps the mouse off the messages |
| `MC...` | constants for TLC |
| `..._proofs` | theorems and proofs |

Those of the server read the same way: `pc[c]` is the place where the handler of
connection `c` stands, one action is what the code does between two accesses to shared
state, and its guard is the test the code makes there. `Return` is the end of a handler,
by return or by exception. Operators marked "Seeded fault" are in no next-state
relation: each is a plausible bug in the definition below it, and the property it is
paired with in `PROJECT.json` fails when it takes that definition's place.

### ImSession
A channel is also the thread of its own handler. `link` is its life (`new`, `shaking`
while `handleHttpRequest` runs, `open`, `closed`), `session` the SESSION attribute,
`userChan` and `bound` the maps of `SessionUtil`. A ChannelGroup is named by its group
id and the channel that constructed it, since two handlers can construct one each for
one id; `members[g][k]` is what it contains. `member` is the table sys_group_member. A
createGroup queues one task: `task`, `pending` and `creator` say what it inserts next,
`rows` which of the group's own two rows exist; the draw of an id and each insert may
raise (`DbFails`), and what is then not inserted is lost. `HandshakeFails` and
`LeaveFails` are the queries of the others that raise. `overlap` is a history variable:
the groups that two handshakes found unbound at one time. `home` is a history variable: the channels added to a group
that neither left nor closed. A connection close runs no code of the repository:
`SessionUtil.unbind` is never called, and Netty's close listener drops the channel from
its groups. Text messages carry no `fileType` (js/chat.js:659-666), so their handler
raises at `fileType.startsWith`; game messages (8x) are delivered to the sender too;
the rest (`file`) leave it out. In-memory map writes are single steps; a ChannelGroup
iteration (Netty's `writeAndFlush` to the group) is one step too.

### LobbySeats and SeatTable
`setPlayer` holds the monitor of the Lobby, the handler of 81 that of the handler
object: `SitTest`/`SitCmp` and `OffTest`/`OffCmp`/`OffPut` are the two reads and the
write of one loop turn each, and the two walks interleave freely. `OwnScan`..`LeaveDrop`
are the rest of the 81 branch. Accesses to the array are taken as sequentially
consistent; the code gives no such promise for the plain array, and stale reads are not
modelled. `SeatTable` knows only which user is on which seat: a seat is taken when it is
free and by somebody on no other seat.

### CardPick
Cards and players are objects, named by the deck they were made for and by the message
that made them, because replaced decks and unseated players stay reachable from
handlers. `Start`..`SetStartTime` are 82 (no monitor: `Fill` and `Swap` write to whatever
array `this.cards` is by then), `Pick`..`PickSet` 83 (only `pickUp` has the monitor),
`OverTime`..`OverEnd` 84. Sitting down is two steps and leaving one: the finer steps are
LobbySeats', and no card operation can tell them apart except through those states.
`Filled` is how many cards the room's properties name, at most the places there are;
what a card is called does not matter here. `clash` and `short` record that a pick took
a card taken before, and that a deck ran out.

### SnowUtils and IdSource
`nextId` is one critical section; reading the clock, computing and returning are one
step, except that a wrapped sequence waits (`spin`) with the monitor held while `Tick`
and `SetBack` move the clock. `Id` is the bit layout as arithmetic.

### Countdown
The browser pages and the server on one clock. `stage`, `due`, `deck` are what a room
says of its game, set by the handler of 82 in three steps (`ServeStart`, `SetStage`,
`SetStartTime`); `dealt[g]` is the deck the last 84 was for. `wire[t]` are the messages
of a page in the order of its socket, `gets[t]` its requests for a room (`[group]`) and
answers (`[group, stage, date]`) under way; `Serve...` and `GetInfo` are the server's
side, `OnMessage`, `Arrive` and `CountDown` the page's callbacks, the rest its clicks.
`inbox[t]` are the messages to a page, handled one by one. A page has one thread, and
`alert[t]` stops it: an alert comes for a message 80 or 81 (js/chat.js:503-508), a failed
or refused request, and a message to a closed socket, and `Dismiss` is the user's to do;
`after` is the room that the stopped handler asks for then. A page's
variables are the globals of the scripts: `inGroup` is `type == 3`, `interval` the
interval whose handle the page has, `lost` that it has others (js/game.js:95 overwrites
the handle: all intervals run one function on the same variables, so how many there are
does not matter). `panel` is the group whose seats the page shows, and so whose buttons
it has. `Seconds` is the conversion of the start time by `SimpleDateFormat` and
`new Date`. Left out: rooms that open and close (`Room` is fixed), seats and cards, the
time enterNight's request takes (it fails at once or not at all), time zones, and a page's clock differing from the
server's. 80 and 81 are one message `seat`: what they do here is stop pages with an
alert and then make them refresh, as 83 does without the alert.

### ChatPane
One element `#show` that every callback writes to. `type`, `toGroup`, `toUser` are the
globals, `scrollers` the listeners that `f1` and `f2` add with every page and nothing
removes, `asks` the requests under way: an answer is drawn when it comes, whatever is
open by then. A page of history is `PageOf`: the query of MessageController (newest first)
and its pager. The history variables say which promises a visit to a chat can keep:
`stray` (an answer of an earlier visit was drawn in this one), `overtaken` (a page came
before an earlier one), `failed` (pages whose request failed). With a stray answer nothing
is promised: foreign rows, members of another group, an end of paging before its time.
The model also has, without a property: a scroll in a private chat asks for a page of the
last group; messages of types 1 and 2 go to any pane and those of the last group opened
to a private one; an upload goes to the chat that is open when the file is stored.

### ChatLists
`gets` are numbered requests; the list and the bar are drawn by each answer as it comes.
`Serve` is the moment the server reads or deletes the row: a refresh may be served before
a leave and answered after it. A red point can be lost by a redraw (`dropped`), a right
click on the point itself leaves `channelSettingID` undefined, an older answer may be
drawn last (`stale`); the properties say what holds but for that. The heartbeat is armed
by its own answer only, and there is no reconnect: a heartbeat that fires before the
socket opens, or an answer that a closed socket loses, ends it. `showMemberSetting` is
never registered (event.js:98 adds a handler to a collection), so it is no action.

### Dialogs, FloatMessage and PageWidgets
`pend` holds the callbacks that wait for a transition, in units of 150 ms, the time of a
backdrop; a dialog's own transition takes one or two units. `Show` and `Hide` are the
synchronous parts, `ShowCallback`, `HideModal`, `RemoveBackdrop` and `Hidden` the rest.
A dialog is toggled by links, by the answer to its request (`Answer`) and, the one that
makes a group, by message 4 of anybody's new group (`Told`): the server sends it to all
members. A link has no guard: a backdrop keeps the mouse from it and not the keyboard,
since the focus goes to the dialog only when it is in (bootstrap.js:1022) and is free
again while it closes (1050). `rash` records toggles at a bad moment: a dialog shown while
its hide is under way leaves a backdrop that nothing removes; a hide takes the focus and resize
handlers of all dialogs; an answer after a dismissal opens the dialog again. Alert's close
is immediate for these messages, which lack the class `fade`. `Covered` joins the two: the
backdrop's z-index is 1040 (bootstrap.css) and the messages have none.

## 3. The runs

| Run | Instance | Shows |
|---|---|---|
| `session_groups` | two connections of alice, one of bob, one group with members, 2 messages, 1 REST request; only bob's name is a number; alice's connections symmetric | senders come back, are left out of their own message, direct messages reach the addressee, only overlapping handshakes lose a group's object |
| `session_create` | a connection each, 1 message, 1 createGroup over 3 ids | channels of a group always have a session; no member shows before its group's rows, wherever the task fails; a sender gets back into its group |
| `lobby_seats` | two connections of one user and one of another, two seats, two rooms, 3 messages | one seat each, a kept seat stays free until its sitter writes it, no seat taken from a user's only connection, the leaver is out, the seat table, every message ends, also when a room is replaced by another |
| `card_pick` | two users, two seats, two dealt decks, 4 messages | cards in hand are marked and in one hand, nobody left out, every message ends |
| `snow_ids` | three threads, two ids to a millisecond, the clock set back twice, 6 calls | ids increase, calls end |
| `countdown` | two pages, one the owner's, a group with a room and one without, half seconds, one start, a touch, three moves (another group, a direct message, a reload, a closed socket, a failed request) | no 84 a second early in a first game |
| `countdown_deals` | the same with the one group and whole seconds | a start told is dealt unless a request fails, the page leaves or an alert stays open; 84 stops unless an interval was lost |
| `chat_pane` | a group of three stored messages, one of two and a user, pages of two, two visits, three pages, one message | own rows, none twice, none out of reach, in order when no page overtook another |
| `chat_lists` | two groups, two requests at the start and two more | what is listed, marked and asked for agree; the heartbeat goes on |
| `page_widgets` | two dialogs, one of them also toggled by others, one message, four shows and hides, two requests | the page and its handlers at rest, every transition ends, a message held stays and one left goes away with its timers |
| `session_split`, `lobby_closed` | small | the code does not do what a comment says (section 5) |

Type invariants are not repeated in the runs of modules where they are proved (section 4).

**Bounds.** `MaxSend`, `MaxRest`, `MaxCreate`, `MaxReq`, `MaxLobby`, `MaxStart`,
`MaxPlay` and `MaxCall` count messages, requests, rooms, decks and calls; `MaxGap` how
far the clock runs ahead, `MaxBack` how often it is set back. The properties relate at
most two handlers and one object, so two messages beside handshakes, three seat changes,
and four card messages (two to deal at once, one to pick, one to deal the rest) reach
every overlap of two handlers in every order; three connections add a bystander. A
sequence of two numbers wraps on the second call of a millisecond as 4096 does on the
4096th. `countdown` has two clock units to a second and a lead of one second, so that a
start can be a fraction of a second ahead of what pages are told; what is told and dealt
in the end does not depend on the fraction nor on a second group, and `countdown_deals`
has neither. `MaxDeal` keeps a page's intervals from sending while its last message 84, or
what a page was told of it, is not read, `MaxTouch` and `MaxMove`
count what users do. Two starts were not needed: the safety property is about first
games, and the proof has no such bound. With two starts, two rooms and any one of the
three conditions of `FirstGame` taken away, TLC finds a card dealt early. `card_pick`
has `Rest = 0` (the code's decks have three cards more than seats): the deck is used up
sooner, and the proofs hold for any `Rest`. `chat_pane`
has a group whose last page is short and one whose last page is full, the two ways for
paging to end; two visits are enough for an answer to come in the wrong one, and a scroll
after the first page runs two listeners. In `chat_lists` `MaxGet` of 4 leaves two requests
beside the two of the start, enough for one to overtake another in either place and for a
leave and its refresh. `page_widgets` has four shows and hides: one dialog opened, closed,
reopened and closed, or two dialogs one above the other. Of the passing runs' properties only
the liveness properties rest on these bounds: every invariant and action property and
both refinements are proved without them (section 4).

**Fairness.** In `ImSession` weak fairness of `Handler(c)` alone (an event loop runs a
handler it has begun); nothing is assumed of the servlet threads and of the task that
stores a group, which may stop or fail anywhere. In the lobby and the ids, of the handlers
too (a Java monitor that is released is handed on), of `NextId(t)` and of `Tick` (time
passes). In `Countdown`, of the server's handling of each page's messages, of the page's
messages, intervals, oldest request and oldest answer, all of which wait while the page
shows an alert; that the user dismisses it is not assumed: `StartIsDealt` speaks of pages
without an alert again and again. In the browser's other modules, of its timers and the
callbacks that are due (`Timeout`, `Float`, `Elapse`, `Callback`, `Beat`), and of the
server's answer to a heartbeat while the socket is open (`Pong`). Nothing is assumed of
users and the mouse. Weak fairness of a thread waiting for a monitor is enough in these
instances because only finitely many messages compete for it. Nothing is assumed of what
clients send.

## 4. What is proved

TLAPS checks the following for all values of the constants that satisfy the modules'
assumptions (named `...Assumption`: the owner of a connection is a user, bounds are
naturals, at least one seat, `None` is none of the values it stands apart from).
Every proof is the same argument: an inductive invariant (`IInv`; `Paging` and `InOrder`
beside it in `ChatPane_proofs`, `DialogsInv` in `PageWidgets_proofs`), one lemma or step
per action, and the properties as its consequences. Each invariant was first checked with
TLC on the run's instance.

| Module | Theorems | The invariant |
|---|---|---|
| `ImSession_proofs` | `IInvHolds`, `TypeCorrect`, `NamesNeverNull` (MembersHaveSession), `SendersComeBack` (HomeOrSending), `NoEcho` (SenderExcluded), `DirectRouting` (RoutesToOwner), `OnlyRacesSplit` (SplitNeedsRace), `GroupRowFirst` (GroupBeforeMembers) | what a handler's locals hold where it uses them, whose session a channel has from which step on, and that an id shown anywhere was given out, so that a group under construction is known to its constructor alone. Without the last, a leave or a send could touch an object whose creator is still adding to it. Outside a race one handshake at most is about to bind a group (`OneFinder`); a stored group without its own rows is known to no handler (`Unseen`) |
| `LobbySeats_proofs` | `IInvHolds`, `TypeCorrect`, `OneSeatEach`, `SeatKeptFree`, `LeaverGone`, `NobodyUnseated`, `SeatsImplementTable` (refinement of SeatTable) | a sitter is alone in a room's monitor, its target stays free and its user is on none of the seats it has passed; a leaver is alone in the handler's monitor and its passed seats are not its user's. A user with two connections can be seated by the one while the other leaves, so what is said of a leaver or a sitter is said of a connection that is its user's only one (`Alone`), whatever the other users have. One seat per user is not inductive without the loops' progress |
| `CardPick_proofs` | `IInvHolds`, `TypeCorrect`, `MarkedInHand`, `NoCardDealtTwice`, `NobodyLeftOut` | loop bounds, one handler in the monitor, a served player's seat is its own or empty, and a card is in one hand counting the picks between `pickUp` and `setOriganCard` |
| `IdSource_proofs`, of `SnowUtils` | `IInvHolds`, `SnowUtilsImplementsIdSource` (refinement of IdSource) | the last id is the one the statics spell, or the last of its millisecond while a thread waits |
| `ChatPane_proofs` | `TypeCorrect`, `PaneIsGroups` (PaneOfGroup), `NoRowTwice` (NoneTwice), `NoMessageLost` (NothingLost), `HistoryInOrder` (EndOfHistory), `MembersAreGroups` (MembersSettle) | within a visit to a group what is asked for is asked of that group, page by page, and every stored row that is shown is on a page no longer asked for. `Paging`: a page asked for is on its way, failed, or has all its rows in the pane; only a short page ends the paging (the pages after it are empty, `LaterPage`); no listener is there only while the first page is. `InOrder`: the pane is the last rows of the history above what came since, and the pages on their way lie above them. The pages' limits are products with the size of a page: the lemmas on them (`PageLimits`, `OnePage`, `Division`, `LaterPage`) are proved once, the steps know them by name |
| `ChatLists_proofs` | `IInvHolds`, `TypeCorrect` (TypeOK), `PointsMarked` (UnreadMarked), `BarIsJoined` (ListedIsJoined), `ListIsWanted` (ListSettles) | what is drawn at rest says nothing of the answers still to come, so for each place: as long as the request made last is under way and nothing newer was drawn, its answer is what is wanted (`ListInTurn`) or, once read, the user's groups (`BarInTurn`, unless a leave that is done has still to ask again); with none under way, that is what is shown |
| `PageWidgets_proofs` | messages: `IInvHolds`, `NoIntervalLost` (NoneLost), `MouseHolds` (HeldStill). The page: `WidgetsHold`, `MouseHoldsOnPage` (HeldStill), `PageIsRestored` (PageRestored), `HandlersAreRestored` (HandlersRestored) | messages: which timers run follows from the place, the document and the mouse. Dialogs, whatever the toggles: every dialog names a backdrop of its own or none, a backdrop waiting to be removed is that of a closed dialog or an orphan. Without stacked or reshown dialogs there is one at most, in one of five steps, each with what waits for it and which handlers are set (`OneAtATime`) |
| `Countdown_proofs` | `IInvHolds`, `TypeCorrect`, `DealtOnTime` (FirstGameOnTime) | every answer of stage 1, every running countdown and every 84 under way agrees with the one start time of its group, and the room an alert holds back is the page's own; it needs that a room was started once, that no page asked between the two writes of 82 and that no page changed group. Without any one of the three the property fails, which is what `FirstGame` says. The proof goes by variable, not by action: for each of clock, rooms, requests, messages and pages one lemma says how a step can change it (`RoomChange`, `ClockChange`, `GetsMove`, ...), and each part of the invariant is preserved by those it reads |

**Only model-checked:** every liveness property (`SenderReturns`, both `MessagesEnd`,
`CallsEnd`, `StartIsDealt`, `SilentUnlessLost`, `BeatsGoOn`, `GoesAway`,
`TransitionsEnd`), because ENABLED and fairness are beyond the prover, and the
counterexamples of section 5. Every invariant, action property and refinement of the
passing runs is a theorem.

**What the proofs do not say.** They are about the modules, whose abstractions section 2
names. Where a property has a history variable in its premise (`stray`, `overtaken`,
`failed`, `stale`, `lost`, `behind`, `dropped`, `clash`, `short`, `overlap`, `rash`, the conditions of
`FirstGame`), the code does misbehave in the case excluded: the runs reach those states,
and for those of the dialogs the invariant itself keeps the orphan backdrop that is left.

## 5. Where the code and its comments disagree

Two statements of the repository have a run that TLC ends with a counterexample.

* `IteratesOnlineUsers`: two first handshakes of a group at once, and one member ends
  up in an object no message iterates over.
* `ClosedRoomIsEmpty`: a player sits down behind the leaver's scan and the room closes.

Four more are stated in `ImSession` and `LobbySeats`, follow from single handlers and have
no run of their own:

* `OnlineBranchIsOnline`: the branch for an online user is taken for a connection that
  is gone; nothing removes it from `userIdChannelMap`.
* `CreatedIdIsStoredId`: createGroup announces one UUID and stores another.
* `TextIsSent`: a group text has no `fileType`, and its handler raises before writing.
* `RoomHasOwner`: an owner who changes seat loses the flag, and nobody inherits.

What the browser does that its user would not expect is named with the modules above; no
comment of the code promises otherwise.

## 6. What is not modelled

Rendering and everything the browser draws; queries that change nothing; Netty's codecs
and the close handshake; MinIO; Spring configuration; `NettyServerHandler`,
`persistMessage`, `persistGroup`, `AsyncManager` and the Kafka consumer, which nothing
live reaches; weak memory; the constructor checks of `SnowUtils`; login, heartbeat and
ping frames, which touch no shared state of the server; snow.js, of which every caller makes a new
object and asks it for one id (the time and constants: two messages of a millisecond have
the same, and nothing compares them); static/js/chat.js, an earlier
client that no view loads; the plug-ins of bootstrap.js the chat page's scripts do not use
(carousel, tooltip, scroll spy, affix, tab, collapse, button) and its drop-down menus;
Lobby.splitCard and Operate, which nothing live calls; the cache of client registrations
and `Threads.shutdown`, whose effects lie in Redis and in the JDK's pools.

## 7. Plan

1. Done: `ImSession`, `LobbySeats` with `SeatTable`, `SnowUtils` with `IdSource`,
   `CardPick`, `Countdown`, and their proofs; `ChatPane`, `FloatMessage` and
   their proofs; `ChatLists`, `Dialogs`, `PageWidgets`.
2. Done: the proofs of `ChatLists`, of `Dialogs` on the page, and of `NothingLost` and
   `EndOfHistory`.
3. `Deck`: Operate and Lobby.splitCard as functions on sequences, against a reference
   definition, once something calls them.
