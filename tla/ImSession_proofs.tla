-------------------------- MODULE ImSession_proofs --------------------------
(***************************************************************************)
(* Proofs about ImSession, for any channels, users, groups and bounds: the *)
(* conjuncts of the inductive invariant IInv one lemma each, then the      *)
(* theorems. In each lemma the actions that touch what the conjunct speaks *)
(* of have a step of their own where a frame step can cover the others.    *)
(***************************************************************************)
EXTENDS ImSession, TLAPS

Joined == [Group -> [Channel -> SUBSET Channel]]

LEMMA AddedType ==
  ASSUME NEW f \in Joined, NEW g \in Group, NEW k \in Channel, NEW d \in Channel
  PROVE  Added(f, g, k, d) \in Joined
BY DEF Joined, Added

LEMMA AddedAt ==
  ASSUME NEW f \in Joined, NEW g \in Group, NEW k \in Channel, NEW d \in Channel
  PROVE  /\ Added(f, g, k, d)[g][k] = f[g][k] \cup {d}
         /\ \A h \in Group, j \in Channel :
              h # g \/ j # k => Added(f, g, k, d)[h][j] = f[h][j]
BY DEF Joined, Added

\* One turn of the createGroup loop: at most a channel found online is added, to
\* the object under construction.
CreateAddDone(c) ==
  /\ grp[c] \in Group /\ pc[c] = "invite" /\ pc' = pc
  /\ todo' \in [Channel -> SUBSET (Group \cup User)]
  /\ todo'[c] \subseteq todo[c] /\ \A e \in Channel \ {c} : todo'[e] = todo[e]
  /\ members' \in Joined /\ home' \in Joined
  /\ \A h \in Group, k \in Channel : h # grp[c] \/ k # c
       => members'[h][k] = members[h][k] /\ home'[h][k] = home[h][k]
  /\ \E S \in SUBSET Channel :
       /\ \A d \in S : session[d] # None
       /\ members'[grp[c]][c] = members[grp[c]][c] \cup S
       /\ home'[grp[c]][c] = home[grp[c]][c] \cup S
  /\ UNCHANGED <<link, session, userChan, bound, member, grp, ref, listed, kind,
                 leave, task, pending, creator, rows, overlap, used, quota>>

LEMMA CreateAddEffect ==
  ASSUME IInv, NEW c \in Channel, CreateAdd(c)
  PROVE  CreateAddDone(c)
<1> USE NoneAssumption, UserOfAssumption DEF IInv, TypeOK, LocalsSet, Goto, store
<1>1. PICK u \in todo[c] \cap User :
        /\ todo' = [todo EXCEPT ![c] = @ \ {u}]
        /\ \/ UNCHANGED <<members, home>>
           \/ /\ Online(userChan[u])
              /\ members' = Added(members, grp[c], c, userChan[u])
              /\ home' = Added(home, grp[c], c, userChan[u])
  BY DEF CreateAdd
<1>2. Online(userChan[u]) => userChan[u] \in Channel /\ session[userChan[u]] # None
  BY <1>1 DEF Online
<1>3. grp[c] \in Group /\ pc[c] = "invite" /\ pc' = pc
  BY DEF CreateAdd
<1>4. /\ todo' \in [Channel -> SUBSET (Group \cup User)]
      /\ todo'[c] \subseteq todo[c] /\ \A e \in Channel \ {c} : todo'[e] = todo[e]
  BY <1>1
<1>5. UNCHANGED <<link, session, userChan, bound, member, grp, ref, listed, kind,
                  leave, task, pending, creator, rows, overlap, used, quota>>
  BY DEF CreateAdd
<1>6. CASE UNCHANGED <<members, home>>
  <2>1. /\ members'[grp[c]][c] = members[grp[c]][c] \cup {}
        /\ home'[grp[c]][c] = home[grp[c]][c] \cup {}
    BY <1>6
  <2>2. members' \in Joined /\ home' \in Joined
    BY <1>6 DEF Joined
  <2> QED
    BY <1>3, <1>4, <1>5, <1>6, <2>1, <2>2 DEF CreateAddDone
<1>7. CASE /\ Online(userChan[u])
           /\ members' = Added(members, grp[c], c, userChan[u])
           /\ home' = Added(home, grp[c], c, userChan[u])
  <2>1. members \in Joined /\ home \in Joined
    BY DEF Joined
  <2> HIDE DEF IInv, TypeOK, LocalsSet
  <2>2. members' \in Joined /\ home' \in Joined
    BY <1>2, <1>3, <1>7, <2>1, AddedType
  <2>3. {userChan[u]} \in SUBSET Channel /\ \A d \in {userChan[u]} : session[d] # None
    BY <1>2, <1>7
  <2>4. /\ members'[grp[c]][c] = members[grp[c]][c] \cup {userChan[u]}
        /\ home'[grp[c]][c] = home[grp[c]][c] \cup {userChan[u]}
    BY <1>2, <1>3, <1>7, <2>1, AddedAt
  <2>5. \A h \in Group, k \in Channel : h # grp[c] \/ k # c
          => members'[h][k] = members[h][k] /\ home'[h][k] = home[h][k]
    BY <1>2, <1>3, <1>7, <2>1, AddedAt
  <2> QED
    BY <1>3, <1>4, <1>5, <2>2, <2>3, <2>4, <2>5 DEF CreateAddDone
<1> QED
  BY <1>1, <1>6, <1>7

\* One insert of a member's row.
DbInsertDone(g) ==
  /\ task[g] = "members"
  /\ task' \in [Group -> Steps] /\ task'[g] \in {"members", "over"}
  /\ \A h \in Group \ {g} : task'[h] = task[h]
  /\ pending' \in [Group -> SUBSET User]
  /\ member' \in [Group -> SUBSET User]
  /\ \A h \in Group \ {g} : member'[h] = member[h]
  /\ UNCHANGED <<link, session, userChan, bound, members, home, pc, grp, ref, todo,
                 listed, kind, leave, creator, rows, overlap, used, quota>>

LEMMA DbInsertEffect ==
  ASSUME IInv, NEW g \in Group, DbInsert(g)
  PROVE  DbInsertDone(g)
<1>0. UNCHANGED <<link, session, userChan, bound, members, home, pc, grp, ref, todo,
                  listed, kind, leave, creator, rows, overlap, used, quota>>
  BY DEF DbInsert, rooms, locals
<1> USE NoneAssumption
    DEF IInv, TypeOK, StoreOrder, Stores, Inserts, Steps, rooms, locals
<1>1. task[g] = "members" /\ creator[g] \in User
  BY DEF DbInsert
<1>2. PICK u \in User : member' = [member EXCEPT ![g] = @ \cup {u}]
  BY <1>1 DEF DbInsert
<1>3. /\ member' \in [Group -> SUBSET User]
      /\ \A h \in Group \ {g} : member'[h] = member[h]
  BY <1>2
<1>4. /\ task' \in [Group -> Steps] /\ task'[g] \in {"members", "over"}
      /\ \A h \in Group \ {g} : task'[h] = task[h]
  <2>1. PICK to \in {"members", "over"} : task' = [task EXCEPT ![g] = to]
    BY DEF DbInsert
  <2> QED
    BY <2>1
<1>5. pending' \in [Group -> SUBSET User]
  <2>1. CASE \E v \in pending[g] : pending' = [pending EXCEPT ![g] = @ \ {v}]
    BY <2>1
  <2>2. CASE pending' = pending
    BY <2>2
  <2> QED
    BY <2>1, <2>2 DEF DbInsert
<1> QED
  BY <1>0, <1>1, <1>3, <1>4, <1>5 DEF DbInsertDone

LEMMA InitIInv == Init => IInv
<1> SUFFICES ASSUME Init PROVE IInv
  OBVIOUS
<1> USE NoneAssumption, UserOfAssumption, NumericAssumption, MemberAssumption,
        QuotaAssumption DEF Init
<1>1. TypeOK
  BY DEF TypeOK, PCs, Kinds, Requests, Steps
<1>2. LocalsSet /\ SessionSet /\ KnownIds /\ Building
  BY DEF LocalsSet, SessionSet, KnownIds, Building, Ahead
<1>3. UnboundIsUnknown /\ SplitNeedsRace
  BY DEF UnboundIsUnknown, SplitNeedsRace
<1>4. StoreOrder /\ OneFinder
  BY DEF StoreOrder, OneFinder, Finders
<1>5. MembersHaveSession /\ HomeOrSending /\ SenderExcluded /\ RoutesToOwner
  BY DEF MembersHaveSession, HomeOrSending, SenderExcluded, RoutesToOwner
<1> QED
  BY <1>1, <1>2, <1>3, <1>4, <1>5 DEF IInv


\* Types: the object and the id a handler uses are those LocalsSet provides.
LEMMA TypeStep == IInv /\ [Next]_vars => TypeOK'
<1> SUFFICES ASSUME IInv, [Next]_vars PROVE TypeOK'
  OBVIOUS
<1>0. /\ \A c \in Channel : CreateAdd(c) => CreateAddDone(c)
      /\ \A g \in Group : DbInsert(g) => DbInsertDone(g)
  BY CreateAddEffect, DbInsertEffect
<1> USE NoneAssumption, UserOfAssumption, NumericAssumption
    DEF IInv, Goto, Return, Spend, Added, Removed, Dropped, locals, rooms, store,
        Stores, Inserts, Leaving, NoLeave, TypeOK, LocalsSet, PCs, Kinds, Requests, Steps
<1>1. ASSUME NEW c \in Channel, SetSession(c) PROVE TypeOK'
  BY <1>1 DEF SetSession
<1>2. ASSUME NEW c \in Channel, QueryGroups(c) PROVE TypeOK'
  BY <1>2 DEF QueryGroups
<1>3. ASSUME NEW c \in Channel, HandshakeFails(c) PROVE TypeOK'
  BY <1>3 DEF HandshakeFails
<1>4. ASSUME NEW c \in Channel, JoinLookup(c) PROVE TypeOK'
  BY <1>4 DEF JoinLookup
<1>5. ASSUME NEW c \in Channel, JoinNew(c) PROVE TypeOK'
  BY <1>5 DEF JoinNew
<1>6. ASSUME NEW c \in Channel, JoinAdd(c) PROVE TypeOK'
  BY <1>6 DEF JoinAdd
<1>7. ASSUME NEW c \in Channel, FinishHandshake(c) PROVE TypeOK'
  BY <1>7 DEF FinishHandshake
<1>8. ASSUME NEW c \in Channel, DirectOffline(c) PROVE TypeOK'
  BY <1>8 DEF DirectOffline
<1>9. ASSUME NEW c \in Channel, DirectOnline(c) PROVE TypeOK'
  BY <1>9 DEF DirectOnline
<1>10. ASSUME NEW c \in Channel, DirectWrite(c) PROVE TypeOK'
  BY <1>10 DEF DirectWrite
<1>11. ASSUME NEW c \in Channel, SendFails(c) PROVE TypeOK'
  BY <1>11 DEF SendFails
<1>12. ASSUME NEW c \in Channel, SendExclude(c) PROVE TypeOK'
  BY <1>12 DEF SendExclude
<1>13. ASSUME NEW c \in Channel, SendWrite(c) PROVE TypeOK'
  BY <1>13 DEF SendWrite
<1>14. ASSUME NEW c \in Channel, SendReadd(c) PROVE TypeOK'
  BY <1>14 DEF SendReadd
<1>15. ASSUME NEW c \in Channel, CreateAdd(c) PROVE TypeOK'
  BY <1>15, <1>0 DEF CreateAddDone, Joined
<1>16. ASSUME NEW c \in Channel, CreateFails(c) PROVE TypeOK'
  BY <1>16 DEF CreateFails
<1>17. ASSUME NEW c \in Channel, CreateBind(c) PROVE TypeOK'
  BY <1>17 DEF CreateBind
<1>18. ASSUME NEW c \in Channel, BindChannel(c) PROVE TypeOK'
  BY <1>18 DEF BindChannel
<1>19. ASSUME NEW c \in Channel, Close(c) PROVE TypeOK'
  BY <1>19 DEF Close
<1>20. ASSUME NEW c \in Channel, NEW u \in User, DirectLookup(c, u) PROVE TypeOK'
  BY <1>20 DEF DirectLookup
<1>21. ASSUME NEW c \in Channel, NEW g \in Group, NEW k \in Kinds, SendLookup(c, g, k) PROVE TypeOK'
  BY <1>21 DEF SendLookup
<1>22. ASSUME NEW c \in Channel, NEW us \in SUBSET Numeric, CreateStart(c, us) PROVE TypeOK'
  BY <1>22 DEF CreateStart
<1>23. ASSUME NEW u \in User, LeaveRemove(u) PROVE TypeOK'
  <2>1. leave[u] \in Leaving
    BY <1>23 DEF LeaveRemove
  <2>2. [leave[u] EXCEPT !.step = "clear"] \in Leaving
    BY <2>1
  <2>3. leave' \in [User -> {NoLeave} \cup Leaving]
    BY <1>23, <2>2 DEF LeaveRemove
  <2>4. members' \in [Group -> [Channel -> SUBSET Channel]] /\ home' \in [Group -> [Channel -> SUBSET Channel]]
    BY <1>23 DEF LeaveRemove
  <2> QED
    BY <1>23, <2>3, <2>4 DEF LeaveRemove
<1>24. ASSUME NEW u \in User, LeaveClear(u) PROVE TypeOK'
  <2>1. leave' \in [User -> {NoLeave} \cup Leaving]
    BY <1>24 DEF LeaveClear
  <2>2. member' \in [Group -> SUBSET User]
    BY <1>24 DEF LeaveClear
  <2> QED
    BY <1>24, <2>1, <2>2 DEF LeaveClear
<1>25. ASSUME NEW u \in User, LeaveFails(u) PROVE TypeOK'
  BY <1>25 DEF LeaveFails
<1>26. ASSUME NEW u \in User, NEW g \in Group, LeaveLookup(u, g) PROVE TypeOK'
  BY <1>26 DEF LeaveLookup
<1>27. ASSUME NEW u \in User, NEW g \in Group, InviteFriend(u, g) PROVE TypeOK'
  BY <1>27 DEF InviteFriend
<1>28. ASSUME NEW g \in Group, DbWelcome(g) PROVE TypeOK'
  BY <1>28 DEF DbWelcome
<1>29. ASSUME NEW g \in Group, DbGroup(g) PROVE TypeOK'
  BY <1>29 DEF DbGroup
<1>30. ASSUME NEW g \in Group, DbInsert(g) PROVE TypeOK'
  BY <1>30, <1>0 DEF DbInsertDone
<1>31. ASSUME NEW g \in Group, DbFails(g) PROVE TypeOK'
  BY <1>31 DEF DbFails
<1>32. CASE UNCHANGED vars
  BY <1>32 DEF vars
<1> HIDE DEF IInv, Goto, Return, Spend, Added, Removed, Dropped, locals, rooms, store,
        Stores, Inserts, Leaving, NoLeave, TypeOK, LocalsSet, PCs, Kinds, Requests, Steps
<1> QED
  BY <1>1, <1>2, <1>3, <1>4, <1>5, <1>6, <1>7, <1>8, <1>9, <1>10, <1>11,
     <1>12, <1>13, <1>14, <1>15, <1>16, <1>17, <1>18, <1>19, <1>20, <1>21,
     <1>22, <1>23, <1>24, <1>25, <1>26, <1>27, <1>28, <1>29, <1>30, <1>31,
     <1>32
  DEF Next, Handler, Arrival, Rest, Quiet, Db

LEMMA LocalsStep == IInv /\ [Next]_vars => LocalsSet'
<1> SUFFICES ASSUME IInv, [Next]_vars PROVE LocalsSet'
  OBVIOUS
<1> USE NoneAssumption, UserOfAssumption, NumericAssumption
    DEF IInv, Goto, Return, Spend, Added, Removed, Dropped, locals, rooms, store,
        Stores, Inserts, Leaving, NoLeave, TypeOK, LocalsSet
<1>1. ASSUME NEW c \in Channel, JoinLookup(c) PROVE LocalsSet'
  BY <1>1 DEF JoinLookup
<1>2. ASSUME NEW c \in Channel, JoinNew(c) PROVE LocalsSet'
  BY <1>2 DEF JoinNew
<1>3. ASSUME NEW c \in Channel, JoinAdd(c) PROVE LocalsSet'
  BY <1>3 DEF JoinAdd
<1>4. ASSUME NEW c \in Channel, NEW g \in Group, NEW k \in Kinds, SendLookup(c, g, k) PROVE LocalsSet'
  BY <1>4 DEF SendLookup
<1>5. ASSUME NEW c \in Channel, NEW us \in SUBSET Numeric, CreateStart(c, us) PROVE LocalsSet'
  BY <1>5 DEF CreateStart
<1>6. ASSUME NEW c \in Channel, 
            \/ SetSession(c) \/ QueryGroups(c) \/ HandshakeFails(c) \/ FinishHandshake(c)
            \/ BindChannel(c) \/ Close(c)
     PROVE LocalsSet'
  BY <1>6 DEF SetSession, QueryGroups, HandshakeFails, FinishHandshake, BindChannel, Close
<1>7. ASSUME NEW c \in Channel, 
            \/ DirectOffline(c) \/ DirectOnline(c) \/ DirectWrite(c)
            \/ SendFails(c) \/ SendExclude(c) \/ SendWrite(c) \/ SendReadd(c)
     PROVE LocalsSet'
  BY <1>7 DEF DirectOffline, DirectOnline, DirectWrite, SendFails,
             SendExclude, SendWrite, SendReadd
<1>8. ASSUME NEW c \in Channel, 
            \/ CreateAdd(c) \/ CreateFails(c) \/ CreateBind(c)
     PROVE LocalsSet'
  BY <1>8 DEF CreateAdd, CreateFails, CreateBind
<1>9. ASSUME NEW c \in Channel, NEW u \in User, DirectLookup(c, u) PROVE LocalsSet'
  BY <1>9 DEF DirectLookup
<1>10. ASSUME NEW u \in User, 
            \/ LeaveRemove(u) \/ LeaveClear(u) \/ LeaveFails(u)
     PROVE LocalsSet'
  BY <1>10 DEF LeaveRemove, LeaveClear, LeaveFails
<1>11. ASSUME NEW u \in User, NEW g \in Group, 
            \/ LeaveLookup(u, g) \/ InviteFriend(u, g)
     PROVE LocalsSet'
  BY <1>11 DEF LeaveLookup, InviteFriend
<1>12. ASSUME NEW g \in Group, Db(g) PROVE LocalsSet'
  BY <1>12 DEF Db, DbWelcome, DbGroup, DbInsert, DbFails
<1>13. CASE UNCHANGED vars
  BY <1>13 DEF vars
<1> HIDE DEF IInv, Goto, Return, Spend, Added, Removed, Dropped, locals, rooms, store,
        Stores, Inserts, Leaving, NoLeave, TypeOK, LocalsSet
<1> QED
  BY <1>1, <1>2, <1>3, <1>4, <1>5, <1>6, <1>7, <1>8, <1>9, <1>10, <1>11,
     <1>12, <1>13
  DEF Next, Handler, Arrival, Rest, Quiet, Db

LEMMA SessionStep == IInv /\ [Next]_vars => SessionSet'
<1> SUFFICES ASSUME IInv, [Next]_vars PROVE SessionSet'
  OBVIOUS
<1>0. /\ \A c \in Channel : CreateAdd(c) => CreateAddDone(c)
      /\ \A g \in Group : DbInsert(g) => DbInsertDone(g)
  BY CreateAddEffect, DbInsertEffect
<1> USE NoneAssumption, UserOfAssumption, NumericAssumption
    DEF IInv, Goto, Return, Spend, Added, Removed, Dropped, locals, rooms, store,
        Stores, Inserts, Leaving, NoLeave, TypeOK, SessionSet
<1>1. ASSUME NEW c \in Channel, SetSession(c) PROVE SessionSet'
  BY <1>1 DEF SetSession
<1>2. ASSUME NEW c \in Channel, FinishHandshake(c) PROVE SessionSet'
  BY <1>2 DEF FinishHandshake
<1>3. ASSUME NEW c \in Channel, BindChannel(c) PROVE SessionSet'
  BY <1>3 DEF BindChannel
<1>4. ASSUME NEW c \in Channel, Close(c) PROVE SessionSet'
  BY <1>4 DEF Close
<1>5. ASSUME NEW c \in Channel, 
            \/ QueryGroups(c) \/ HandshakeFails(c) \/ JoinLookup(c) \/ JoinNew(c) \/ JoinAdd(c)
     PROVE SessionSet'
  BY <1>5 DEF QueryGroups, HandshakeFails, JoinLookup, JoinNew, JoinAdd
<1>6. ASSUME NEW c \in Channel, 
            \/ DirectOffline(c) \/ DirectOnline(c) \/ DirectWrite(c)
            \/ SendFails(c) \/ SendExclude(c) \/ SendWrite(c) \/ SendReadd(c)
     PROVE SessionSet'
  BY <1>6 DEF DirectOffline, DirectOnline, DirectWrite, SendFails,
             SendExclude, SendWrite, SendReadd
<1>7. ASSUME NEW c \in Channel, 
            \/ CreateAdd(c) \/ CreateFails(c) \/ CreateBind(c)
     PROVE SessionSet'
  <2>1. CASE CreateAdd(c)
    BY <2>1, <1>0 DEF CreateAddDone
  <2>2. CASE CreateFails(c) \/ CreateBind(c)
    BY <2>2 DEF CreateFails, CreateBind
  <2> QED
    BY <1>7, <2>1, <2>2
<1>8. ASSUME NEW c \in Channel, NEW u \in User, DirectLookup(c, u) PROVE SessionSet'
  BY <1>8 DEF DirectLookup
<1>9. ASSUME NEW c \in Channel, NEW g \in Group, NEW k \in Kinds, SendLookup(c, g, k) PROVE SessionSet'
  BY <1>9 DEF SendLookup
<1>10. ASSUME NEW c \in Channel, NEW us \in SUBSET Numeric, CreateStart(c, us) PROVE SessionSet'
  BY <1>10 DEF CreateStart
<1>11. ASSUME NEW u \in User, 
            \/ LeaveRemove(u) \/ LeaveClear(u) \/ LeaveFails(u)
     PROVE SessionSet'
  BY <1>11 DEF LeaveRemove, LeaveClear, LeaveFails
<1>12. ASSUME NEW u \in User, NEW g \in Group, 
            \/ LeaveLookup(u, g) \/ InviteFriend(u, g)
     PROVE SessionSet'
  BY <1>12 DEF LeaveLookup, InviteFriend
<1>13. ASSUME NEW g \in Group, Db(g) PROVE SessionSet'
  BY <1>13 DEF Db, DbWelcome, DbGroup, DbInsert, DbFails
<1>14. CASE UNCHANGED vars
  BY <1>14 DEF vars
<1> HIDE DEF IInv, Goto, Return, Spend, Added, Removed, Dropped, locals, rooms, store,
        Stores, Inserts, Leaving, NoLeave, TypeOK, SessionSet
<1> QED
  BY <1>1, <1>2, <1>3, <1>4, <1>5, <1>6, <1>7, <1>8, <1>9, <1>10, <1>11,
     <1>12, <1>13, <1>14
  DEF Next, Handler, Arrival, Rest, Quiet, Db

LEMMA KnownStep == IInv /\ [Next]_vars => KnownIds'
<1> SUFFICES ASSUME IInv, [Next]_vars PROVE KnownIds'
  OBVIOUS
<1>0. /\ \A c \in Channel : CreateAdd(c) => CreateAddDone(c)
      /\ \A g \in Group : DbInsert(g) => DbInsertDone(g)
  BY CreateAddEffect, DbInsertEffect
<1> USE NoneAssumption, UserOfAssumption, NumericAssumption
    DEF IInv, Goto, Return, Spend, Added, Removed, Dropped, locals, rooms, store,
        Stores, Inserts, Leaving, NoLeave, TypeOK, KnownIds, LocalsSet, Ahead
<1>1. ASSUME NEW c \in Channel, SetSession(c) PROVE KnownIds'
  BY <1>1 DEF SetSession
<1>2. ASSUME NEW c \in Channel, QueryGroups(c) PROVE KnownIds'
  BY <1>2 DEF QueryGroups
<1>3. ASSUME NEW c \in Channel, HandshakeFails(c) PROVE KnownIds'
  BY <1>3 DEF HandshakeFails
<1>4. ASSUME NEW c \in Channel, JoinLookup(c) PROVE KnownIds'
  BY <1>4 DEF JoinLookup
<1>5. ASSUME NEW c \in Channel, JoinNew(c) PROVE KnownIds'
  BY <1>5 DEF JoinNew
<1>6. ASSUME NEW c \in Channel, JoinAdd(c) PROVE KnownIds'
  BY <1>6 DEF JoinAdd
<1>7. ASSUME NEW c \in Channel, FinishHandshake(c) PROVE KnownIds'
  BY <1>7 DEF FinishHandshake
<1>8. ASSUME NEW c \in Channel, DirectOffline(c) PROVE KnownIds'
  BY <1>8 DEF DirectOffline
<1>9. ASSUME NEW c \in Channel, DirectOnline(c) PROVE KnownIds'
  BY <1>9 DEF DirectOnline
<1>10. ASSUME NEW c \in Channel, DirectWrite(c) PROVE KnownIds'
  BY <1>10 DEF DirectWrite
<1>11. ASSUME NEW c \in Channel, SendFails(c) PROVE KnownIds'
  BY <1>11 DEF SendFails
<1>12. ASSUME NEW c \in Channel, SendExclude(c) PROVE KnownIds'
  BY <1>12 DEF SendExclude
<1>13. ASSUME NEW c \in Channel, SendWrite(c) PROVE KnownIds'
  BY <1>13 DEF SendWrite
<1>14. ASSUME NEW c \in Channel, SendReadd(c) PROVE KnownIds'
  BY <1>14 DEF SendReadd
<1>15. ASSUME NEW c \in Channel, CreateAdd(c) PROVE KnownIds'
  <2>1. CreateAddDone(c)
    BY <1>15, <1>0
  <2>2. /\ grp[c] \in used /\ grp[c] \in Group
        /\ UNCHANGED <<bound, member, task, grp, used>>
    BY <2>1 DEF CreateAddDone
  <2>3. \A h \in Group, k \in Channel : h # grp[c] \/ k # c
          => members'[h][k] \cup home'[h][k] = members[h][k] \cup home[h][k]
    <3> HIDE DEF IInv, TypeOK, LocalsSet, KnownIds
    <3> QED
      BY <2>1 DEF CreateAddDone
  <2>4. \A d \in Channel, h \in Group : Ahead(d, h)' => Ahead(d, h)
    <3> HIDE DEF IInv, TypeOK, LocalsSet, KnownIds
    <3> QED
      BY <2>1 DEF CreateAddDone
  <2> HIDE DEF Ahead
  <2> QED
    BY <2>2, <2>3, <2>4
<1>16. ASSUME NEW c \in Channel, CreateFails(c) PROVE KnownIds'
  BY <1>16 DEF CreateFails
<1>17. ASSUME NEW c \in Channel, CreateBind(c) PROVE KnownIds'
  BY <1>17 DEF CreateBind
<1>18. ASSUME NEW c \in Channel, BindChannel(c) PROVE KnownIds'
  BY <1>18 DEF BindChannel
<1>19. ASSUME NEW c \in Channel, Close(c) PROVE KnownIds'
  BY <1>19 DEF Close
<1>20. ASSUME NEW c \in Channel, NEW u \in User, DirectLookup(c, u) PROVE KnownIds'
  BY <1>20 DEF DirectLookup
<1>21. ASSUME NEW c \in Channel, NEW g \in Group, NEW k \in Kinds, SendLookup(c, g, k) PROVE KnownIds'
  BY <1>21 DEF SendLookup
<1>22. ASSUME NEW c \in Channel, NEW us \in SUBSET Numeric, CreateStart(c, us) PROVE KnownIds'
  BY <1>22 DEF CreateStart
<1>23. ASSUME NEW u \in User, LeaveRemove(u) PROVE KnownIds'
  BY <1>23 DEF LeaveRemove
<1>24. ASSUME NEW u \in User, LeaveClear(u) PROVE KnownIds'
  BY <1>24 DEF LeaveClear
<1>25. ASSUME NEW u \in User, LeaveFails(u) PROVE KnownIds'
  BY <1>25 DEF LeaveFails
<1>26. ASSUME NEW u \in User, NEW g \in Group, LeaveLookup(u, g) PROVE KnownIds'
  BY <1>26 DEF LeaveLookup
<1>27. ASSUME NEW u \in User, NEW g \in Group, InviteFriend(u, g) PROVE KnownIds'
  BY <1>27 DEF InviteFriend
<1>28. ASSUME NEW g \in Group, DbWelcome(g) PROVE KnownIds'
  BY <1>28 DEF DbWelcome
<1>29. ASSUME NEW g \in Group, DbGroup(g) PROVE KnownIds'
  BY <1>29 DEF DbGroup
<1>30. ASSUME NEW g \in Group, DbInsert(g) PROVE KnownIds'
  BY <1>30, <1>0 DEF DbInsertDone
<1>31. ASSUME NEW g \in Group, DbFails(g) PROVE KnownIds'
  BY <1>31 DEF DbFails
<1>32. CASE UNCHANGED vars
  BY <1>32 DEF vars
<1> HIDE DEF IInv, Goto, Return, Spend, Added, Removed, Dropped, locals, rooms, store,
        Stores, Inserts, Leaving, NoLeave, TypeOK, KnownIds, LocalsSet, Ahead
<1> QED
  BY <1>1, <1>2, <1>3, <1>4, <1>5, <1>6, <1>7, <1>8, <1>9, <1>10, <1>11,
     <1>12, <1>13, <1>14, <1>15, <1>16, <1>17, <1>18, <1>19, <1>20, <1>21,
     <1>22, <1>23, <1>24, <1>25, <1>26, <1>27, <1>28, <1>29, <1>30, <1>31,
     <1>32
  DEF Next, Handler, Arrival, Rest, Quiet, Db

\* A fresh id is in no row, no local and no map, so nobody else comes by it
\* until CreateBind.
LEMMA BuildingStep == IInv /\ [Next]_vars => Building'
<1> SUFFICES ASSUME IInv, [Next]_vars PROVE Building'
  OBVIOUS
<1>0. /\ \A c \in Channel : CreateAdd(c) => CreateAddDone(c)
      /\ \A g \in Group : DbInsert(g) => DbInsertDone(g)
  BY CreateAddEffect, DbInsertEffect
<1> USE NoneAssumption, UserOfAssumption, NumericAssumption
    DEF IInv, Goto, Return, Spend, Added, Removed, Dropped, locals, rooms, store,
        Stores, Inserts, Leaving, NoLeave, TypeOK, Building, KnownIds,
        LocalsSet, Ahead
<1>1. ASSUME NEW c \in Channel, SetSession(c) PROVE Building'
  BY <1>1 DEF SetSession
<1>2. ASSUME NEW c \in Channel, QueryGroups(c) PROVE Building'
  BY <1>2 DEF QueryGroups
<1>3. ASSUME NEW c \in Channel, HandshakeFails(c) PROVE Building'
  BY <1>3 DEF HandshakeFails
<1>4. ASSUME NEW c \in Channel, JoinLookup(c) PROVE Building'
  BY <1>4 DEF JoinLookup
<1>5. ASSUME NEW c \in Channel, JoinNew(c) PROVE Building'
  BY <1>5 DEF JoinNew
<1>6. ASSUME NEW c \in Channel, JoinAdd(c) PROVE Building'
  BY <1>6 DEF JoinAdd
<1>7. ASSUME NEW c \in Channel, FinishHandshake(c) PROVE Building'
  BY <1>7 DEF FinishHandshake
<1>8. ASSUME NEW c \in Channel, DirectOffline(c) PROVE Building'
  BY <1>8 DEF DirectOffline
<1>9. ASSUME NEW c \in Channel, DirectOnline(c) PROVE Building'
  BY <1>9 DEF DirectOnline
<1>10. ASSUME NEW c \in Channel, DirectWrite(c) PROVE Building'
  BY <1>10 DEF DirectWrite
<1>11. ASSUME NEW c \in Channel, SendFails(c) PROVE Building'
  BY <1>11 DEF SendFails
<1>12. ASSUME NEW c \in Channel, SendExclude(c) PROVE Building'
  BY <1>12 DEF SendExclude
<1>13. ASSUME NEW c \in Channel, SendWrite(c) PROVE Building'
  BY <1>13 DEF SendWrite
<1>14. ASSUME NEW c \in Channel, SendReadd(c) PROVE Building'
  BY <1>14 DEF SendReadd
<1>15. ASSUME NEW c \in Channel, CreateAdd(c) PROVE Building'
  BY <1>15, <1>0 DEF CreateAddDone
<1>16. ASSUME NEW c \in Channel, CreateFails(c) PROVE Building'
  BY <1>16 DEF CreateFails
<1>17. ASSUME NEW c \in Channel, CreateBind(c) PROVE Building'
  BY <1>17 DEF CreateBind
<1>18. ASSUME NEW c \in Channel, BindChannel(c) PROVE Building'
  BY <1>18 DEF BindChannel
<1>19. ASSUME NEW c \in Channel, Close(c) PROVE Building'
  BY <1>19 DEF Close
<1>20. ASSUME NEW c \in Channel, NEW u \in User, DirectLookup(c, u) PROVE Building'
  BY <1>20 DEF DirectLookup
<1>21. ASSUME NEW c \in Channel, NEW g \in Group, NEW k \in Kinds, SendLookup(c, g, k) PROVE Building'
  BY <1>21 DEF SendLookup
<1>22. ASSUME NEW c \in Channel, NEW us \in SUBSET Numeric, CreateStart(c, us) PROVE Building'
  BY <1>22 DEF CreateStart
<1>23. ASSUME NEW u \in User, LeaveRemove(u) PROVE Building'
  BY <1>23 DEF LeaveRemove
<1>24. ASSUME NEW u \in User, LeaveClear(u) PROVE Building'
  BY <1>24 DEF LeaveClear
<1>25. ASSUME NEW u \in User, LeaveFails(u) PROVE Building'
  BY <1>25 DEF LeaveFails
<1>26. ASSUME NEW u \in User, NEW g \in Group, LeaveLookup(u, g) PROVE Building'
  BY <1>26 DEF LeaveLookup
<1>27. ASSUME NEW u \in User, NEW g \in Group, InviteFriend(u, g) PROVE Building'
  BY <1>27 DEF InviteFriend
<1>28. ASSUME NEW g \in Group, DbWelcome(g) PROVE Building'
  BY <1>28 DEF DbWelcome
<1>29. ASSUME NEW g \in Group, DbGroup(g) PROVE Building'
  BY <1>29 DEF DbGroup
<1>30. ASSUME NEW g \in Group, DbInsert(g) PROVE Building'
  BY <1>30, <1>0 DEF DbInsertDone
<1>31. ASSUME NEW g \in Group, DbFails(g) PROVE Building'
  BY <1>31 DEF DbFails
<1>32. CASE UNCHANGED vars
  BY <1>32 DEF vars
<1> HIDE DEF IInv, Goto, Return, Spend, Added, Removed, Dropped, locals, rooms, store,
        Stores, Inserts, Leaving, NoLeave, TypeOK, Building, KnownIds,
        LocalsSet, Ahead
<1> QED
  BY <1>1, <1>2, <1>3, <1>4, <1>5, <1>6, <1>7, <1>8, <1>9, <1>10, <1>11,
     <1>12, <1>13, <1>14, <1>15, <1>16, <1>17, <1>18, <1>19, <1>20, <1>21,
     <1>22, <1>23, <1>24, <1>25, <1>26, <1>27, <1>28, <1>29, <1>30, <1>31,
     <1>32
  DEF Next, Handler, Arrival, Rest, Quiet, Db

\* A handler adds its own channel, which has a session by then, or one that
\* createGroup found online.
LEMMA MembersStep == IInv /\ [Next]_vars => MembersHaveSession'
<1> SUFFICES ASSUME IInv, [Next]_vars PROVE MembersHaveSession'
  OBVIOUS
<1>0. /\ \A c \in Channel : CreateAdd(c) => CreateAddDone(c)
      /\ \A g \in Group : DbInsert(g) => DbInsertDone(g)
  BY CreateAddEffect, DbInsertEffect
<1> USE NoneAssumption, UserOfAssumption, NumericAssumption
    DEF IInv, Goto, Return, Spend, Added, Removed, Dropped, locals, rooms, store,
        Stores, Inserts, Leaving, NoLeave, TypeOK, MembersHaveSession, SessionSet, LocalsSet,
        Online
<1>1. ASSUME NEW c \in Channel, SetSession(c) PROVE MembersHaveSession'
  BY <1>1 DEF SetSession
<1>2. ASSUME NEW c \in Channel, JoinNew(c) PROVE MembersHaveSession'
  <2>0. UserOf[c] \in User /\ session[c] = UserOf[c] /\ session' = session
    BY <1>2 DEF JoinNew
  <2>1. session[c] # None /\ session' = session
    BY <2>0
  <2>2. grp[c] \in Group
    BY <1>2 DEF JoinNew
  <2>3. \A g \in Group, k \in Channel : members'[g][k] \subseteq members[g][k] \cup {c}
    BY <1>2, <2>2 DEF JoinNew
  <2> QED
    BY <2>1, <2>3
<1>3. ASSUME NEW c \in Channel, JoinAdd(c) PROVE MembersHaveSession'
  <2>0. UserOf[c] \in User /\ session[c] = UserOf[c] /\ session' = session
    BY <1>3 DEF JoinAdd
  <2>1. session[c] # None /\ session' = session
    BY <2>0
  <2>2. grp[c] \in Group
    BY <1>3 DEF JoinAdd
  <2>3. \A g \in Group, k \in Channel : members'[g][k] \subseteq members[g][k] \cup {c}
    BY <1>3, <2>2 DEF JoinAdd
  <2> QED
    BY <2>1, <2>3
<1>4. ASSUME NEW c \in Channel, SendExclude(c) PROVE MembersHaveSession'
  BY <1>4 DEF SendExclude
<1>5. ASSUME NEW c \in Channel, SendReadd(c) PROVE MembersHaveSession'
  <2>0. UserOf[c] \in User /\ session[c] = UserOf[c] /\ session' = session
    BY <1>5 DEF SendReadd
  <2>1. session[c] # None /\ session' = session
    BY <2>0
  <2>2. grp[c] \in Group
    BY <1>5 DEF SendReadd
  <2>3. \A g \in Group, k \in Channel : members'[g][k] \subseteq members[g][k] \cup {c}
    BY <1>5, <2>2 DEF SendReadd
  <2> QED
    BY <2>1, <2>3
<1>6. ASSUME NEW c \in Channel, CreateAdd(c) PROVE MembersHaveSession'
  <2>1. CreateAddDone(c)
    BY <1>6, <1>0
  <2>2. \A g \in Group, k \in Channel :
          \A d \in members'[g][k] : d \in members[g][k] \/ session[d] # None
    <3> HIDE DEF IInv, TypeOK, LocalsSet, SessionSet, MembersHaveSession
    <3> QED
      BY <2>1 DEF CreateAddDone
  <2>3. session' = session
    BY <2>1 DEF CreateAddDone
  <2> QED
    BY <2>2, <2>3
<1>7. ASSUME NEW c \in Channel, Close(c) PROVE MembersHaveSession'
  BY <1>7 DEF Close
<1>8. ASSUME NEW c \in Channel, NEW us \in SUBSET Numeric, CreateStart(c, us) PROVE MembersHaveSession'
  BY <1>8 DEF CreateStart
<1>9. ASSUME NEW u \in User, LeaveRemove(u) PROVE MembersHaveSession'
  BY <1>9 DEF LeaveRemove
<1>10. ASSUME NEW c \in Channel, 
            \/ QueryGroups(c) \/ HandshakeFails(c) \/ JoinLookup(c) \/ FinishHandshake(c)
            \/ BindChannel(c)
     PROVE MembersHaveSession'
  BY <1>10 DEF QueryGroups, HandshakeFails, JoinLookup, FinishHandshake, BindChannel
<1>11. ASSUME NEW c \in Channel, 
            \/ DirectOffline(c) \/ DirectOnline(c) \/ DirectWrite(c)
            \/ SendFails(c) \/ SendWrite(c)
     PROVE MembersHaveSession'
  BY <1>11 DEF DirectOffline, DirectOnline, DirectWrite, SendFails, SendWrite
<1>12. ASSUME NEW c \in Channel, 
            \/ CreateFails(c) \/ CreateBind(c)
     PROVE MembersHaveSession'
  BY <1>12 DEF CreateFails, CreateBind
<1>13. ASSUME NEW c \in Channel, NEW u \in User, DirectLookup(c, u) PROVE MembersHaveSession'
  BY <1>13 DEF DirectLookup
<1>14. ASSUME NEW c \in Channel, NEW g \in Group, NEW k \in Kinds, SendLookup(c, g, k) PROVE MembersHaveSession'
  BY <1>14 DEF SendLookup
<1>15. ASSUME NEW u \in User, LeaveClear(u) PROVE MembersHaveSession'
  BY <1>15 DEF LeaveClear
<1>16. ASSUME NEW u \in User, LeaveFails(u) PROVE MembersHaveSession'
  BY <1>16 DEF LeaveFails
<1>17. ASSUME NEW u \in User, NEW g \in Group, 
            \/ LeaveLookup(u, g) \/ InviteFriend(u, g)
     PROVE MembersHaveSession'
  BY <1>17 DEF LeaveLookup, InviteFriend
<1>18. ASSUME NEW g \in Group, Db(g) PROVE MembersHaveSession'
  BY <1>18 DEF Db, DbWelcome, DbGroup, DbInsert, DbFails
<1>19. CASE UNCHANGED vars
  BY <1>19 DEF vars
<1> HIDE DEF IInv, Goto, Return, Spend, Added, Removed, Dropped, locals, rooms, store,
        Stores, Inserts, Leaving, NoLeave, TypeOK, MembersHaveSession, SessionSet, LocalsSet,
        Online
<1> QED
  BY <1>1, <1>2, <1>3, <1>4, <1>5, <1>6, <1>7, <1>8, <1>9, <1>10, <1>11,
     <1>12, <1>13, <1>14, <1>15, <1>16, <1>17, <1>18, <1>19
  DEF Next, Handler, Arrival, Rest, Quiet, Db

\* What takes a channel out of an object also takes it out of home, except
\* SendExclude; SendReadd puts it back into the same object.
LEMMA HomeStep == IInv /\ [Next]_vars => HomeOrSending'
<1> SUFFICES ASSUME IInv, [Next]_vars PROVE HomeOrSending'
  OBVIOUS
<1>0. /\ \A c \in Channel : CreateAdd(c) => CreateAddDone(c)
      /\ \A g \in Group : DbInsert(g) => DbInsertDone(g)
  BY CreateAddEffect, DbInsertEffect
<1> USE NoneAssumption, UserOfAssumption, NumericAssumption
    DEF IInv, Goto, Return, Spend, Added, Removed, Dropped, locals, rooms, store,
        Stores, Inserts, Leaving, NoLeave, TypeOK, HomeOrSending, LocalsSet
<1>1. ASSUME NEW c \in Channel, SetSession(c) PROVE HomeOrSending'
  BY <1>1 DEF SetSession
<1>2. ASSUME NEW c \in Channel, QueryGroups(c) PROVE HomeOrSending'
  BY <1>2 DEF QueryGroups
<1>3. ASSUME NEW c \in Channel, HandshakeFails(c) PROVE HomeOrSending'
  BY <1>3 DEF HandshakeFails
<1>4. ASSUME NEW c \in Channel, JoinLookup(c) PROVE HomeOrSending'
  BY <1>4 DEF JoinLookup
<1>5. ASSUME NEW c \in Channel, JoinNew(c) PROVE HomeOrSending'
  BY <1>5 DEF JoinNew
<1>6. ASSUME NEW c \in Channel, JoinAdd(c) PROVE HomeOrSending'
  BY <1>6 DEF JoinAdd
<1>7. ASSUME NEW c \in Channel, FinishHandshake(c) PROVE HomeOrSending'
  BY <1>7 DEF FinishHandshake
<1>8. ASSUME NEW c \in Channel, DirectOffline(c) PROVE HomeOrSending'
  BY <1>8 DEF DirectOffline
<1>9. ASSUME NEW c \in Channel, DirectOnline(c) PROVE HomeOrSending'
  BY <1>9 DEF DirectOnline
<1>10. ASSUME NEW c \in Channel, DirectWrite(c) PROVE HomeOrSending'
  BY <1>10 DEF DirectWrite
<1>11. ASSUME NEW c \in Channel, SendFails(c) PROVE HomeOrSending'
  BY <1>11 DEF SendFails
<1>12. ASSUME NEW c \in Channel, SendExclude(c) PROVE HomeOrSending'
  BY <1>12 DEF SendExclude
<1>13. ASSUME NEW c \in Channel, SendWrite(c) PROVE HomeOrSending'
  BY <1>13 DEF SendWrite
<1>14. ASSUME NEW c \in Channel, SendReadd(c) PROVE HomeOrSending'
  BY <1>14 DEF SendReadd
<1>15. ASSUME NEW c \in Channel, CreateAdd(c) PROVE HomeOrSending'
  <2>1. CreateAddDone(c)
    BY <1>15, <1>0
  <2>2. \A g \in Group, k \in Channel :
          /\ members[g][k] \subseteq members'[g][k] /\ home'[g][k] \subseteq Channel
          /\ home'[g][k] \subseteq home[g][k] \cup members'[g][k]
    <3> HIDE DEF HomeOrSending, LocalsSet, IInv, TypeOK
    <3> QED
      BY <2>1 DEF CreateAddDone, Joined
  <2>3. UNCHANGED <<pc, grp, ref, kind>>
    BY <2>1 DEF CreateAddDone
  <2> QED
    BY <2>2, <2>3
<1>16. ASSUME NEW c \in Channel, CreateFails(c) PROVE HomeOrSending'
  BY <1>16 DEF CreateFails
<1>17. ASSUME NEW c \in Channel, CreateBind(c) PROVE HomeOrSending'
  BY <1>17 DEF CreateBind
<1>18. ASSUME NEW c \in Channel, BindChannel(c) PROVE HomeOrSending'
  BY <1>18 DEF BindChannel
<1>19. ASSUME NEW c \in Channel, Close(c) PROVE HomeOrSending'
  BY <1>19 DEF Close
<1>20. ASSUME NEW c \in Channel, NEW u \in User, DirectLookup(c, u) PROVE HomeOrSending'
  BY <1>20 DEF DirectLookup
<1>21. ASSUME NEW c \in Channel, NEW g \in Group, NEW k \in Kinds, SendLookup(c, g, k) PROVE HomeOrSending'
  BY <1>21 DEF SendLookup
<1>22. ASSUME NEW c \in Channel, NEW us \in SUBSET Numeric, CreateStart(c, us) PROVE HomeOrSending'
  BY <1>22 DEF CreateStart
<1>23. ASSUME NEW u \in User, LeaveRemove(u) PROVE HomeOrSending'
  BY <1>23 DEF LeaveRemove
<1>24. ASSUME NEW u \in User, LeaveClear(u) PROVE HomeOrSending'
  BY <1>24 DEF LeaveClear
<1>25. ASSUME NEW u \in User, LeaveFails(u) PROVE HomeOrSending'
  BY <1>25 DEF LeaveFails
<1>26. ASSUME NEW u \in User, NEW g \in Group, LeaveLookup(u, g) PROVE HomeOrSending'
  BY <1>26 DEF LeaveLookup
<1>27. ASSUME NEW u \in User, NEW g \in Group, InviteFriend(u, g) PROVE HomeOrSending'
  BY <1>27 DEF InviteFriend
<1>28. ASSUME NEW g \in Group, Db(g) PROVE HomeOrSending'
  BY <1>28 DEF Db, DbWelcome, DbGroup, DbInsert, DbFails
<1>29. CASE UNCHANGED vars
  BY <1>29 DEF vars
<1> HIDE DEF IInv, Goto, Return, Spend, Added, Removed, Dropped, locals, rooms, store,
        Stores, Inserts, Leaving, NoLeave, TypeOK, HomeOrSending, LocalsSet
<1> QED
  BY <1>1, <1>2, <1>3, <1>4, <1>5, <1>6, <1>7, <1>8, <1>9, <1>10, <1>11,
     <1>12, <1>13, <1>14, <1>15, <1>16, <1>17, <1>18, <1>19, <1>20, <1>21,
     <1>22, <1>23, <1>24, <1>25, <1>26, <1>27, <1>28, <1>29
  DEF Next, Handler, Arrival, Rest, Quiet, Db

\* Only createGroup adds a channel that is not its own, and by Building no
\* message is being written to the object it adds to.
LEMMA ExcludedStep == IInv /\ [Next]_vars => SenderExcluded'
<1> SUFFICES ASSUME IInv, [Next]_vars PROVE SenderExcluded'
  OBVIOUS
<1>0. /\ \A c \in Channel : CreateAdd(c) => CreateAddDone(c)
      /\ \A g \in Group : DbInsert(g) => DbInsertDone(g)
  BY CreateAddEffect, DbInsertEffect
<1> USE NoneAssumption, UserOfAssumption, NumericAssumption
    DEF IInv, Goto, Return, Spend, Added, Removed, Dropped, locals, rooms, store,
        Stores, Inserts, Leaving, NoLeave, TypeOK, SenderExcluded, Building,
        LocalsSet
<1>1. ASSUME NEW c \in Channel, SetSession(c) PROVE SenderExcluded'
  BY <1>1 DEF SetSession
<1>2. ASSUME NEW c \in Channel, QueryGroups(c) PROVE SenderExcluded'
  BY <1>2 DEF QueryGroups
<1>3. ASSUME NEW c \in Channel, HandshakeFails(c) PROVE SenderExcluded'
  BY <1>3 DEF HandshakeFails
<1>4. ASSUME NEW c \in Channel, JoinLookup(c) PROVE SenderExcluded'
  BY <1>4 DEF JoinLookup
<1>5. ASSUME NEW c \in Channel, JoinNew(c) PROVE SenderExcluded'
  BY <1>5 DEF JoinNew
<1>6. ASSUME NEW c \in Channel, JoinAdd(c) PROVE SenderExcluded'
  BY <1>6 DEF JoinAdd
<1>7. ASSUME NEW c \in Channel, FinishHandshake(c) PROVE SenderExcluded'
  BY <1>7 DEF FinishHandshake
<1>8. ASSUME NEW c \in Channel, DirectOffline(c) PROVE SenderExcluded'
  BY <1>8 DEF DirectOffline
<1>9. ASSUME NEW c \in Channel, DirectOnline(c) PROVE SenderExcluded'
  BY <1>9 DEF DirectOnline
<1>10. ASSUME NEW c \in Channel, DirectWrite(c) PROVE SenderExcluded'
  BY <1>10 DEF DirectWrite
<1>11. ASSUME NEW c \in Channel, SendFails(c) PROVE SenderExcluded'
  BY <1>11 DEF SendFails
<1>12. ASSUME NEW c \in Channel, SendExclude(c) PROVE SenderExcluded'
  BY <1>12 DEF SendExclude
<1>13. ASSUME NEW c \in Channel, SendWrite(c) PROVE SenderExcluded'
  BY <1>13 DEF SendWrite
<1>14. ASSUME NEW c \in Channel, SendReadd(c) PROVE SenderExcluded'
  BY <1>14 DEF SendReadd
<1>15. ASSUME NEW c \in Channel, CreateAdd(c) PROVE SenderExcluded'
  <2>1. CreateAddDone(c)
    BY <1>15, <1>0
  <2>2. /\ grp[c] \in Group /\ pc[c] = "invite"
        /\ UNCHANGED <<pc, grp, ref, kind>>
    BY <2>1 DEF CreateAddDone
  <2>3. \A h \in Group, k \in Channel : h # grp[c] => members'[h][k] = members[h][k]
    <3> HIDE DEF IInv, TypeOK, LocalsSet, SenderExcluded, Building
    <3> QED
      BY <2>1 DEF CreateAddDone
  <2>4. \A d \in Channel : pc[d] = "write"
          => grp[d] \in Group /\ ref[d] \in Channel /\ grp[d] # grp[c]
    BY <2>2
  <2> QED
    BY <2>2, <2>3, <2>4
<1>16. ASSUME NEW c \in Channel, CreateFails(c) PROVE SenderExcluded'
  BY <1>16 DEF CreateFails
<1>17. ASSUME NEW c \in Channel, CreateBind(c) PROVE SenderExcluded'
  BY <1>17 DEF CreateBind
<1>18. ASSUME NEW c \in Channel, BindChannel(c) PROVE SenderExcluded'
  BY <1>18 DEF BindChannel
<1>19. ASSUME NEW c \in Channel, Close(c) PROVE SenderExcluded'
  BY <1>19 DEF Close
<1>20. ASSUME NEW c \in Channel, NEW u \in User, DirectLookup(c, u) PROVE SenderExcluded'
  BY <1>20 DEF DirectLookup
<1>21. ASSUME NEW c \in Channel, NEW g \in Group, NEW k \in Kinds, SendLookup(c, g, k) PROVE SenderExcluded'
  BY <1>21 DEF SendLookup
<1>22. ASSUME NEW c \in Channel, NEW us \in SUBSET Numeric, CreateStart(c, us) PROVE SenderExcluded'
  BY <1>22 DEF CreateStart
<1>23. ASSUME NEW u \in User, LeaveRemove(u) PROVE SenderExcluded'
  BY <1>23 DEF LeaveRemove
<1>24. ASSUME NEW u \in User, LeaveClear(u) PROVE SenderExcluded'
  BY <1>24 DEF LeaveClear
<1>25. ASSUME NEW u \in User, LeaveFails(u) PROVE SenderExcluded'
  BY <1>25 DEF LeaveFails
<1>26. ASSUME NEW u \in User, NEW g \in Group, LeaveLookup(u, g) PROVE SenderExcluded'
  BY <1>26 DEF LeaveLookup
<1>27. ASSUME NEW u \in User, NEW g \in Group, InviteFriend(u, g) PROVE SenderExcluded'
  BY <1>27 DEF InviteFriend
<1>28. ASSUME NEW g \in Group, Db(g) PROVE SenderExcluded'
  BY <1>28 DEF Db, DbWelcome, DbGroup, DbInsert, DbFails
<1>29. CASE UNCHANGED vars
  BY <1>29 DEF vars
<1> HIDE DEF IInv, Goto, Return, Spend, Added, Removed, Dropped, locals, rooms, store,
        Stores, Inserts, Leaving, NoLeave, TypeOK, SenderExcluded, Building,
        LocalsSet
<1> QED
  BY <1>1, <1>2, <1>3, <1>4, <1>5, <1>6, <1>7, <1>8, <1>9, <1>10, <1>11,
     <1>12, <1>13, <1>14, <1>15, <1>16, <1>17, <1>18, <1>19, <1>20, <1>21,
     <1>22, <1>23, <1>24, <1>25, <1>26, <1>27, <1>28, <1>29
  DEF Next, Handler, Arrival, Rest, Quiet, Db

LEMMA RoutesStep == IInv /\ [Next]_vars => RoutesToOwner'
<1> SUFFICES ASSUME IInv, [Next]_vars PROVE RoutesToOwner'
  OBVIOUS
<1> USE NoneAssumption, UserOfAssumption, NumericAssumption
    DEF IInv, Goto, Return, Spend, Added, Removed, Dropped, locals, rooms, store,
        Stores, Inserts, Leaving, NoLeave, TypeOK, RoutesToOwner, SessionSet
<1>1. ASSUME NEW c \in Channel, SetSession(c) PROVE RoutesToOwner'
  BY <1>1 DEF SetSession
<1>2. ASSUME NEW c \in Channel, BindChannel(c) PROVE RoutesToOwner'
  BY <1>2 DEF BindChannel
<1>3. ASSUME NEW c \in Channel, 
            \/ QueryGroups(c) \/ HandshakeFails(c) \/ JoinLookup(c) \/ JoinNew(c) \/ JoinAdd(c)
            \/ FinishHandshake(c) \/ Close(c)
     PROVE RoutesToOwner'
  BY <1>3 DEF QueryGroups, HandshakeFails, JoinLookup, JoinNew, JoinAdd, FinishHandshake, Close
<1>4. ASSUME NEW c \in Channel, 
            \/ DirectOffline(c) \/ DirectOnline(c) \/ DirectWrite(c)
            \/ SendFails(c) \/ SendExclude(c) \/ SendWrite(c) \/ SendReadd(c)
     PROVE RoutesToOwner'
  BY <1>4 DEF DirectOffline, DirectOnline, DirectWrite, SendFails,
             SendExclude, SendWrite, SendReadd
<1>5. ASSUME NEW c \in Channel, 
            \/ CreateAdd(c) \/ CreateFails(c) \/ CreateBind(c)
     PROVE RoutesToOwner'
  BY <1>5 DEF CreateAdd, CreateFails, CreateBind
<1>6. ASSUME NEW c \in Channel, NEW u \in User, DirectLookup(c, u) PROVE RoutesToOwner'
  BY <1>6 DEF DirectLookup
<1>7. ASSUME NEW c \in Channel, NEW g \in Group, NEW k \in Kinds, SendLookup(c, g, k) PROVE RoutesToOwner'
  BY <1>7 DEF SendLookup
<1>8. ASSUME NEW c \in Channel, NEW us \in SUBSET Numeric, CreateStart(c, us) PROVE RoutesToOwner'
  BY <1>8 DEF CreateStart
<1>9. ASSUME NEW u \in User, 
            \/ LeaveRemove(u) \/ LeaveClear(u) \/ LeaveFails(u)
     PROVE RoutesToOwner'
  BY <1>9 DEF LeaveRemove, LeaveClear, LeaveFails
<1>10. ASSUME NEW u \in User, NEW g \in Group, 
            \/ LeaveLookup(u, g) \/ InviteFriend(u, g)
     PROVE RoutesToOwner'
  BY <1>10 DEF LeaveLookup, InviteFriend
<1>11. ASSUME NEW g \in Group, Db(g) PROVE RoutesToOwner'
  BY <1>11 DEF Db, DbWelcome, DbGroup, DbInsert, DbFails
<1>12. CASE UNCHANGED vars
  BY <1>12 DEF vars
<1> HIDE DEF IInv, Goto, Return, Spend, Added, Removed, Dropped, locals, rooms, store,
        Stores, Inserts, Leaving, NoLeave, TypeOK, RoutesToOwner, SessionSet
<1> QED
  BY <1>1, <1>2, <1>3, <1>4, <1>5, <1>6, <1>7, <1>8, <1>9, <1>10, <1>11,
     <1>12
  DEF Next, Handler, Arrival, Rest, Quiet, Db

\* An object that is not in the map belongs to a handler that constructs it, or
\* constructed it and failed: its id is in no row and no list.
LEMMA UnboundStep == IInv /\ [Next]_vars => UnboundIsUnknown'
<1> SUFFICES ASSUME IInv, [Next]_vars PROVE UnboundIsUnknown'
  OBVIOUS
<1>0. /\ \A c \in Channel : CreateAdd(c) => CreateAddDone(c)
      /\ \A g \in Group : DbInsert(g) => DbInsertDone(g)
  BY CreateAddEffect, DbInsertEffect
<1> USE NoneAssumption, UserOfAssumption, NumericAssumption
    DEF IInv, Goto, Return, Spend, Added, Removed, Dropped, locals, rooms,
        store, Stores, Inserts, Leaving, NoLeave, TypeOK, UnboundIsUnknown,
        Unbound, KnownIds, Building, LocalsSet, Ahead
<1>1. ASSUME NEW c \in Channel, SetSession(c) PROVE UnboundIsUnknown'
  BY <1>1 DEF SetSession
<1>2. ASSUME NEW c \in Channel, QueryGroups(c) PROVE UnboundIsUnknown'
  BY <1>2 DEF QueryGroups
<1>3. ASSUME NEW c \in Channel, HandshakeFails(c) PROVE UnboundIsUnknown'
  BY <1>3 DEF HandshakeFails
<1>4. ASSUME NEW c \in Channel, JoinLookup(c) PROVE UnboundIsUnknown'
  BY <1>4 DEF JoinLookup
<1>5. ASSUME NEW c \in Channel, JoinNew(c) PROVE UnboundIsUnknown'
  BY <1>5 DEF JoinNew
<1>6. ASSUME NEW c \in Channel, JoinAdd(c) PROVE UnboundIsUnknown'
  BY <1>6 DEF JoinAdd
<1>7. ASSUME NEW c \in Channel, FinishHandshake(c) PROVE UnboundIsUnknown'
  BY <1>7 DEF FinishHandshake
<1>8. ASSUME NEW c \in Channel, DirectOffline(c) PROVE UnboundIsUnknown'
  BY <1>8 DEF DirectOffline
<1>9. ASSUME NEW c \in Channel, DirectOnline(c) PROVE UnboundIsUnknown'
  BY <1>9 DEF DirectOnline
<1>10. ASSUME NEW c \in Channel, DirectWrite(c) PROVE UnboundIsUnknown'
  BY <1>10 DEF DirectWrite
<1>11. ASSUME NEW c \in Channel, SendFails(c) PROVE UnboundIsUnknown'
  BY <1>11 DEF SendFails
<1>12. ASSUME NEW c \in Channel, SendExclude(c) PROVE UnboundIsUnknown'
  BY <1>12 DEF SendExclude
<1>13. ASSUME NEW c \in Channel, SendWrite(c) PROVE UnboundIsUnknown'
  BY <1>13 DEF SendWrite
<1>14. ASSUME NEW c \in Channel, SendReadd(c) PROVE UnboundIsUnknown'
  BY <1>14 DEF SendReadd
<1>15. ASSUME NEW c \in Channel, CreateAdd(c) PROVE UnboundIsUnknown'
  <2>1. CreateAddDone(c)
    BY <1>15, <1>0
  <2>2. Unbound(grp[c]) /\ bound' = bound
    BY <2>1 DEF CreateAddDone
  <2>3. \A h \in Group : Unbound(h) => Unbound(h)'
    <3> HIDE DEF IInv, TypeOK, LocalsSet, KnownIds, Building, UnboundIsUnknown
    <3> QED
      BY <2>1 DEF CreateAddDone
  <2>4. \A h \in Group, k \in Channel : h # grp[c]
          => members'[h][k] \cup home'[h][k] = members[h][k] \cup home[h][k]
    <3> HIDE DEF IInv, TypeOK, LocalsSet, KnownIds, Building, UnboundIsUnknown
    <3> QED
      BY <2>1 DEF CreateAddDone
  <2>5. \A h \in Group, k \in Channel :
          bound[h] = None /\ members[h][k] \cup home[h][k] # {} => Unbound(h)
    OBVIOUS
  <2> HIDE DEF Unbound, IInv, TypeOK, LocalsSet, KnownIds, Building
  <2> QED
    BY <2>2, <2>3, <2>4, <2>5
<1>16. ASSUME NEW c \in Channel, CreateFails(c) PROVE UnboundIsUnknown'
  BY <1>16 DEF CreateFails
<1>17. ASSUME NEW c \in Channel, CreateBind(c) PROVE UnboundIsUnknown'
  BY <1>17 DEF CreateBind
<1>18. ASSUME NEW c \in Channel, BindChannel(c) PROVE UnboundIsUnknown'
  BY <1>18 DEF BindChannel
<1>19. ASSUME NEW c \in Channel, Close(c) PROVE UnboundIsUnknown'
  BY <1>19 DEF Close
<1>20. ASSUME NEW c \in Channel, NEW u \in User, DirectLookup(c, u)
     PROVE  UnboundIsUnknown'
  BY <1>20 DEF DirectLookup
<1>21. ASSUME NEW c \in Channel, NEW g \in Group, NEW k \in Kinds, SendLookup(c, g, k)
     PROVE  UnboundIsUnknown'
  BY <1>21 DEF SendLookup
<1>22. ASSUME NEW c \in Channel, NEW us \in SUBSET Numeric, CreateStart(c, us)
     PROVE  UnboundIsUnknown'
  BY <1>22 DEF CreateStart
<1>23. ASSUME NEW u \in User, LeaveRemove(u) PROVE UnboundIsUnknown'
  BY <1>23 DEF LeaveRemove
<1>24. ASSUME NEW u \in User, LeaveClear(u) PROVE UnboundIsUnknown'
  BY <1>24 DEF LeaveClear
<1>25. ASSUME NEW u \in User, LeaveFails(u) PROVE UnboundIsUnknown'
  BY <1>25 DEF LeaveFails
<1>26. ASSUME NEW u \in User, NEW g \in Group, LeaveLookup(u, g)
     PROVE  UnboundIsUnknown'
  BY <1>26 DEF LeaveLookup
<1>27. ASSUME NEW u \in User, NEW g \in Group, InviteFriend(u, g)
     PROVE  UnboundIsUnknown'
  BY <1>27 DEF InviteFriend
<1>28. ASSUME NEW g \in Group, DbWelcome(g) PROVE UnboundIsUnknown'
  BY <1>28 DEF DbWelcome
<1>29. ASSUME NEW g \in Group, DbGroup(g) PROVE UnboundIsUnknown'
  BY <1>29 DEF DbGroup
<1>30. ASSUME NEW g \in Group, DbInsert(g) PROVE UnboundIsUnknown'
  <2>1. DbInsertDone(g)
    BY <1>30, <1>0
  <2>2. ~ Unbound(g) /\ UNCHANGED <<bound, members, home>>
    BY <2>1 DEF DbInsertDone
  <2>3. \A h \in Group \ {g} : Unbound(h) => Unbound(h)'
    <3> HIDE DEF IInv, TypeOK, LocalsSet, KnownIds, Building, UnboundIsUnknown
    <3> QED
      BY <2>1 DEF DbInsertDone
  <2> HIDE DEF Unbound
  <2> QED
    BY <2>2, <2>3
<1>31. ASSUME NEW g \in Group, DbFails(g) PROVE UnboundIsUnknown'
  BY <1>31 DEF DbFails
<1>32. CASE UNCHANGED vars
  BY <1>32 DEF vars
<1> HIDE DEF IInv, Goto, Return, Spend, Added, Removed, Dropped, locals, rooms,
        store, Stores, Inserts, Leaving, NoLeave, TypeOK, UnboundIsUnknown,
        Unbound, KnownIds, Building, LocalsSet, Ahead
<1> QED
  BY <1>1, <1>2, <1>3, <1>4, <1>5, <1>6, <1>7, <1>8, <1>9, <1>10, <1>11,
     <1>12, <1>13, <1>14, <1>15, <1>16, <1>17, <1>18, <1>19, <1>20, <1>21,
     <1>22, <1>23, <1>24, <1>25, <1>26, <1>27, <1>28, <1>29, <1>30, <1>31,
     <1>32
  DEF Next, Handler, Arrival, Rest, Quiet, Db

\* Until a stored group has its own rows it has no members, so nobody who could
\* tell of its id.
LEMMA StoreStep == IInv /\ [Next]_vars => StoreOrder'
<1> SUFFICES ASSUME IInv, [Next]_vars PROVE StoreOrder'
  OBVIOUS
<1>0. /\ \A c \in Channel : CreateAdd(c) => CreateAddDone(c)
      /\ \A g \in Group : DbInsert(g) => DbInsertDone(g)
  BY CreateAddEffect, DbInsertEffect
<1> USE NoneAssumption, UserOfAssumption, NumericAssumption
    DEF IInv, Goto, Return, Spend, Added, Removed, Dropped, locals, rooms,
        store, Stores, Inserts, Leaving, NoLeave, TypeOK, StoreOrder,
        Unseen, KnownIds, LocalsSet, Ahead
<1>1. ASSUME NEW c \in Channel, SetSession(c) PROVE StoreOrder'
  BY <1>1 DEF SetSession
<1>2. ASSUME NEW c \in Channel, QueryGroups(c) PROVE StoreOrder'
  BY <1>2 DEF QueryGroups
<1>3. ASSUME NEW c \in Channel, HandshakeFails(c) PROVE StoreOrder'
  BY <1>3 DEF HandshakeFails
<1>4. ASSUME NEW c \in Channel, JoinLookup(c) PROVE StoreOrder'
  BY <1>4 DEF JoinLookup
<1>5. ASSUME NEW c \in Channel, JoinNew(c) PROVE StoreOrder'
  BY <1>5 DEF JoinNew
<1>6. ASSUME NEW c \in Channel, JoinAdd(c) PROVE StoreOrder'
  BY <1>6 DEF JoinAdd
<1>7. ASSUME NEW c \in Channel, FinishHandshake(c) PROVE StoreOrder'
  BY <1>7 DEF FinishHandshake
<1>8. ASSUME NEW c \in Channel, DirectOffline(c) PROVE StoreOrder'
  BY <1>8 DEF DirectOffline
<1>9. ASSUME NEW c \in Channel, DirectOnline(c) PROVE StoreOrder'
  BY <1>9 DEF DirectOnline
<1>10. ASSUME NEW c \in Channel, DirectWrite(c) PROVE StoreOrder'
  BY <1>10 DEF DirectWrite
<1>11. ASSUME NEW c \in Channel, SendFails(c) PROVE StoreOrder'
  BY <1>11 DEF SendFails
<1>12. ASSUME NEW c \in Channel, SendExclude(c) PROVE StoreOrder'
  BY <1>12 DEF SendExclude
<1>13. ASSUME NEW c \in Channel, SendWrite(c) PROVE StoreOrder'
  BY <1>13 DEF SendWrite
<1>14. ASSUME NEW c \in Channel, SendReadd(c) PROVE StoreOrder'
  BY <1>14 DEF SendReadd
<1>15. ASSUME NEW c \in Channel, CreateAdd(c) PROVE StoreOrder'
  <2>1. CreateAddDone(c)
    BY <1>15, <1>0
  <2>2. UNCHANGED <<task, rows, creator>>
    BY <2>1 DEF CreateAddDone
  <2>3. \A h \in Group : Unseen(h) => Unseen(h)'
    <3> HIDE DEF IInv, TypeOK, LocalsSet, KnownIds, StoreOrder
    <3> QED
      BY <2>1 DEF CreateAddDone
  <2> HIDE DEF Unseen
  <2> QED
    BY <2>2, <2>3
<1>16. ASSUME NEW c \in Channel, CreateFails(c) PROVE StoreOrder'
  BY <1>16 DEF CreateFails
<1>17. ASSUME NEW c \in Channel, CreateBind(c) PROVE StoreOrder'
  BY <1>17 DEF CreateBind
<1>18. ASSUME NEW c \in Channel, BindChannel(c) PROVE StoreOrder'
  BY <1>18 DEF BindChannel
<1>19. ASSUME NEW c \in Channel, Close(c) PROVE StoreOrder'
  BY <1>19 DEF Close
<1>20. ASSUME NEW c \in Channel, NEW u \in User, DirectLookup(c, u) PROVE StoreOrder'
  BY <1>20 DEF DirectLookup
<1>21. ASSUME NEW c \in Channel, NEW g \in Group, NEW k \in Kinds, SendLookup(c, g, k)
     PROVE  StoreOrder'
  BY <1>21 DEF SendLookup
<1>22. ASSUME NEW c \in Channel, NEW us \in SUBSET Numeric, CreateStart(c, us)
     PROVE  StoreOrder'
  BY <1>22 DEF CreateStart
<1>23. ASSUME NEW u \in User, LeaveRemove(u) PROVE StoreOrder'
  BY <1>23 DEF LeaveRemove
<1>24. ASSUME NEW u \in User, LeaveClear(u) PROVE StoreOrder'
  BY <1>24 DEF LeaveClear
<1>25. ASSUME NEW u \in User, LeaveFails(u) PROVE StoreOrder'
  BY <1>25 DEF LeaveFails
<1>26. ASSUME NEW u \in User, NEW g \in Group, LeaveLookup(u, g) PROVE StoreOrder'
  BY <1>26 DEF LeaveLookup
<1>27. ASSUME NEW u \in User, NEW g \in Group, InviteFriend(u, g) PROVE StoreOrder'
  BY <1>27 DEF InviteFriend
<1>28. ASSUME NEW g \in Group, DbWelcome(g) PROVE StoreOrder'
  BY <1>28 DEF DbWelcome
<1>29. ASSUME NEW g \in Group, DbGroup(g) PROVE StoreOrder'
  BY <1>29 DEF DbGroup
<1>30. ASSUME NEW g \in Group, DbInsert(g) PROVE StoreOrder'
  <2>1. DbInsertDone(g)
    BY <1>30, <1>0
  <2>2. /\ rows[g] = {"welcome", "group"} /\ creator[g] # None
        /\ task'[g] \in {"members", "over"}
        /\ \A h \in Group \ {g} : task'[h] = task[h]
        /\ UNCHANGED <<rows, creator>>
    BY <2>1 DEF DbInsertDone
  <2>3. \A h \in Group \ {g} : Unseen(h) => Unseen(h)'
    <3> HIDE DEF IInv, TypeOK, LocalsSet, KnownIds, StoreOrder
    <3> QED
      BY <2>1 DEF DbInsertDone
  <2> HIDE DEF Unseen
  <2> QED
    BY <2>2, <2>3
<1>31. ASSUME NEW g \in Group, DbFails(g) PROVE StoreOrder'
  BY <1>31 DEF DbFails
<1>32. CASE UNCHANGED vars
  BY <1>32 DEF vars
<1> HIDE DEF IInv, Goto, Return, Spend, Added, Removed, Dropped, locals, rooms,
        store, Stores, Inserts, Leaving, NoLeave, TypeOK, StoreOrder,
        Unseen, KnownIds, LocalsSet, Ahead
<1> QED
  BY <1>1, <1>2, <1>3, <1>4, <1>5, <1>6, <1>7, <1>8, <1>9, <1>10, <1>11,
     <1>12, <1>13, <1>14, <1>15, <1>16, <1>17, <1>18, <1>19, <1>20, <1>21,
     <1>22, <1>23, <1>24, <1>25, <1>26, <1>27, <1>28, <1>29, <1>30, <1>31,
     <1>32
  DEF Next, Handler, Arrival, Rest, Quiet, Db

\* JoinLookup notes a second finder in overlap; CreateBind binds an id that no
\* handler looks for.
LEMMA FinderStep == IInv /\ [Next]_vars => OneFinder'
<1> SUFFICES ASSUME IInv, [Next]_vars PROVE OneFinder'
  OBVIOUS
<1>0. /\ \A c \in Channel : CreateAdd(c) => CreateAddDone(c)
      /\ \A g \in Group : DbInsert(g) => DbInsertDone(g)
  BY CreateAddEffect, DbInsertEffect
<1> USE NoneAssumption, UserOfAssumption, NumericAssumption
    DEF IInv, Goto, Return, Spend, Added, Removed, Dropped, locals, rooms,
        store, Stores, Inserts, Leaving, NoLeave, TypeOK, OneFinder,
        Finders, SplitNeedsRace, KnownIds, Building, LocalsSet, Ahead
<1>1. ASSUME NEW c \in Channel, SetSession(c) PROVE OneFinder'
  BY <1>1 DEF SetSession
<1>2. ASSUME NEW c \in Channel, QueryGroups(c) PROVE OneFinder'
  BY <1>2 DEF QueryGroups
<1>3. ASSUME NEW c \in Channel, HandshakeFails(c) PROVE OneFinder'
  BY <1>3 DEF HandshakeFails
<1>4. ASSUME NEW c \in Channel, JoinLookup(c) PROVE OneFinder'
  BY <1>4 DEF JoinLookup
<1>5. ASSUME NEW c \in Channel, JoinNew(c) PROVE OneFinder'
  BY <1>5 DEF JoinNew
<1>6. ASSUME NEW c \in Channel, JoinAdd(c) PROVE OneFinder'
  BY <1>6 DEF JoinAdd
<1>7. ASSUME NEW c \in Channel, FinishHandshake(c) PROVE OneFinder'
  BY <1>7 DEF FinishHandshake
<1>8. ASSUME NEW c \in Channel, DirectOffline(c) PROVE OneFinder'
  BY <1>8 DEF DirectOffline
<1>9. ASSUME NEW c \in Channel, DirectOnline(c) PROVE OneFinder'
  BY <1>9 DEF DirectOnline
<1>10. ASSUME NEW c \in Channel, DirectWrite(c) PROVE OneFinder'
  BY <1>10 DEF DirectWrite
<1>11. ASSUME NEW c \in Channel, SendFails(c) PROVE OneFinder'
  BY <1>11 DEF SendFails
<1>12. ASSUME NEW c \in Channel, SendExclude(c) PROVE OneFinder'
  BY <1>12 DEF SendExclude
<1>13. ASSUME NEW c \in Channel, SendWrite(c) PROVE OneFinder'
  BY <1>13 DEF SendWrite
<1>14. ASSUME NEW c \in Channel, SendReadd(c) PROVE OneFinder'
  BY <1>14 DEF SendReadd
<1>15. ASSUME NEW c \in Channel, CreateAdd(c) PROVE OneFinder'
  BY <1>15, <1>0 DEF CreateAddDone
<1>16. ASSUME NEW c \in Channel, CreateFails(c) PROVE OneFinder'
  BY <1>16 DEF CreateFails
<1>17. ASSUME NEW c \in Channel, CreateBind(c) PROVE OneFinder'
  BY <1>17 DEF CreateBind
<1>18. ASSUME NEW c \in Channel, BindChannel(c) PROVE OneFinder'
  BY <1>18 DEF BindChannel
<1>19. ASSUME NEW c \in Channel, Close(c) PROVE OneFinder'
  BY <1>19 DEF Close
<1>20. ASSUME NEW c \in Channel, NEW u \in User, DirectLookup(c, u) PROVE OneFinder'
  BY <1>20 DEF DirectLookup
<1>21. ASSUME NEW c \in Channel, NEW g \in Group, NEW k \in Kinds, SendLookup(c, g, k)
     PROVE  OneFinder'
  BY <1>21 DEF SendLookup
<1>22. ASSUME NEW c \in Channel, NEW us \in SUBSET Numeric, CreateStart(c, us)
     PROVE  OneFinder'
  BY <1>22 DEF CreateStart
<1>23. ASSUME NEW u \in User, LeaveRemove(u) PROVE OneFinder'
  BY <1>23 DEF LeaveRemove
<1>24. ASSUME NEW u \in User, LeaveClear(u) PROVE OneFinder'
  BY <1>24 DEF LeaveClear
<1>25. ASSUME NEW u \in User, LeaveFails(u) PROVE OneFinder'
  BY <1>25 DEF LeaveFails
<1>26. ASSUME NEW u \in User, NEW g \in Group, LeaveLookup(u, g) PROVE OneFinder'
  BY <1>26 DEF LeaveLookup
<1>27. ASSUME NEW u \in User, NEW g \in Group, InviteFriend(u, g) PROVE OneFinder'
  BY <1>27 DEF InviteFriend
<1>28. ASSUME NEW g \in Group, DbWelcome(g) PROVE OneFinder'
  BY <1>28 DEF DbWelcome
<1>29. ASSUME NEW g \in Group, DbGroup(g) PROVE OneFinder'
  BY <1>29 DEF DbGroup
<1>30. ASSUME NEW g \in Group, DbInsert(g) PROVE OneFinder'
  BY <1>30, <1>0 DEF DbInsertDone
<1>31. ASSUME NEW g \in Group, DbFails(g) PROVE OneFinder'
  BY <1>31 DEF DbFails
<1>32. CASE UNCHANGED vars
  BY <1>32 DEF vars
<1> HIDE DEF IInv, Goto, Return, Spend, Added, Removed, Dropped, locals, rooms,
        store, Stores, Inserts, Leaving, NoLeave, TypeOK, OneFinder,
        Finders, SplitNeedsRace, KnownIds, Building, LocalsSet, Ahead
<1> QED
  BY <1>1, <1>2, <1>3, <1>4, <1>5, <1>6, <1>7, <1>8, <1>9, <1>10, <1>11,
     <1>12, <1>13, <1>14, <1>15, <1>16, <1>17, <1>18, <1>19, <1>20, <1>21,
     <1>22, <1>23, <1>24, <1>25, <1>26, <1>27, <1>28, <1>29, <1>30, <1>31,
     <1>32
  DEF Next, Handler, Arrival, Rest, Quiet, Db

\* What is added to is the object bound, or the first one of a group.
LEMMA SplitStep == IInv /\ [Next]_vars => SplitNeedsRace'
<1> SUFFICES ASSUME IInv, [Next]_vars PROVE SplitNeedsRace'
  OBVIOUS
<1>0. /\ \A c \in Channel : CreateAdd(c) => CreateAddDone(c)
      /\ \A g \in Group : DbInsert(g) => DbInsertDone(g)
  BY CreateAddEffect, DbInsertEffect
<1> USE NoneAssumption, UserOfAssumption, NumericAssumption
    DEF IInv, Goto, Return, Spend, Added, Removed, Dropped, locals, rooms,
        store, Stores, Inserts, Leaving, NoLeave, TypeOK, SplitNeedsRace,
        OneFinder, Finders, UnboundIsUnknown, Unbound, KnownIds, Building,
        LocalsSet, Ahead
<1>1. ASSUME NEW c \in Channel, SetSession(c) PROVE SplitNeedsRace'
  BY <1>1 DEF SetSession
<1>2. ASSUME NEW c \in Channel, QueryGroups(c) PROVE SplitNeedsRace'
  BY <1>2 DEF QueryGroups
<1>3. ASSUME NEW c \in Channel, HandshakeFails(c) PROVE SplitNeedsRace'
  BY <1>3 DEF HandshakeFails
<1>4. ASSUME NEW c \in Channel, JoinLookup(c) PROVE SplitNeedsRace'
  BY <1>4 DEF JoinLookup
<1>5. ASSUME NEW c \in Channel, JoinNew(c) PROVE SplitNeedsRace'
  <2>1. /\ grp[c] \in Group /\ pc[c] = "join" /\ ref[c] = None
        /\ overlap' = overlap /\ bound' = [bound EXCEPT ![grp[c]] = c]
    BY <1>5 DEF JoinNew
  <2>2. \A h \in Group, k \in Channel : h # grp[c] \/ k # c
          => members'[h][k] = members[h][k] /\ home'[h][k] = home[h][k]
    BY <1>5, <2>1 DEF JoinNew
  <2>3. grp[c] \notin overlap => bound[grp[c]] = None
    BY <2>1
  <2>4. grp[c] \notin overlap
          => \A k \in Channel : members[grp[c]][k] \cup home[grp[c]][k] = {}
    <3>1. ~ Unbound(grp[c])
      BY <2>1
    <3>2. \A k \in Channel : bound[grp[c]] = None /\ members[grp[c]][k] \cup home[grp[c]][k] # {}
                              => Unbound(grp[c])
      BY <2>1
    <3> HIDE DEF IInv, Unbound
    <3> QED
      BY <2>3, <3>1, <3>2
  <2>5. bound'[grp[c]] = c /\ \A h \in Group \ {grp[c]} : bound'[h] = bound[h]
    BY <2>1
  <2> QED
    BY <2>1, <2>2, <2>4, <2>5
<1>6. ASSUME NEW c \in Channel, JoinAdd(c) PROVE SplitNeedsRace'
  BY <1>6 DEF JoinAdd
<1>7. ASSUME NEW c \in Channel, FinishHandshake(c) PROVE SplitNeedsRace'
  BY <1>7 DEF FinishHandshake
<1>8. ASSUME NEW c \in Channel, DirectOffline(c) PROVE SplitNeedsRace'
  BY <1>8 DEF DirectOffline
<1>9. ASSUME NEW c \in Channel, DirectOnline(c) PROVE SplitNeedsRace'
  BY <1>9 DEF DirectOnline
<1>10. ASSUME NEW c \in Channel, DirectWrite(c) PROVE SplitNeedsRace'
  BY <1>10 DEF DirectWrite
<1>11. ASSUME NEW c \in Channel, SendFails(c) PROVE SplitNeedsRace'
  BY <1>11 DEF SendFails
<1>12. ASSUME NEW c \in Channel, SendExclude(c) PROVE SplitNeedsRace'
  BY <1>12 DEF SendExclude
<1>13. ASSUME NEW c \in Channel, SendWrite(c) PROVE SplitNeedsRace'
  BY <1>13 DEF SendWrite
<1>14. ASSUME NEW c \in Channel, SendReadd(c) PROVE SplitNeedsRace'
  BY <1>14 DEF SendReadd
<1>15. ASSUME NEW c \in Channel, CreateAdd(c) PROVE SplitNeedsRace'
  BY <1>15, <1>0 DEF CreateAddDone
<1>16. ASSUME NEW c \in Channel, CreateFails(c) PROVE SplitNeedsRace'
  BY <1>16 DEF CreateFails
<1>17. ASSUME NEW c \in Channel, CreateBind(c) PROVE SplitNeedsRace'
  BY <1>17 DEF CreateBind
<1>18. ASSUME NEW c \in Channel, BindChannel(c) PROVE SplitNeedsRace'
  BY <1>18 DEF BindChannel
<1>19. ASSUME NEW c \in Channel, Close(c) PROVE SplitNeedsRace'
  BY <1>19 DEF Close
<1>20. ASSUME NEW c \in Channel, NEW u \in User, DirectLookup(c, u)
     PROVE  SplitNeedsRace'
  BY <1>20 DEF DirectLookup
<1>21. ASSUME NEW c \in Channel, NEW g \in Group, NEW k \in Kinds, SendLookup(c, g, k)
     PROVE  SplitNeedsRace'
  BY <1>21 DEF SendLookup
<1>22. ASSUME NEW c \in Channel, NEW us \in SUBSET Numeric, CreateStart(c, us)
     PROVE  SplitNeedsRace'
  BY <1>22 DEF CreateStart
<1>23. ASSUME NEW u \in User, LeaveRemove(u) PROVE SplitNeedsRace'
  BY <1>23 DEF LeaveRemove
<1>24. ASSUME NEW u \in User, LeaveClear(u) PROVE SplitNeedsRace'
  BY <1>24 DEF LeaveClear
<1>25. ASSUME NEW u \in User, LeaveFails(u) PROVE SplitNeedsRace'
  BY <1>25 DEF LeaveFails
<1>26. ASSUME NEW u \in User, NEW g \in Group, LeaveLookup(u, g)
     PROVE  SplitNeedsRace'
  BY <1>26 DEF LeaveLookup
<1>27. ASSUME NEW u \in User, NEW g \in Group, InviteFriend(u, g)
     PROVE  SplitNeedsRace'
  BY <1>27 DEF InviteFriend
<1>28. ASSUME NEW g \in Group, DbWelcome(g) PROVE SplitNeedsRace'
  BY <1>28 DEF DbWelcome
<1>29. ASSUME NEW g \in Group, DbGroup(g) PROVE SplitNeedsRace'
  BY <1>29 DEF DbGroup
<1>30. ASSUME NEW g \in Group, DbInsert(g) PROVE SplitNeedsRace'
  BY <1>30, <1>0 DEF DbInsertDone
<1>31. ASSUME NEW g \in Group, DbFails(g) PROVE SplitNeedsRace'
  BY <1>31 DEF DbFails
<1>32. CASE UNCHANGED vars
  BY <1>32 DEF vars
<1> HIDE DEF IInv, Goto, Return, Spend, Added, Removed, Dropped, locals, rooms,
        store, Stores, Inserts, Leaving, NoLeave, TypeOK, SplitNeedsRace,
        OneFinder, Finders, UnboundIsUnknown, Unbound, KnownIds, Building,
        LocalsSet, Ahead
<1> QED
  BY <1>1, <1>2, <1>3, <1>4, <1>5, <1>6, <1>7, <1>8, <1>9, <1>10, <1>11,
     <1>12, <1>13, <1>14, <1>15, <1>16, <1>17, <1>18, <1>19, <1>20, <1>21,
     <1>22, <1>23, <1>24, <1>25, <1>26, <1>27, <1>28, <1>29, <1>30, <1>31,
     <1>32
  DEF Next, Handler, Arrival, Rest, Quiet, Db

LEMMA IInvStep == IInv /\ [Next]_vars => IInv'
BY TypeStep, LocalsStep, SessionStep, KnownStep, BuildingStep, MembersStep, HomeStep,
   ExcludedStep, RoutesStep, UnboundStep, StoreStep, FinderStep, SplitStep DEF IInv

\* Every reachable state satisfies the inductive invariant.
THEOREM IInvHolds == Spec => []IInv
<1>1. Init => IInv
  BY InitIInv
<1>2. IInv /\ [Next]_vars => IInv'
  BY IInvStep
<1> QED
  BY <1>1, <1>2, PTL DEF Spec

\* The variables of the routing core keep their types (SessionUtil and the
\* handlers' locals).
THEOREM TypeCorrect == Spec => []TypeOK
BY IInvHolds, PTL DEF IInv

\* The name loop of a group message finds a session on every channel
\* (GroupMessageRequestHandler).
THEOREM NamesNeverNull == Spec => []MembersHaveSession
BY IInvHolds, PTL DEF IInv

\* A member is in its group or between the two steps of its own message.
THEOREM SendersComeBack == Spec => []HomeOrSending
BY IInvHolds, PTL DEF IInv

\* No client receives its own message back.
THEOREM NoEcho == Spec => []SenderExcluded
BY IInvHolds, PTL DEF IInv

\* A direct message goes to a channel of its addressee.
THEOREM DirectRouting == Spec => []RoutesToOwner
BY IInvHolds, PTL DEF IInv

\* Only two handshakes that find a group unbound at one time can lose the object
\* of a group with a member in it (HttpRequestHandler 95 to 99).
THEOREM OnlyRacesSplit == Spec => []SplitNeedsRace
BY IInvHolds, PTL DEF IInv

\* Wherever the storing task fails, nobody is a member of a group without its own
\* rows (DataBaseStore.createGroup).
THEOREM GroupRowFirst == Spec => []GroupBeforeMembers
<1>1. IInv => GroupBeforeMembers
  BY DEF IInv, StoreOrder, Unseen, GroupBeforeMembers
<1> QED
  BY <1>1, IInvHolds, PTL

=============================================================================
