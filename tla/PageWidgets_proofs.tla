------------------------- MODULE PageWidgets_proofs -------------------------
(***************************************************************************)
(* The floating messages and the dialogs of a page, for any number of both *)
(* and any number of clicks and requests.                                  *)
(***************************************************************************)
EXTENDS PageWidgets, TLAPS

-----------------------------------------------------------------------------
(* The messages.                                                           *)

\* What the invariant says of one message.
Steady(m) ==
  /\ lost[m] = 0
  /\ mouse = m => inPage[m] /\ isIn[m] /\ ~upFloat[m]
  /\ upFloat[m] => place[m] = "late" /\ (inPage[m] => ~isIn[m])
  /\ inPage[m] => (isIn[m] <=> mouse = m)
  /\ place[m] = "new" => ~inPage[m] /\ ~isIn[m]

LEMMA IInvIsSteady == IInv <=> TypeOK /\ \A m \in Message : Steady(m)
BY DEF IInv, Steady

\* A step of message m leaves what is said of the others as it was.
LEMMA OthersSteady ==
  ASSUME IInv, NEW m \in Message, NEW x \in Message \ {m},
         place'[x] = place[x], inPage'[x] = inPage[x], isIn'[x] = isIn[x],
         upFloat'[x] = upFloat[x], lost'[x] = lost[x], mouse' = x <=> mouse = x
  PROVE  Steady(x)'
BY DEF IInv, Steady

LEMMA InitIInv == Init => IInv
<1> SUFFICES ASSUME Init PROVE IInv
  OBVIOUS
<1>1. TypeOK
  BY FloatAssumption DEF Init, TypeOK
<1>2. \A m \in Message : Steady(m)
  BY FloatAssumption DEF Init, Steady
<1> QED
  BY <1>1, <1>2, IInvIsSteady

\* A message put on the page: not under the mouse yet.
LEMMA ShowStep ==
  ASSUME IInv, NEW m \in Message, Show(m)
  PROVE  IInv'
<1>1. place[m] = "new" /\ mouse # m /\ ~upFloat[m] /\ lost[m] = 0 /\ ~isIn[m]
  BY DEF Show, IInv
<1>2. TypeOK'
  BY <1>1 DEF Show, IInv, TypeOK
<1>3. ASSUME NEW x \in Message \ {m} PROVE Steady(x)'
  <2>1. /\ place'[x] = place[x] /\ inPage'[x] = inPage[x] /\ isIn'[x] = isIn[x]
        /\ upFloat'[x] = upFloat[x] /\ lost'[x] = lost[x]
    BY <1>1 DEF Show, IInv, TypeOK
  <2>2. mouse' = x <=> mouse = x
    BY <1>1, FloatAssumption DEF Show
  <2> QED
    BY <2>1, <2>2, OthersSteady
<1>4. Steady(m)'
  <2>1. /\ place'[m] = "shown" /\ mouse' # m /\ ~upFloat'[m] /\ lost'[m] = 0
        /\ inPage'[m] /\ ~isIn'[m]
    BY <1>1, FloatAssumption DEF Show, IInv, TypeOK
  <2> QED
    BY <1>1, <2>1 DEF Steady, IInv
<1> QED
  BY <1>2, <1>3, <1>4 DEF IInv, Steady

\* The timer starts an interval only where none runs and no mouse is.
LEMMA TimeoutStep ==
  ASSUME IInv, NEW m \in Message, Timeout(m)
  PROVE  IInv'
<1>1. place[m] = "shown" /\ ~upFloat[m] /\ lost[m] = 0
  BY DEF Timeout, SetInterval, IInv
<1>2. TypeOK'
  <2>1. upFloat' \in [Message -> BOOLEAN] /\ lost' \in [Message -> Nat]
    <3>1. (IF upFloat[m] THEN 1 ELSE 0) = 0 /\ lost[m] + 0 = 0
      BY <1>1
    <3>2. lost' = [lost EXCEPT ![m] = 0] \/ lost' = lost
      BY <1>1, <3>1 DEF Timeout, SetInterval
    <3>3. upFloat' = [upFloat EXCEPT ![m] = TRUE] \/ upFloat' = upFloat
      BY <1>1 DEF Timeout, SetInterval
    <3> QED
      BY <3>2, <3>3 DEF IInv, TypeOK
  <2> QED
    BY <2>1, FloatAssumption DEF Timeout, IInv, TypeOK
<1>3. ASSUME NEW x \in Message \ {m} PROVE Steady(x)'
  <2>1. /\ place'[x] = place[x] /\ inPage'[x] = inPage[x] /\ isIn'[x] = isIn[x]
        /\ upFloat'[x] = upFloat[x] /\ lost'[x] = lost[x]
    BY <1>1 DEF Timeout, SetInterval, IInv, TypeOK
  <2>2. mouse' = x <=> mouse = x
    BY <1>1, FloatAssumption DEF Timeout, SetInterval
  <2> QED
    BY <2>1, <2>2, OthersSteady
<1>4. Steady(m)'
  <2>1. /\ place'[m] = "late" /\ lost'[m] = 0 /\ mouse' = mouse
        /\ inPage'[m] = inPage[m] /\ isIn'[m] = isIn[m]
        /\ upFloat'[m] => ~isIn[m]
    BY <1>1, FloatAssumption DEF Timeout, SetInterval, IInv, TypeOK
  <2> QED
    BY <1>1, <2>1 DEF Steady, IInv
<1> QED
  BY <1>2, <1>3, <1>4 DEF IInv, Steady

LEMMA EnterStep ==
  ASSUME IInv, NEW m \in Message, Enter(m)
  PROVE  IInv'
<1>1. mouse = None /\ inPage[m] /\ lost[m] = 0 /\ ~isIn[m] /\ place[m] # "new"
  BY FloatAssumption DEF Enter, ClearInterval, IInv
<1>2. TypeOK'
  BY <1>1 DEF Enter, ClearInterval, IInv, TypeOK
<1>3. ASSUME NEW x \in Message \ {m} PROVE Steady(x)'
  <2>1. /\ place'[x] = place[x] /\ inPage'[x] = inPage[x] /\ isIn'[x] = isIn[x]
        /\ upFloat'[x] = upFloat[x] /\ lost'[x] = lost[x]
    BY <1>1 DEF Enter, ClearInterval, IInv, TypeOK
  <2>2. mouse' = x <=> mouse = x
    BY <1>1, FloatAssumption DEF Enter, ClearInterval
  <2> QED
    BY <2>1, <2>2, OthersSteady
<1>4. Steady(m)'
  <2>1. /\ place'[m] = place[m] /\ lost'[m] = 0 /\ mouse' = m
        /\ inPage'[m] /\ isIn'[m] /\ ~upFloat'[m]
    BY <1>1, FloatAssumption DEF Enter, ClearInterval, IInv, TypeOK
  <2> QED
    BY <1>1, <2>1 DEF Steady, IInv
<1> QED
  BY <1>2, <1>3, <1>4 DEF IInv, Steady

\* The mouse was over the message, so no interval of it ran.
LEMMA OutStep ==
  ASSUME IInv, NEW m \in Message, Out(m)
  PROVE  IInv'
<1>1. mouse = m /\ inPage[m] /\ ~upFloat[m] /\ lost[m] = 0 /\ place[m] # "new"
  BY DEF Out, SetInterval, IInv
<1>2. TypeOK'
  <2>1. upFloat' \in [Message -> BOOLEAN] /\ lost' \in [Message -> Nat]
    <3>1. (IF upFloat[m] THEN 1 ELSE 0) = 0 /\ lost[m] + 0 = 0
      BY <1>1
    <3>2. lost' = [lost EXCEPT ![m] = 0] \/ lost' = lost
      BY <1>1, <3>1 DEF Out, SetInterval
    <3>3. upFloat' = [upFloat EXCEPT ![m] = TRUE] \/ upFloat' = upFloat
      BY <1>1 DEF Out, SetInterval
    <3> QED
      BY <3>2, <3>3 DEF IInv, TypeOK
  <2> QED
    BY <2>1, FloatAssumption DEF Out, IInv, TypeOK
<1>3. ASSUME NEW x \in Message \ {m} PROVE Steady(x)'
  <2>1. /\ place'[x] = place[x] /\ inPage'[x] = inPage[x] /\ isIn'[x] = isIn[x]
        /\ upFloat'[x] = upFloat[x] /\ lost'[x] = lost[x]
    BY <1>1 DEF Out, SetInterval, IInv, TypeOK
  <2>2. mouse' = x <=> mouse = x
    BY <1>1, FloatAssumption DEF Out, SetInterval
  <2> QED
    BY <2>1, <2>2, OthersSteady
<1>4. Steady(m)'
  <2>1. /\ place'[m] = place[m] /\ lost'[m] = 0 /\ mouse' # m
        /\ inPage'[m] /\ ~isIn'[m] /\ (upFloat'[m] => place[m] = "late")
    BY <1>1, FloatAssumption DEF Out, SetInterval, IInv, TypeOK
  <2> QED
    BY <1>1, <2>1 DEF Steady, IInv
<1> QED
  BY <1>2, <1>3, <1>4 DEF IInv, Steady

\* An interval runs with its handle known; the mouse is elsewhere.
LEMMA FloatStep ==
  ASSUME IInv, NEW m \in Message, Float(m)
  PROVE  IInv' /\ mouse # m /\ \A x \in Message \ {m} : toGo'[x] = toGo[x]
<1>1. upFloat[m] /\ mouse # m
  BY DEF Float, IInv, TypeOK
<1>2. CASE toGo[m] >= 0
  <2>1. /\ toGo' = [toGo EXCEPT ![m] = @ - 1]
        /\ UNCHANGED <<place, inPage, isIn, mouse, upFloat, lost>>
    BY <1>2 DEF Float
  <2>2. toGo' \in [Message -> -1..FloatSpace]
    BY <1>2, <2>1, FloatAssumption DEF IInv, TypeOK
  <2>3. TypeOK'
    BY <2>1, <2>2 DEF IInv, TypeOK
  <2>4. \A x \in Message : Steady(x)'
    BY <2>1 DEF IInv, Steady
  <2> QED
    BY <1>1, <2>1, <2>3, <2>4 DEF IInv, TypeOK, Steady
<1>3. CASE ~(toGo[m] >= 0)
  <2>1. /\ RemoveElement(m) /\ ClearInterval(m)
        /\ UNCHANGED <<place, isIn, toGo>>
    BY <1>3 DEF Float
  <2>2. TypeOK'
    BY <2>1 DEF RemoveElement, ClearInterval, IInv, TypeOK
  <2>3. \A x \in Message : Steady(x)'
    BY <1>1, <2>1 DEF RemoveElement, ClearInterval, IInv, TypeOK, Steady
  <2> QED
    BY <1>1, <2>1, <2>2, <2>3 DEF IInv, Steady
<1> QED
  BY <1>2, <1>3

LEMMA CloseStep ==
  ASSUME IInv, NEW m \in Message, Close(m)
  PROVE  IInv'
<1>1. TypeOK'
  BY DEF Close, RemoveElement, IInv, TypeOK
<1>2. \A x \in Message : Steady(x)'
  BY FloatAssumption DEF Close, RemoveElement, IInv, TypeOK, Steady
<1> QED
  BY <1>1, <1>2 DEF IInv, Steady

\* Every step keeps the invariant, and moves no message that the mouse is and stays on.
LEMMA StepIInv ==
  ASSUME IInv, [Next]_vars
  PROVE  IInv' /\ \A m \in Message : mouse = m /\ mouse' = m => toGo'[m] = toGo[m]
<1>1. CASE UNCHANGED vars
  <2>1. TypeOK' /\ \A m \in Message : Steady(m)'
    BY <1>1 DEF vars, IInv, TypeOK, Steady
  <2> QED
    BY <1>1, <2>1 DEF vars, IInv, Steady
<1>2. ASSUME NEW m \in Message, Show(m) \/ Timeout(m) \/ Enter(m) \/ Out(m) \/ Close(m)
      PROVE  IInv' /\ UNCHANGED toGo
  <2>1. IInv'
    BY <1>2, ShowStep, TimeoutStep, EnterStep, OutStep, CloseStep
  <2>2. UNCHANGED toGo
    BY <1>2 DEF Show, Timeout, Enter, Out, Close
  <2> QED
    BY <2>1, <2>2
<1>3. ASSUME NEW m \in Message, Float(m)
      PROVE  IInv' /\ mouse # m /\ \A x \in Message \ {m} : toGo'[x] = toGo[x]
  BY <1>3, FloatStep
<1> QED
  BY <1>1, <1>2, <1>3 DEF Next, vars

-----------------------------------------------------------------------------
\* The inductive invariant: one interval at most, its handle known, none under the mouse.
THEOREM IInvHolds == Spec => []IInv
<1>1. IInv /\ [Next]_vars => IInv'
  BY StepIInv
<1> QED
  BY <1>1, InitIInv, PTL DEF Spec

\* However often the mouse comes and goes, no running interval loses its handle.
THEOREM NoIntervalLost == Spec => []NoneLost
<1>1. IInv => NoneLost
  BY DEF IInv, NoneLost
<1> QED
  BY <1>1, IInvHolds, PTL

\* A message under the mouse does not move.
THEOREM MouseHolds == Spec => HeldStill
<1>1. IInv /\ [Next]_vars =>
        [\A m \in Message : mouse = m /\ mouse' = m => toGo'[m] = toGo[m]]_vars
  BY StepIInv
<1> QED
  BY <1>1, IInvHolds, PTL DEF Spec, HeldStill

-----------------------------------------------------------------------------
(* The dialogs: the invariant.                                             *)

Kinds == {"show", "hideModal", "remove", "hidden"}

Waiters == [what : Kinds, d : Dialog, b : Nat, n : Nat \ {0}, left : 0..2]

DialogsTyped ==
  /\ isShown \in [Dialog -> BOOLEAN] /\ display \in [Dialog -> BOOLEAN]
  /\ hasIn \in [Dialog -> BOOLEAN]
  /\ backdrop \in [Dialog -> Nat] /\ padWas \in [Dialog -> Int]
  /\ made \in Nat /\ dom \subseteq 1..made /\ pad \in Int
  /\ pend \subseteq Waiters

\* A backdrop that no dialog names any more: nothing will remove it.
Orphan(b) == b \in dom /\ \A d \in Dialog : backdrop[d] # b

\* Every dialog names a backdrop of its own, or none; one that waits to be
\* removed is that of a dialog closed, or an orphan; a dialog shown has its
\* backdrop, or left an orphan behind.
Backdrops ==
  /\ \A d \in Dialog : backdrop[d] \in dom \cup {0}
  /\ \A d, e \in Dialog : d # e /\ backdrop[d] = backdrop[e] => backdrop[d] = 0
  /\ \A r \in pend : r.what = "remove" =>
       /\ r.b \in dom
       /\ Orphan(r.b) \/ (r.b = backdrop[r.d] /\ ~isShown[r.d])
  /\ \A d \in Dialog : isShown[d] => backdrop[d] # 0 \/ \E b \in dom : Orphan(b)

\* The steps of one dialog, from the click that shows it to the last callback.
Handlers(listening, drawn, d, in) ==
  rash = {} => resizers = listening /\ focusin = drawn /\ hasIn[d] = in

Opening(d) ==
  /\ isShown[d] /\ ~display[d] /\ Handlers({d}, None, d, FALSE)
  /\ \E l \in 0..1 : pend = {D!Waits("show", d, backdrop[d], 1, l)}

Opened(d) == isShown[d] /\ display[d] /\ pend = {} /\ Handlers({d}, d, d, TRUE)

\* Hidden while it opened: the callback of show comes first.
Hasty(d) ==
  /\ ~isShown[d] /\ ~display[d] /\ rash # {}
  /\ \E l \in 0..1, h \in 1..2 :
       l < h /\ pend = {D!Waits("show", d, backdrop[d], 1, l), D!Waits("hideModal", d, 0, 1, h)}

Closing(d) ==
  /\ ~isShown[d] /\ display[d] /\ Handlers({}, None, d, FALSE)
  /\ \E l \in 0..2 : pend = {D!Waits("hideModal", d, 0, 1, l)}

Removing(d) ==
  /\ ~isShown[d] /\ ~display[d] /\ Handlers({}, None, d, FALSE)
  /\ \E l \in 0..1 : pend = {D!Waits("remove", d, backdrop[d], 1, l)}

Idle(d) == ~isShown[d] /\ ~display[d] /\ backdrop[d] = 0 /\ (rash = {} => ~hasIn[d])

NoneUp == /\ dom = {} /\ pend = {} /\ modalOpen = FALSE /\ pad = 0
          /\ rash = {} => resizers = {} /\ focusin = None
          /\ \A d \in Dialog : Idle(d)

Up(d) == /\ dom = {backdrop[d]} /\ backdrop[d] # 0
         /\ modalOpen = TRUE /\ pad = 1 /\ padWas[d] = 0
         /\ Opening(d) \/ Opened(d) \/ Hasty(d) \/ Closing(d) \/ Removing(d)
         /\ \A e \in Dialog \ {d} : Idle(e)

\* Unless dialogs were stacked or shown again while closing, there is one at most.
OneAtATime == rash \subseteq {"hasty"} => NoneUp \/ \E d \in Dialog : Up(d)

Sound == DialogsTyped /\ Backdrops
DialogsInv == Sound /\ OneAtATime

LEMMA DialogsInit == D!Init => DialogsInv
<1> SUFFICES ASSUME D!Init PROVE DialogsInv
  OBVIOUS
<1>1. Sound
  BY DEF D!Init, Sound, DialogsTyped, Backdrops
<1>2. NoneUp
  BY DEF D!Init, NoneUp, Idle
<1> QED
  BY <1>1, <1>2 DEF DialogsInv, OneAtATime

-----------------------------------------------------------------------------
(* Each step keeps the backdrops in order, whatever came before.           *)

LEMMA PendTyped ==
  ASSUME Sound, NEW r \in pend
  PROVE  /\ r.what \in Kinds /\ r.d \in Dialog /\ r.b \in Nat /\ r.n \in Nat \ {0}
         /\ r.left \in 0..2 /\ r \in Waiters
BY DEF Sound, DialogsTyped, Waiters

LEMMA WaitsTyped ==
  ASSUME NEW what \in Kinds, NEW d \in Dialog, NEW b \in Nat, NEW n \in Nat \ {0}, NEW l \in 0..2
  PROVE  D!Waits(what, d, b, n, l) \in Waiters
BY DEF D!Waits, Waiters

LEMMA ShowSound ==
  ASSUME Sound, NEW d \in Dialog, D!Show(d)
  PROVE  Sound'
<1> DEFINE w == D!Waits("show", d, made + 1, 1, 1)
<1>1. /\ made \in Nat /\ made' = made + 1 /\ made' \in Nat
      /\ dom \subseteq 1..made /\ dom' = dom \cup {made + 1} /\ made + 1 \notin dom
      /\ dom' \subseteq 1..made' /\ made + 1 # 0
  <2>1. made \in Nat /\ dom \subseteq 1..made
    BY DEF Sound, DialogsTyped
  <2>2. made' = made + 1 /\ dom' = dom \cup {made + 1}
    BY DEF D!Show
  <2>3. made + 1 \in Nat /\ made + 1 \notin 1..made /\ made + 1 # 0 /\ made + 1 \in 1..made + 1
        /\ 1..made \subseteq 1..made + 1
    BY <2>1
  <2>4. made + 1 \notin dom /\ dom \cup {made + 1} \subseteq 1..made + 1
    BY <2>1, <2>3
  <2> QED
    BY <2>1, <2>2, <2>3, <2>4
<1>2. w.what = "show" /\ w.d = d /\ w.b = made + 1 /\ w.n = 1 /\ w.left = 1 /\ pend' = pend \cup {w}
  BY DEF D!Show, D!Waits
<1> HIDE DEF w
<1>3. /\ isShown' = [isShown EXCEPT ![d] = TRUE] /\ padWas' = [padWas EXCEPT ![d] = pad]
      /\ backdrop' = [backdrop EXCEPT ![d] = made + 1] /\ ~isShown[d]
      /\ UNCHANGED <<display, hasIn>>
      /\ pad' = pad \/ pad' = pad + 1
  BY DEF D!Show
<1>4. DialogsTyped'
  <2>1. w \in Waiters
    BY <1>1, WaitsTyped DEF w, Kinds
  <2>2. pend' \subseteq Waiters
    BY <1>2, <2>1 DEF Sound, DialogsTyped
  <2> QED
    BY <1>1, <1>3, <2>2 DEF Sound, DialogsTyped
<1>5. \A e \in Dialog : backdrop'[e] = IF e = d THEN made + 1 ELSE backdrop[e]
  BY <1>3 DEF Sound, DialogsTyped
<1>6. \A e \in Dialog : backdrop[e] # made + 1
  BY <1>1 DEF Sound, Backdrops
<1>7. \A b : Orphan(b) => Orphan(b)'
  BY <1>1, <1>5 DEF Orphan
<1>8. \A r \in pend' : r.what = "remove" =>
       /\ r.b \in dom'
       /\ Orphan(r.b)' \/ (r.b = backdrop'[r.d] /\ ~isShown'[r.d])
  <2> SUFFICES ASSUME NEW r \in pend, r.what = "remove"
      PROVE  r.b \in dom' /\ (Orphan(r.b)' \/ (r.b = backdrop'[r.d] /\ ~isShown'[r.d]))
    BY <1>2
  <2>1. r.b \in dom /\ r.d \in Dialog /\ (Orphan(r.b) \/ (r.b = backdrop[r.d] /\ ~isShown[r.d]))
    BY PendTyped DEF Sound, Backdrops
  <2>2. CASE Orphan(r.b) \/ r.d # d
    BY <1>1, <1>3, <1>5, <1>7, <2>1, <2>2 DEF Sound, DialogsTyped
  <2>3. CASE r.d = d /\ r.b = backdrop[d]
    <3>1. backdrop[d] # 0
      BY <1>1, <2>1, <2>3
    <3>2. \A e \in Dialog : backdrop'[e] # r.b
      BY <1>1, <1>5, <2>1, <2>3, <3>1 DEF Sound, Backdrops
    <3> QED
      BY <1>1, <2>1, <3>2 DEF Orphan
  <2> QED
    BY <2>1, <2>2, <2>3
<1>9. \A e \in Dialog : isShown'[e] => backdrop'[e] # 0 \/ \E b \in dom' : Orphan(b)'
  BY <1>1, <1>3, <1>5, <1>7 DEF Sound, DialogsTyped, Backdrops
<1>10. /\ \A e \in Dialog : backdrop'[e] \in dom' \cup {0}
       /\ \A e, f \in Dialog : e # f /\ backdrop'[e] = backdrop'[f] => backdrop'[e] = 0
  BY <1>1, <1>5, <1>6 DEF Sound, Backdrops
<1> QED
  BY <1>4, <1>8, <1>9, <1>10 DEF Sound, Backdrops

\* pend may lose and gain waiters of other kinds, dialogs may be hidden.
LEMMA BackdropsKept ==
  ASSUME Sound, UNCHANGED <<backdrop, dom>>, isShown' \in [Dialog -> BOOLEAN],
         \A d \in Dialog : isShown'[d] => isShown[d],
         \A r \in pend' : r.what = "remove" => \E q \in pend : q.what = "remove" /\ q.d = r.d /\ q.b = r.b
  PROVE  Backdrops'
<1>1. \A b : Orphan(b)' <=> Orphan(b)
  BY DEF Orphan
<1>2. \A r \in pend' : r.what = "remove" =>
       /\ r.b \in dom
       /\ Orphan(r.b)' \/ (r.b = backdrop[r.d] /\ ~isShown'[r.d])
  <2> SUFFICES ASSUME NEW r \in pend', r.what = "remove"
      PROVE  r.b \in dom /\ (Orphan(r.b)' \/ (r.b = backdrop[r.d] /\ ~isShown'[r.d]))
    OBVIOUS
  <2>1. PICK q \in pend : q.what = "remove" /\ q.d = r.d /\ q.b = r.b
    OBVIOUS
  <2>2. q.d \in Dialog /\ q.b \in dom /\ (Orphan(q.b) \/ (q.b = backdrop[q.d] /\ ~isShown[q.d]))
    BY <2>1, PendTyped DEF Sound, Backdrops
  <2> QED
    BY <1>1, <2>1, <2>2
<1> QED
  BY <1>1, <1>2 DEF Sound, Backdrops

LEMMA HideSound ==
  ASSUME Sound, NEW d \in Dialog, D!Hide(d)
  PROVE  Sound'
<1>1. /\ isShown' = [isShown EXCEPT ![d] = FALSE] /\ hasIn' = [hasIn EXCEPT ![d] = FALSE]
      /\ UNCHANGED <<backdrop, padWas, display, dom, made, pad>>
  BY DEF D!Hide
<1>2. ASSUME NEW q \in pend', q \notin pend
      PROVE  /\ q.what = "hideModal" /\ q.d = d /\ q.b = 0
             /\ q \in Waiters
  <2> DEFINE H == D!Waiting(d, "hideModal")
  <2>1. \/ \E r \in H : pend' = (pend \ H) \cup {D!Waits("hideModal", d, 0, r.n + 1, r.left)}
        \/ \E left \in 1..2 : pend' = pend \cup {D!Waits("hideModal", d, 0, 1, left)}
    BY DEF D!Hide
  <2>2. ASSUME NEW r \in H, pend' = (pend \ H) \cup {D!Waits("hideModal", d, 0, r.n + 1, r.left)}
        PROVE  /\ q.what = "hideModal" /\ q.d = d /\ q.b = 0
               /\ q \in Waiters
    <3>1. r.n \in Nat /\ r.left \in 0..2
      BY PendTyped DEF D!Waiting
    <3>2. q = D!Waits("hideModal", d, 0, r.n + 1, r.left)
      BY <1>2, <2>2
    <3>3. r.n + 1 \in Nat \ {0}
      BY <3>1
    <3>4. D!Waits("hideModal", d, 0, r.n + 1, r.left) \in Waiters
      BY <3>1, <3>3, WaitsTyped DEF Kinds
    <3>5. q.what = "hideModal" /\ q.d = d /\ q.b = 0
      BY <3>2 DEF D!Waits
    <3> QED
      BY <3>2, <3>4, <3>5
  <2>3. ASSUME NEW left \in 1..2, pend' = pend \cup {D!Waits("hideModal", d, 0, 1, left)}
        PROVE  /\ q.what = "hideModal" /\ q.d = d /\ q.b = 0
               /\ q \in Waiters
    <3>1. q = D!Waits("hideModal", d, 0, 1, left)
      BY <1>2, <2>3
    <3>2. D!Waits("hideModal", d, 0, 1, left) \in Waiters
      BY WaitsTyped DEF Kinds
    <3>3. q.what = "hideModal" /\ q.d = d /\ q.b = 0
      BY <3>1 DEF D!Waits
    <3> QED
      BY <3>1, <3>2, <3>3
  <2> QED
    BY <2>1, <2>2, <2>3
<1>3. DialogsTyped'
  <2>1. pend' \subseteq Waiters
    BY <1>2 DEF Sound, DialogsTyped
  <2> QED
    BY <1>1, <2>1 DEF Sound, DialogsTyped
<1>4. Backdrops'
  <2>1. isShown' \in [Dialog -> BOOLEAN] /\ \A e \in Dialog : isShown'[e] => isShown[e]
    BY <1>1 DEF Sound, DialogsTyped
  <2> QED
    BY <1>1, <1>2, <2>1, BackdropsKept
<1> QED
  BY <1>3, <1>4 DEF Sound

LEMMA CallbackSound ==
  ASSUME Sound, NEW r \in pend, D!ShowCallback(r) \/ D!Hidden(r)
  PROVE  Sound'
<1>1. r.d \in Dialog /\ pend' = pend \ {r} /\ UNCHANGED <<isShown, padWas, backdrop, dom, made>>
  BY PendTyped DEF D!ShowCallback, D!Hidden, D!steady
<1>2. /\ display' \in [Dialog -> BOOLEAN] /\ hasIn' \in [Dialog -> BOOLEAN] /\ pad' \in Int
  BY <1>1 DEF D!ShowCallback, D!Hidden, D!ResetBody, Sound, DialogsTyped
<1>3. DialogsTyped'
  BY <1>1, <1>2 DEF Sound, DialogsTyped
<1>4. Backdrops'
  BY <1>1, BackdropsKept DEF Sound, DialogsTyped
<1> QED
  BY <1>3, <1>4 DEF Sound

LEMMA ElapseSound ==
  ASSUME Sound, D!Elapse
  PROVE  Sound'
<1>1. /\ UNCHANGED <<isShown, display, hasIn, backdrop, padWas, made, dom, pad>>
      /\ pend' = {[r EXCEPT !.left = @ - 1] : r \in pend} /\ \A r \in pend : r.left > 0
  BY DEF D!Elapse, D!modal, D!body
<1>2. ASSUME NEW q \in pend'
      PROVE  /\ q \in Waiters
             /\ q.what = "remove" => \E r \in pend : r.what = "remove" /\ r.d = q.d /\ r.b = q.b
  <2>1. PICK r \in pend : q = [r EXCEPT !.left = @ - 1]
    BY <1>1
  <2>2. r \in Waiters /\ r.left - 1 \in 0..2
    BY <1>1, PendTyped
  <2>3. q \in Waiters /\ q.what = r.what /\ q.d = r.d /\ q.b = r.b
    BY <2>1, <2>2 DEF Waiters
  <2> QED
    BY <2>3
<1>3. pend' \subseteq Waiters
  BY <1>2
<1>4. DialogsTyped'
  BY <1>1, <1>3 DEF Sound, DialogsTyped
<1>5. Backdrops'
  BY <1>1, <1>2, BackdropsKept DEF Sound, DialogsTyped
<1> QED
  BY <1>4, <1>5 DEF Sound

\* A dialog shown again gets new backdrops and leaves its own behind; one that
\* is closed lets its own fade.
LEMMA HideModalSound ==
  ASSUME Sound, NEW r \in pend, D!HideModal(r)
  PROVE  Sound'
<1>1. /\ r.d \in Dialog /\ r.n \in Nat \ {0} /\ made \in Nat /\ dom \subseteq 1..made
      /\ UNCHANGED <<isShown, padWas, hasIn>>
      /\ display' = [display EXCEPT ![r.d] = FALSE]
  BY PendTyped DEF D!HideModal, D!steady, Sound, DialogsTyped
<1>2. CASE isShown[r.d]
  <2> DEFINE new == made + 1 .. made + r.n
             ws == {D!Waits("hidden", r.d, b, 1, 1) : b \in new}
  <2>1. /\ made' = made + r.n /\ dom' = dom \cup new /\ pad' = pad
        /\ backdrop' = [backdrop EXCEPT ![r.d] = made + r.n]
        /\ pend' = (pend \ {r}) \cup ws
    BY <1>2 DEF D!HideModal, D!KeepBody
  <2>2. /\ made + r.n \in Nat /\ made + r.n \in new /\ made + r.n # 0
        /\ \A b \in new : b \in Nat /\ b \notin dom /\ b # 0 /\ b \in 1..made + r.n
        /\ 1..made \subseteq 1..made + r.n
    BY <1>1
  <2>3. \A w \in ws : w \in Waiters /\ w.what = "hidden"
    <3> SUFFICES ASSUME NEW b \in new
                 PROVE  /\ D!Waits("hidden", r.d, b, 1, 1) \in Waiters
                        /\ D!Waits("hidden", r.d, b, 1, 1).what = "hidden"
      OBVIOUS
    <3>1. D!Waits("hidden", r.d, b, 1, 1) \in Waiters
      BY <1>1, <2>2, WaitsTyped DEF Kinds
    <3> QED
      BY <3>1 DEF D!Waits
  <2> HIDE DEF new, ws
  <2>4. DialogsTyped'
    <3>1. pend' \subseteq Waiters
      BY <2>1, <2>3 DEF Sound, DialogsTyped
    <3>2. dom' \subseteq 1..made'
      BY <1>1, <2>1, <2>2
    <3> QED
      BY <1>1, <2>1, <2>2, <3>1, <3>2 DEF Sound, DialogsTyped
  <2>5. \A e \in Dialog : backdrop'[e] = IF e = r.d THEN made + r.n ELSE backdrop[e]
    BY <2>1 DEF Sound, DialogsTyped
  <2>6. \A e \in Dialog : backdrop[e] # made + r.n
    BY <2>2 DEF Sound, Backdrops
  <2>7. \A b : Orphan(b) => Orphan(b)'
    BY <2>1, <2>2, <2>5 DEF Orphan
  <2>8. \A q \in pend' : q.what = "remove" =>
          q.b \in dom' /\ (Orphan(q.b)' \/ (q.b = backdrop'[q.d] /\ ~isShown'[q.d]))
    <3> SUFFICES ASSUME NEW q \in pend, q.what = "remove"
        PROVE  q.b \in dom' /\ (Orphan(q.b)' \/ (q.b = backdrop'[q.d] /\ ~isShown'[q.d]))
      BY <2>1, <2>3
    <3>1. q.b \in dom /\ q.d \in Dialog /\ (Orphan(q.b) \/ (q.b = backdrop[q.d] /\ ~isShown[q.d]))
      BY PendTyped DEF Sound, Backdrops
    <3> QED
      BY <1>1, <1>2, <2>1, <2>5, <2>7, <3>1
  <2>9. \A e \in Dialog : isShown'[e] => backdrop'[e] # 0 \/ \E b \in dom' : Orphan(b)'
    BY <1>1, <2>1, <2>2, <2>5, <2>7 DEF Sound, Backdrops
  <2>10. /\ \A e \in Dialog : backdrop'[e] \in dom' \cup {0}
         /\ \A e, f \in Dialog : e # f /\ backdrop'[e] = backdrop'[f] => backdrop'[e] = 0
    BY <2>1, <2>2, <2>5, <2>6 DEF Sound, Backdrops
  <2> QED
    BY <2>4, <2>8, <2>9, <2>10 DEF Sound, Backdrops
<1>3. CASE ~isShown[r.d] /\ backdrop[r.d] # 0
  <2> DEFINE w == D!Waits("remove", r.d, backdrop[r.d], 1, 1)
  <2>1. pend' = (pend \ {r}) \cup {w} /\ UNCHANGED <<made, dom, backdrop, pad>>
    BY <1>3 DEF D!HideModal, D!KeepBody
  <2>2. w.what = "remove" /\ w.d = r.d /\ w.b = backdrop[r.d]
    BY DEF D!Waits
  <2>3. w \in Waiters
    <3>1. backdrop[r.d] \in Nat
      BY <1>1 DEF Sound, DialogsTyped
    <3> QED
      BY <1>1, <3>1, WaitsTyped DEF Kinds
  <2> HIDE DEF w
  <2>4. DialogsTyped'
    BY <1>1, <2>1, <2>3 DEF Sound, DialogsTyped
  <2>5. \A b : Orphan(b)' <=> Orphan(b)
    BY <2>1 DEF Orphan
  <2>6. backdrop[r.d] \in dom
    BY <1>1, <1>3 DEF Sound, Backdrops
  <2> QED
    BY <1>1, <1>3, <2>1, <2>2, <2>4, <2>5, <2>6 DEF Sound, Backdrops
<1>4. CASE ~isShown[r.d] /\ backdrop[r.d] = 0
  <2>1. /\ pend' = pend \ {r} /\ UNCHANGED <<made, dom, backdrop>> /\ pad' = padWas[r.d]
    BY <1>4 DEF D!HideModal, D!ResetBody
  <2>2. DialogsTyped'
    BY <1>1, <2>1 DEF Sound, DialogsTyped
  <2>3. isShown' \in [Dialog -> BOOLEAN]
    BY <2>2 DEF DialogsTyped
  <2>4. Backdrops'
    BY <1>1, <2>1, <2>3, BackdropsKept
  <2> QED
    BY <2>2, <2>4 DEF Sound
<1> QED
  BY <1>2, <1>3, <1>4

\* What is removed is the backdrop that the field names now: if it is not the one
\* that was waited for, that one stays for good.
LEMMA RemoveSound ==
  ASSUME Sound, NEW r \in pend, D!RemoveBackdrop(r)
  PROVE  Sound'
<1>1. /\ r.d \in Dialog /\ r.what = "remove" /\ backdrop[r.d] \in Nat
      /\ UNCHANGED <<isShown, padWas, display, hasIn, made>>
      /\ dom' = dom \ {backdrop[r.d]}
      /\ backdrop' = [backdrop EXCEPT ![r.d] = 0] /\ pad' = padWas[r.d]
      /\ pend' = {q \in pend \ {r} : backdrop[r.d] = 0 \/ q.b # backdrop[r.d]}
  BY PendTyped DEF D!RemoveBackdrop, D!steady, D!ResetBody, D!Due, Sound, DialogsTyped
<1>2. DialogsTyped'
  BY <1>1 DEF Sound, DialogsTyped
<1>3. \A e \in Dialog : backdrop'[e] = IF e = r.d THEN 0 ELSE backdrop[e]
  BY <1>1 DEF Sound, DialogsTyped
<1>4. 0 \notin dom
  BY DEF Sound, DialogsTyped
<1>5. \A b : Orphan(b) => Orphan(b)' /\ b \in dom'
  BY <1>1, <1>3, <1>4 DEF Orphan
<1>6. ASSUME NEW q \in pend', q.what = "remove"
      PROVE  q.b \in dom' /\ (Orphan(q.b)' \/ (q.b = backdrop'[q.d] /\ ~isShown'[q.d]))
  <2>1. /\ q \in pend /\ q.d \in Dialog /\ q.b \in dom /\ q.b # 0
        /\ Orphan(q.b) \/ (q.b = backdrop[q.d] /\ ~isShown[q.d])
        /\ backdrop[r.d] = 0 \/ q.b # backdrop[r.d]
    BY <1>1, <1>4, <1>6, PendTyped DEF Sound, Backdrops
  <2> QED
    BY <1>1, <1>3, <1>5, <2>1
<1>7. ASSUME NEW e \in Dialog, isShown'[e]
      PROVE  backdrop'[e] # 0 \/ \E b \in dom' : Orphan(b)'
  <2>1. backdrop[e] # 0 \/ \E b \in dom : Orphan(b)
    BY <1>1, <1>7 DEF Sound, Backdrops
  <2>2. CASE e = r.d
    <3>1. r.b \in dom /\ Orphan(r.b)
      BY <1>1, <1>7, <2>2 DEF Sound, Backdrops
    <3> QED
      BY <1>5, <3>1
  <2>3. CASE e # r.d
    BY <1>3, <1>5, <2>1, <2>3
  <2> QED
    BY <2>2, <2>3
<1>8. /\ \A e \in Dialog : backdrop'[e] \in dom' \cup {0}
      /\ \A e, f \in Dialog : e # f /\ backdrop'[e] = backdrop'[f] => backdrop'[e] = 0
  BY <1>1, <1>3 DEF Sound, Backdrops
<1> QED
  BY <1>2, <1>6, <1>7, <1>8 DEF Sound, Backdrops

-----------------------------------------------------------------------------
(* Each step takes the one dialog from one of its steps to the next.       *)

\* What waits is for the dialog that is up.
LEMMA UpWaits ==
  ASSUME NEW d \in Dialog, Up(d)
  PROVE  \A r \in pend : /\ r.d = d
                         /\ r.what = "show" => Opening(d) \/ Hasty(d)
                         /\ r.what = "hideModal" => Hasty(d) \/ Closing(d)
                         /\ r.what = "remove" => Removing(d)
                         /\ r.what # "hidden"
<1>1. ASSUME NEW r \in pend, Opening(d) PROVE r.d = d /\ r.what = "show"
  BY <1>1 DEF Opening, D!Waits
<1>2. ASSUME NEW r \in pend, Hasty(d) PROVE r.d = d /\ r.what \in {"show", "hideModal"}
  <2>1. PICK l \in 0..1, h \in 1..2 :
          pend = {D!Waits("show", d, backdrop[d], 1, l), D!Waits("hideModal", d, 0, 1, h)}
    BY <1>2 DEF Hasty
  <2> QED
    BY <2>1 DEF D!Waits
<1>3. ASSUME NEW r \in pend, Closing(d) PROVE r.d = d /\ r.what = "hideModal"
  BY <1>3 DEF Closing, D!Waits
<1>4. ASSUME NEW r \in pend, Removing(d) PROVE r.d = d /\ r.what = "remove"
  BY <1>4 DEF Removing, D!Waits
<1>5. Opened(d) => pend = {}
  BY DEF Opened
<1> QED
  BY <1>1, <1>2, <1>3, <1>4, <1>5 DEF Up

\* A dialog that is up is busy, and no other is.
LEMMA UpBusy ==
  ASSUME NEW d \in Dialog, Up(d)
  PROVE  D!Busy(d) /\ \A e \in Dialog \ {d} : ~isShown[e]
<1>1. CASE isShown[d]
  BY <1>1 DEF D!Busy, Up, Idle
<1>2. CASE ~isShown[d]
  <2>1. \E r \in pend : r.d = d
    <3>1. pend # {}
      BY <1>2 DEF Up, Opening, Opened, Hasty, Closing, Removing
    <3> QED
      BY <3>1, UpWaits
  <2> QED
    BY <2>1 DEF D!Busy, Up, Idle
<1> QED
  BY <1>1, <1>2

LEMMA ShowUp ==
  ASSUME Sound, OneAtATime, NEW d \in Dialog, D!Show(d)
  PROVE  OneAtATime'
<1> SUFFICES ASSUME rash' \subseteq {"hasty"} PROVE Up(d)'
  BY DEF OneAtATime
<1>1. ~D!Busy(d) /\ (\A e \in Dialog \ {d} : ~D!Busy(e)) /\ rash' = rash
  BY DEF D!Show
<1>2. NoneUp
  BY <1>1, UpBusy DEF OneAtATime
<1>3. /\ dom = {} /\ pend = {} /\ modalOpen = FALSE /\ pad = 0
      /\ rash = {} => resizers = {} /\ focusin = None
      /\ \A e \in Dialog : ~isShown[e] /\ ~display[e] /\ backdrop[e] = 0 /\ (rash = {} => ~hasIn[e])
  BY <1>2 DEF NoneUp, Idle
<1>4. /\ dom' = {made + 1} /\ backdrop' = [backdrop EXCEPT ![d] = made + 1] /\ made + 1 # 0
      /\ isShown' = [isShown EXCEPT ![d] = TRUE] /\ padWas' = [padWas EXCEPT ![d] = 0]
      /\ modalOpen' = TRUE /\ pad' = 1
      /\ pend' = {D!Waits("show", d, made + 1, 1, 1)} /\ resizers' = resizers \cup {d}
      /\ UNCHANGED <<display, hasIn, focusin>>
  BY <1>3 DEF D!Show, Sound, DialogsTyped
<1>5. /\ \A e \in Dialog : backdrop'[e] = IF e = d THEN made + 1 ELSE backdrop[e]
      /\ \A e \in Dialog : isShown'[e] = IF e = d THEN TRUE ELSE isShown[e]
      /\ padWas'[d] = 0
  BY <1>4 DEF Sound, DialogsTyped
<1>6. Opening(d)'
  BY <1>1, <1>3, <1>4, <1>5 DEF Opening, Handlers, Sound, DialogsTyped, D!Waits
<1>7. \A e \in Dialog \ {d} : Idle(e)'
  BY <1>1, <1>3, <1>4, <1>5 DEF Idle
<1> QED
  BY <1>4, <1>5, <1>6, <1>7 DEF Up

LEMMA HideUp ==
  ASSUME Sound, OneAtATime, NEW d \in Dialog, D!Hide(d)
  PROVE  OneAtATime'
<1> SUFFICES ASSUME rash' \subseteq {"hasty"} PROVE Up(d)'
  BY DEF OneAtATime
<1>1. /\ isShown[d] /\ rash \subseteq {"hasty"}
      /\ isShown' = [isShown EXCEPT ![d] = FALSE] /\ hasIn' = [hasIn EXCEPT ![d] = FALSE]
      /\ resizers' = {} /\ focusin' = None
      /\ UNCHANGED <<backdrop, padWas, display, dom, made, modalOpen, pad>>
  BY DEF D!Hide
<1>2. Up(d)
  BY <1>1, UpBusy DEF OneAtATime, NoneUp, Idle
<1>3. /\ ~isShown'[d] /\ ~hasIn'[d]
      /\ \A e \in Dialog \ {d} : isShown'[e] = isShown[e] /\ hasIn'[e] = hasIn[e]
  BY <1>1 DEF Sound, DialogsTyped
<1>4. \A e \in Dialog \ {d} : Idle(e)'
  <2>1. rash' = {} => rash = {}
    BY DEF D!Hide
  <2> QED
    BY <1>1, <1>2, <1>3, <2>1 DEF Up, Idle
<1>5. ASSUME Opening(d) PROVE Hasty(d)'
  <2>1. PICK l \in 0..1 : pend = {D!Waits("show", d, backdrop[d], 1, l)}
    BY <1>5 DEF Opening
  <2>2. D!Waiting(d, "hideModal") = {} /\ D!Waiting(d, "show") # {}
    <3>1. /\ D!Waits("show", d, backdrop[d], 1, l).what = "show"
          /\ D!Waits("show", d, backdrop[d], 1, l).d = d
      BY DEF D!Waits
    <3>2. \A r \in pend : r.what = "show" /\ r.d = d
      BY <2>1, <3>1
    <3>3. pend # {}
      BY <2>1
    <3> QED
      BY <3>2, <3>3 DEF D!Waiting
  <2>3. pend' = pend \cup {D!Waits("hideModal", d, 0, 1, 2)} /\ rash' # {}
    BY <1>5, <2>2 DEF D!Hide, Opening
  <2>4. pend' = {D!Waits("show", d, backdrop[d], 1, l), D!Waits("hideModal", d, 0, 1, 2)}
    BY <2>1, <2>3
  <2>5. l < 2 /\ 2 \in 1..2
    OBVIOUS
  <2> QED
    BY <1>1, <1>3, <1>5, <2>3, <2>4, <2>5 DEF Hasty, Opening, D!Waits
<1>6. ASSUME Opened(d) PROVE Closing(d)'
  <2>1. D!Waiting(d, "hideModal") = {}
    BY <1>6 DEF D!Waiting, Opened
  <2>2. PICK l \in 1..2 : pend' = pend \cup {D!Waits("hideModal", d, 0, 1, l)}
    BY <2>1 DEF D!Hide
  <2>3. pend' = {D!Waits("hideModal", d, 0, 1, l)} /\ l \in 0..2
    BY <1>6, <2>2 DEF Opened
  <2> QED
    BY <1>1, <1>3, <1>6, <2>3 DEF Closing, Opened, Handlers, D!Waits
<1>7. Opening(d) \/ Opened(d)
  BY <1>1, <1>2 DEF Up, Hasty, Closing, Removing
<1>8. Hasty(d)' \/ Closing(d)'
  BY <1>5, <1>6, <1>7
<1> QED
  BY <1>1, <1>2, <1>4, <1>8 DEF Up

LEMMA ShowCallbackUp ==
  ASSUME Sound, OneAtATime, NEW r \in pend, D!ShowCallback(r)
  PROVE  OneAtATime'
<1>1. /\ r.what = "show" /\ r.left = 0 /\ pend' = pend \ {r}
      /\ display' = [display EXCEPT ![r.d] = TRUE] /\ hasIn' = [hasIn EXCEPT ![r.d] = TRUE]
      /\ focusin' = r.d
      /\ UNCHANGED <<isShown, padWas, rash, backdrop, dom, modalOpen, pad, resizers>>
  BY DEF D!ShowCallback, D!Due, D!steady
<1> SUFFICES ASSUME rash \subseteq {"hasty"} PROVE \E d \in Dialog : Up(d)'
  BY <1>1 DEF OneAtATime
<1>2. PICK d \in Dialog : Up(d)
  BY DEF OneAtATime, NoneUp
<1>3. r.d = d /\ (Opening(d) \/ Hasty(d))
  BY <1>1, <1>2, UpWaits
<1>4. /\ display'[d] /\ hasIn'[d]
      /\ \A e \in Dialog \ {d} : display'[e] = display[e] /\ hasIn'[e] = hasIn[e]
  BY <1>1, <1>3 DEF Sound, DialogsTyped
<1>5. \A e \in Dialog \ {d} : Idle(e)'
  BY <1>1, <1>2, <1>4 DEF Up, Idle
<1>6. ASSUME Opening(d) PROVE Opened(d)'
  <2>1. pend' = {}
    BY <1>1, <1>6 DEF Opening
  <2> QED
    BY <1>1, <1>3, <1>4, <1>6, <2>1 DEF Opening, Opened, Handlers, Sound, DialogsTyped
<1>7. ASSUME Hasty(d) PROVE Closing(d)'
  <2>1. PICK l \in 0..1, h \in 1..2 :
          pend = {D!Waits("show", d, backdrop[d], 1, l), D!Waits("hideModal", d, 0, 1, h)}
    BY <1>7 DEF Hasty
  <2>2. pend' = {D!Waits("hideModal", d, 0, 1, h)} /\ h \in 0..2
    BY <1>1, <2>1 DEF D!Waits
  <2> QED
    BY <1>1, <1>4, <1>7, <2>2 DEF Hasty, Closing, Handlers, D!Waits
<1>8. Opened(d)' \/ Closing(d)'
  BY <1>3, <1>6, <1>7
<1> QED
  BY <1>1, <1>2, <1>5, <1>8 DEF Up

LEMMA HideModalUp ==
  ASSUME Sound, OneAtATime, NEW r \in pend, D!HideModal(r)
  PROVE  OneAtATime'
<1>1. /\ r.what = "hideModal" /\ r.left = 0
      /\ display' = [display EXCEPT ![r.d] = FALSE]
      /\ UNCHANGED <<isShown, padWas, rash, hasIn, focusin, resizers>>
  BY DEF D!HideModal, D!Due, D!steady
<1> SUFFICES ASSUME rash \subseteq {"hasty"} PROVE \E d \in Dialog : Up(d)'
  BY <1>1 DEF OneAtATime
<1>2. PICK d \in Dialog : Up(d)
  BY DEF OneAtATime, NoneUp
<1>3. r.d = d /\ (Hasty(d) \/ Closing(d))
  BY <1>1, <1>2, UpWaits
<1>4. Closing(d)
  BY <1>1, <1>3 DEF Hasty, D!Waits
<1>5. pend = {r} /\ ~isShown[d] /\ backdrop[d] # 0
  BY <1>2, <1>4 DEF Closing, Up
<1>6. /\ pend' = {D!Waits("remove", d, backdrop[d], 1, 1)}
      /\ UNCHANGED <<modalOpen, pad, made, dom, backdrop>>
  BY <1>3, <1>5 DEF D!HideModal, D!KeepBody
<1>7. ~display'[d] /\ \A e \in Dialog \ {d} : display'[e] = display[e]
  BY <1>1, <1>3 DEF Sound, DialogsTyped
<1>8. \A e \in Dialog \ {d} : Idle(e)'
  BY <1>1, <1>2, <1>6, <1>7 DEF Up, Idle
<1>9. Removing(d)'
  BY <1>1, <1>4, <1>6, <1>7 DEF Closing, Removing, Handlers, D!Waits
<1> QED
  BY <1>1, <1>2, <1>6, <1>8, <1>9 DEF Up

LEMMA RemoveUp ==
  ASSUME Sound, OneAtATime, NEW r \in pend, D!RemoveBackdrop(r)
  PROVE  OneAtATime'
<1>1. /\ r.what = "remove" /\ modalOpen' = FALSE /\ pad' = padWas[r.d]
      /\ dom' = dom \ {backdrop[r.d]} /\ backdrop' = [backdrop EXCEPT ![r.d] = 0]
      /\ pend' \subseteq pend \ {r}
      /\ UNCHANGED <<isShown, rash, display, hasIn, focusin, resizers>>
  BY DEF D!RemoveBackdrop, D!Due, D!steady, D!ResetBody
<1> SUFFICES ASSUME rash \subseteq {"hasty"} PROVE NoneUp'
  BY <1>1 DEF OneAtATime
<1>2. PICK d \in Dialog : Up(d)
  BY DEF OneAtATime, NoneUp
<1>3. r.d = d /\ Removing(d)
  BY <1>1, <1>2, UpWaits
<1>4. pend' = {} /\ dom' = {} /\ pad' = 0
  BY <1>1, <1>2, <1>3 DEF Removing, Up
<1>5. backdrop'[d] = 0 /\ \A e \in Dialog \ {d} : backdrop'[e] = backdrop[e]
  BY <1>1, <1>3 DEF Sound, DialogsTyped
<1>6. \A e \in Dialog : Idle(e)'
  BY <1>1, <1>2, <1>3, <1>5 DEF Up, Removing, Idle, Handlers
<1> QED
  BY <1>1, <1>3, <1>4, <1>6 DEF NoneUp, Removing, Handlers

LEMMA HiddenUp ==
  ASSUME OneAtATime, NEW r \in pend, D!Hidden(r)
  PROVE  OneAtATime'
<1>1. r.what = "hidden" /\ rash' = rash
  BY DEF D!Hidden, D!Due, D!steady
<1>2. ~(rash \subseteq {"hasty"})
  BY <1>1, UpWaits DEF OneAtATime, NoneUp
<1> QED
  BY <1>1, <1>2 DEF OneAtATime

LEMMA ElapseUp ==
  ASSUME Sound, OneAtATime, D!Elapse
  PROVE  OneAtATime'
<1>1. /\ UNCHANGED <<isShown, backdrop, padWas, display, hasIn, dom, made, modalOpen, pad,
                     focusin, resizers, rash>>
      /\ pend # {} /\ \A r \in pend : r.left > 0
      /\ pend' = {[r EXCEPT !.left = @ - 1] : r \in pend}
  BY DEF D!Elapse, D!modal, D!body
<1> SUFFICES ASSUME rash \subseteq {"hasty"} PROVE \E d \in Dialog : Up(d)'
  BY <1>1 DEF OneAtATime
<1>2. PICK d \in Dialog : Up(d)
  BY <1>1 DEF OneAtATime, NoneUp
<1>3. \A e \in Dialog \ {d} : Idle(e)'
  BY <1>1, <1>2 DEF Up, Idle
<1>4. \A what, b, l : [D!Waits(what, d, b, 1, l) EXCEPT !.left = @ - 1] = D!Waits(what, d, b, 1, l - 1)
  BY DEF D!Waits
<1>5. \A what, b, l : D!Waits(what, d, b, 1, l).left = l
  BY DEF D!Waits
<1>6. ASSUME NEW what, NEW b, NEW l \in 0..2, pend = {D!Waits(what, d, b, 1, l)}
      PROVE  l - 1 \in 0..1 /\ (l \in 0..1 => l - 1 \in 0..1) /\ pend' = {D!Waits(what, d, b, 1, l - 1)}
  <2> DEFINE w == D!Waits(what, d, b, 1, l)
  <2>1. w.left = l /\ w \in pend /\ [w EXCEPT !.left = @ - 1] = D!Waits(what, d, b, 1, l - 1)
    BY <1>4, <1>5, <1>6
  <2>2. pend = {w}
    BY <1>6
  <2> HIDE DEF w
  <2>3. pend' = {[w EXCEPT !.left = @ - 1]}
    BY <1>1, <2>2
  <2>4. l > 0
    BY <1>1, <2>1
  <2> QED
    BY <2>1, <2>3, <2>4
<1>7. ASSUME Opening(d) PROVE Opening(d)'
  <2>1. PICK l \in 0..1 : pend = {D!Waits("show", d, backdrop[d], 1, l)}
    BY <1>7 DEF Opening
  <2>2. l - 1 \in 0..1 /\ pend' = {D!Waits("show", d, backdrop[d], 1, l - 1)}
    BY <1>6, <2>1
  <2> QED
    BY <1>1, <1>7, <2>2 DEF Opening, Handlers, D!Waits
<1>8. ASSUME Closing(d) PROVE Closing(d)'
  <2>1. PICK l \in 0..2 : pend = {D!Waits("hideModal", d, 0, 1, l)}
    BY <1>8 DEF Closing
  <2>2. l - 1 \in 0..2 /\ pend' = {D!Waits("hideModal", d, 0, 1, l - 1)}
    BY <1>6, <2>1
  <2> QED
    BY <1>1, <1>8, <2>2 DEF Closing, Handlers, D!Waits
<1>9. ASSUME Removing(d) PROVE Removing(d)'
  <2>1. PICK l \in 0..1 : pend = {D!Waits("remove", d, backdrop[d], 1, l)}
    BY <1>9 DEF Removing
  <2>2. l - 1 \in 0..1 /\ pend' = {D!Waits("remove", d, backdrop[d], 1, l - 1)}
    BY <1>6, <2>1
  <2> QED
    BY <1>1, <1>9, <2>2 DEF Removing, Handlers, D!Waits
<1>10. ASSUME Hasty(d) PROVE Hasty(d)'
  <2>1. PICK l \in 0..1, h \in 1..2 :
          l < h /\ pend = {D!Waits("show", d, backdrop[d], 1, l), D!Waits("hideModal", d, 0, 1, h)}
    BY <1>10 DEF Hasty
  <2>2. l > 0 /\ h > 0
    BY <1>1, <1>5, <2>1
  <2>3. pend' = {D!Waits("show", d, backdrop[d], 1, l - 1), D!Waits("hideModal", d, 0, 1, h - 1)}
    <3> DEFINE v == D!Waits("show", d, backdrop[d], 1, l)
               w == D!Waits("hideModal", d, 0, 1, h)
    <3>1. /\ [v EXCEPT !.left = @ - 1] = D!Waits("show", d, backdrop[d], 1, l - 1)
          /\ [w EXCEPT !.left = @ - 1] = D!Waits("hideModal", d, 0, 1, h - 1)
      BY <1>4
    <3>2. pend = {v, w}
      BY <2>1
    <3> HIDE DEF v, w
    <3>3. pend' = {[v EXCEPT !.left = @ - 1], [w EXCEPT !.left = @ - 1]}
      BY <1>1, <3>2
    <3> QED
      BY <3>1, <3>3
  <2>4. l - 1 \in 0..1 /\ h - 1 \in 1..2 /\ l - 1 < h - 1
    BY <2>1, <2>2
  <2> QED
    BY <1>1, <1>10, <2>3, <2>4 DEF Hasty, D!Waits
<1>11. Opening(d)' \/ Hasty(d)' \/ Closing(d)' \/ Removing(d)'
  BY <1>1, <1>2, <1>7, <1>8, <1>9, <1>10 DEF Up, Opened
<1> QED
  BY <1>1, <1>2, <1>3, <1>11 DEF Up

-----------------------------------------------------------------------------
(* The steps of the page.                                                  *)

LEMMA ToggleStep ==
  ASSUME DialogsInv, NEW d \in Dialog, D!Toggle(d)
  PROVE  DialogsInv'
BY ShowSound, ShowUp, HideSound, HideUp DEF D!Toggle, DialogsInv

\* The requests alone change.
LEMMA FrameStep ==
  ASSUME DialogsInv,
         UNCHANGED <<isShown, backdrop, padWas, display, hasIn, dom, made, modalOpen, pad,
                     focusin, resizers, pend, rash>>
  PROVE  DialogsInv'
<1>1. Sound'
  BY DEF DialogsInv, Sound, DialogsTyped, Backdrops, Orphan
<1>2. NoneUp' <=> NoneUp
  BY DEF NoneUp, Idle
<1>3. \A d \in Dialog : Up(d)' <=> Up(d)
  BY DEF Up, Opening, Opened, Hasty, Closing, Removing, Handlers, Idle, D!Waits
<1> QED
  BY <1>1, <1>2, <1>3 DEF DialogsInv, OneAtATime

LEMMA DialogsStep ==
  ASSUME DialogsInv, D!Next \/ UNCHANGED dialogs
  PROVE  DialogsInv'
<1>1. ASSUME NEW d \in Dialog, D!OpenDialog(d) \/ D!Answer(d) PROVE DialogsInv'
  BY <1>1, ToggleStep DEF D!OpenDialog, D!Answer
<1>2. ASSUME NEW d \in Dialog, D!Dismiss(d) PROVE DialogsInv'
  BY <1>2, HideSound, HideUp DEF D!Dismiss, DialogsInv
<1>3. ASSUME NEW d \in Dialog, D!Save(d) \/ D!Fail(d) PROVE DialogsInv'
  BY <1>3, FrameStep DEF D!Save, D!Fail, D!modal, D!body
<1>4. CASE D!Told
  BY <1>4, ToggleStep, WidgetsAssumption DEF D!Told
<1>5. CASE D!Callback
  BY <1>5, CallbackSound, HideModalSound, RemoveSound, ShowCallbackUp, HideModalUp, RemoveUp,
     HiddenUp DEF D!Callback, DialogsInv
<1>6. CASE D!Elapse
  BY <1>6, ElapseSound, ElapseUp DEF DialogsInv
<1>7. CASE UNCHANGED dialogs
  BY <1>7, FrameStep DEF dialogs
<1> QED
  BY <1>1, <1>2, <1>3, <1>4, <1>5, <1>6, <1>7 DEF D!Next

\* On the page that has both, the messages do what they do alone (less, under a
\* backdrop), and the dialogs too.
LEMMA WidgetsStep ==
  ASSUME [WidgetsNext]_<<vars, dialogs>>
  PROVE  [Next]_vars /\ (D!Next \/ UNCHANGED dialogs)
BY DEF WidgetsNext, Messages, Next

-----------------------------------------------------------------------------
(* The page.                                                               *)

\* The inductive invariant of the page: that of its messages and that of its dialogs.
THEOREM WidgetsHold == WidgetsSpec => [](IInv /\ DialogsInv)
<1>1. WidgetsInit => IInv /\ DialogsInv
  BY InitIInv, DialogsInit DEF WidgetsInit
<1>2. IInv /\ DialogsInv /\ [WidgetsNext]_<<vars, dialogs>> => (IInv /\ DialogsInv)'
  BY WidgetsStep, StepIInv, DialogsStep
<1> QED
  BY <1>1, <1>2, PTL DEF WidgetsSpec

\* Modal at rest: no backdrop is left over and the body is as it was, also when
\* a dialog was hidden while it opened.
THEOREM PageIsRestored == WidgetsSpec => []PageRestored
<1>1. DialogsInv => PageRestored
  <2> SUFFICES ASSUME DialogsInv, pend = {}, rash \subseteq {"hasty"}
      PROVE  /\ dom = {backdrop[d] : d \in {d \in Dialog : isShown[d]}}
             /\ modalOpen = ({d \in Dialog : isShown[d]} # {})
             /\ pad = IF {d \in Dialog : isShown[d]} # {} THEN 1 ELSE 0
             /\ \A d \in Dialog : display[d] = isShown[d]
    BY DEF PageRestored, D!PageRestored
  <2>1. isShown \in [Dialog -> BOOLEAN] /\ display \in [Dialog -> BOOLEAN]
    BY DEF DialogsInv, Sound, DialogsTyped
  <2>2. CASE NoneUp
    <3>1. {d \in Dialog : isShown[d]} = {}
      BY <2>2 DEF NoneUp, Idle
    <3> QED
      BY <2>1, <2>2, <3>1 DEF NoneUp, Idle
  <2>3. ASSUME NEW d \in Dialog, Up(d)
        PROVE  /\ dom = {backdrop[e] : e \in {e \in Dialog : isShown[e]}}
               /\ modalOpen = ({e \in Dialog : isShown[e]} # {})
               /\ pad = IF {e \in Dialog : isShown[e]} # {} THEN 1 ELSE 0
               /\ \A e \in Dialog : display[e] = isShown[e]
    <3>1. isShown[d] /\ display[d]
      BY <2>3 DEF Up, Opening, Opened, Hasty, Closing, Removing
    <3>2. {e \in Dialog : isShown[e]} = {d}
      BY <2>3, <3>1 DEF Up, Idle
    <3> QED
      BY <2>1, <2>3, <3>1, <3>2 DEF Up, Idle
  <2> QED
    BY <2>2, <2>3 DEF DialogsInv, OneAtATime
<1> QED
  BY <1>1, WidgetsHold, PTL

\* Modal at rest, with no hide during an opening: the handlers for focus and size
\* are those of the dialog shown, and no other's.
THEOREM HandlersAreRestored == WidgetsSpec => []HandlersRestored
<1>1. DialogsInv => HandlersRestored
  <2> SUFFICES ASSUME DialogsInv, pend = {}, rash = {}
      PROVE  LET up == {d \in Dialog : isShown[d]} IN
             /\ resizers = up /\ \A d \in Dialog : hasIn[d] = isShown[d]
             /\ IF up = {} THEN focusin = None ELSE focusin \in up
    BY DEF HandlersRestored, D!HandlersRestored
  <2>1. isShown \in [Dialog -> BOOLEAN] /\ hasIn \in [Dialog -> BOOLEAN]
    BY DEF DialogsInv, Sound, DialogsTyped
  <2>2. CASE NoneUp
    <3>1. {d \in Dialog : isShown[d]} = {}
      BY <2>2 DEF NoneUp, Idle
    <3> QED
      BY <2>1, <2>2, <3>1 DEF NoneUp, Idle
  <2>3. ASSUME NEW d \in Dialog, Up(d)
        PROVE  LET up == {e \in Dialog : isShown[e]} IN
               /\ resizers = up /\ \A e \in Dialog : hasIn[e] = isShown[e]
               /\ IF up = {} THEN focusin = None ELSE focusin \in up
    <3>1. Opened(d)
      BY <2>3 DEF Up, Opening, Hasty, Closing, Removing
    <3>2. {e \in Dialog : isShown[e]} = {d}
      BY <2>3, <3>1 DEF Up, Idle, Opened
    <3> QED
      BY <2>1, <2>3, <3>1, <3>2 DEF Up, Idle, Opened, Handlers
  <2> QED
    BY <2>2, <2>3 DEF DialogsInv, OneAtATime
<1> QED
  BY <1>1, WidgetsHold, PTL

\* A message under the mouse does not move, on a page with dialogs too.
THEOREM MouseHoldsOnPage == WidgetsSpec => HeldStill
<1>1. IInv /\ [WidgetsNext]_<<vars, dialogs>> =>
        [\A m \in Message : mouse = m /\ mouse' = m => toGo'[m] = toGo[m]]_vars
  BY WidgetsStep, StepIInv
<1> QED
  BY <1>1, WidgetsHold, PTL DEF WidgetsSpec, HeldStill
=============================================================================
