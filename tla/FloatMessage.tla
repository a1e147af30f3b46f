---------------------------- MODULE FloatMessage ----------------------------
(***************************************************************************)
(* The messages that commonUtil.message (common.js) puts on a page: each   *)
(* stays for a while, then an interval moves it up and removes it at the   *)
(* top, unless the mouse holds it; its close button (Alert of bootstrap.js)*)
(* removes it at once, timers or not.                                      *)
(*                                                                         *)
(* The mouse is in one message at most and comes and goes as it likes.     *)
(* A removed element has lost its handlers, its timers go on.              *)
(***************************************************************************)
EXTENDS Integers

CONSTANTS Message, None,
          FloatSpace   \* 60 pixels

ASSUME FloatAssumption == None \notin Message /\ FloatSpace \in Nat

VARIABLES
  place,    \* "new", then "shown" until the timer of 1500 ms has run, then "late"
  inPage,   \* the element is in the document, with its handlers
  isIn,     \* what mouseover and mouseout have noted before
  toGo,     \* nowTop - stopTop
  upFloat,  \* the interval whose handle is in upFloat runs
  lost,     \* intervals that run with their handle overwritten
  mouse     \* the message under the mouse

vars == <<place, inPage, isIn, toGo, upFloat, lost, mouse>>

Init ==
  /\ place = [m \in Message |-> "new"] /\ inPage = [m \in Message |-> FALSE]
  /\ isIn = [m \in Message |-> FALSE] /\ toGo = [m \in Message |-> FloatSpace]
  /\ upFloat = [m \in Message |-> FALSE] /\ lost = [m \in Message |-> 0]
  /\ mouse = None

Show(m) ==
  /\ place[m] = "new"
  /\ place' = [place EXCEPT ![m] = "shown"]
  /\ inPage' = [inPage EXCEPT ![m] = TRUE]
  /\ UNCHANGED <<isIn, toGo, upFloat, lost, mouse>>

\* setInterval: the handle of one that runs is overwritten.
SetInterval(m) == /\ upFloat' = [upFloat EXCEPT ![m] = TRUE]
                  /\ lost' = [lost EXCEPT ![m] = @ + (IF upFloat[m] THEN 1 ELSE 0)]
ClearInterval(m) == upFloat' = [upFloat EXCEPT ![m] = FALSE] /\ UNCHANGED lost

\* Seeded fault: the timer does not look where the mouse is.
Timeout_Blind(m) ==
  /\ place[m] = "shown"
  /\ place' = [place EXCEPT ![m] = "late"]
  /\ SetInterval(m)
  /\ UNCHANGED <<inPage, isIn, toGo, mouse>>

\* The timer starts to float the message, and stops again under the mouse.
Timeout(m) ==
  /\ place[m] = "shown"
  /\ place' = [place EXCEPT ![m] = "late"]
  /\ IF isIn[m] THEN UNCHANGED <<upFloat, lost>> ELSE SetInterval(m)
  /\ UNCHANGED <<inPage, isIn, toGo, mouse>>

Enter(m) ==
  /\ mouse = None /\ inPage[m]
  /\ mouse' = m
  /\ isIn' = [isIn EXCEPT ![m] = TRUE]
  /\ IF place[m] = "late" THEN ClearInterval(m) ELSE UNCHANGED <<upFloat, lost>>
  /\ UNCHANGED <<place, inPage, toGo>>

\* Seeded fault: leaving does not take the floating up again.
Out_Stays(m) ==
  /\ mouse = m /\ inPage[m]
  /\ mouse' = None
  /\ isIn' = [isIn EXCEPT ![m] = FALSE]
  /\ UNCHANGED <<place, inPage, toGo, upFloat, lost>>

Out(m) ==
  /\ mouse = m /\ inPage[m]
  /\ mouse' = None
  /\ isIn' = [isIn EXCEPT ![m] = FALSE]
  /\ IF place[m] = "late" THEN SetInterval(m) ELSE UNCHANGED <<upFloat, lost>>
  /\ UNCHANGED <<place, inPage, toGo>>

\* The element goes: the mouse is over something else, and no handler runs.
RemoveElement(m) == /\ inPage' = [inPage EXCEPT ![m] = FALSE]
                    /\ mouse' = IF mouse = m THEN None ELSE mouse

\* One turn of an interval; at the top it clears the handle it finds.
Float(m) ==
  /\ upFloat[m] \/ lost[m] > 0
  /\ IF toGo[m] >= 0
     THEN toGo' = [toGo EXCEPT ![m] = @ - 1] /\ UNCHANGED <<inPage, mouse, upFloat, lost>>
     ELSE RemoveElement(m) /\ ClearInterval(m) /\ UNCHANGED toGo
  /\ UNCHANGED <<place, isIn>>

\* A click on the close button: the message has no class fade, so there is no
\* transition to wait for.
Close(m) ==
  /\ mouse = m /\ inPage[m]
  /\ RemoveElement(m)
  /\ UNCHANGED <<place, isIn, toGo, upFloat, lost>>

Next == \E m \in Message :
  Show(m) \/ Timeout(m) \/ Enter(m) \/ Out(m) \/ Float(m) \/ Close(m)

\* The browser runs timers that are due.
Fairness == \A m \in Message : WF_vars(Timeout(m)) /\ WF_vars(Float(m))

Spec == Init /\ [][Next]_vars /\ Fairness

-----------------------------------------------------------------------------
TypeOK ==
  /\ place \in [Message -> {"new", "shown", "late"}]
  /\ inPage \in [Message -> BOOLEAN] /\ isIn \in [Message -> BOOLEAN]
  /\ toGo \in [Message -> -1..FloatSpace]
  /\ upFloat \in [Message -> BOOLEAN] /\ lost \in [Message -> Nat]
  /\ mouse \in Message \cup {None}

\* No interval is started over one that runs: none is lost, and a message
\* floats at one speed however often the mouse comes and goes.
NoneLost == \A m \in Message : lost[m] = 0

\* A message under the mouse stays where it is (unless it is closed), also when
\* the mouse was there before the timer ran.
HeldStill == [][\A m \in Message : mouse = m /\ mouse' = m => toGo'[m] = toGo[m]]_vars

\* A message that the mouse leaves for good, or that is closed, is gone in the
\* end, and so are its timer and its interval.
GoesAway == \A m \in Message : place[m] # "new" /\ mouse # m ~>
  \/ mouse = m
  \/ place[m] = "late" /\ ~inPage[m] /\ ~upFloat[m] /\ lost[m] = 0

\* Which timers run follows from the place, the document and the mouse.
IInv == TypeOK /\ \A m \in Message :
  /\ lost[m] = 0
  /\ mouse = m => inPage[m] /\ isIn[m] /\ ~upFloat[m]
  /\ upFloat[m] => place[m] = "late" /\ (inPage[m] => ~isIn[m])
  /\ inPage[m] => (isIn[m] <=> mouse = m)
  /\ place[m] = "new" => ~inPage[m] /\ ~isIn[m]
=============================================================================
