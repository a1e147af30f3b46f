------------------------------- MODULE Dialogs -------------------------------
(***************************************************************************)
(* The dialogs of the chat page: Modal of bootstrap.js, which opens and    *)
(* closes one in steps that wait for transitions, and the callbacks of the *)
(* page that toggle it when the answer to its request comes (group.js,     *)
(* game.js properties, chat.js message 4).                                 *)
(*                                                                         *)
(* What waits for a transition is a record of pend: what is to be done,    *)
(* for which dialog, on which backdrop, and in how many units of 150 ms,   *)
(* the time of a backdrop; a dialog's own takes one or two (its opacity    *)
(* may end it before emulateTransitionEnd does).  Every dialog of the page *)
(* has the class fade, and the browser has transitions.                    *)
(*                                                                         *)
(* rash is a history variable, read by no code: the toggles that came at a *)
(* bad moment.                                                             *)
(***************************************************************************)
EXTENDS Integers

CONSTANTS Dialog, None,
          Create,              \* the dialog that makes a group, #myModal
          MaxToggle, MaxAsk    \* bounds: shows and hides, requests of anybody

VARIABLES
  isShown,    \* field of each Modal
  backdrop,   \* the number of its $backdrop, 0 for null
  padWas,     \* its originalBodyPad
  display,    \* the dialog's element is displayed
  hasIn,      \* and has the class in
  dom,        \* the backdrops in the document
  modalOpen,  \* the body has the class modal-open
  pad,        \* and is padded for a scroll bar
  focusin,    \* the dialog that draws the focus to itself
  resizers,   \* those that listen to the window's size
  pend,
  made,       \* backdrops made so far
  asked,      \* requests under way
  toggles, asks, rash

modal == <<isShown, backdrop, padWas, display, hasIn>>
body == <<dom, made, modalOpen, pad, focusin, resizers>>
page == <<asked, asks>>
vars == <<modal, body, pend, page, toggles, rash>>

Init ==
  /\ isShown = [d \in Dialog |-> FALSE] /\ backdrop = [d \in Dialog |-> 0]
  /\ padWas = [d \in Dialog |-> 0]
  /\ display = [d \in Dialog |-> FALSE] /\ hasIn = [d \in Dialog |-> FALSE]
  /\ dom = {} /\ made = 0 /\ modalOpen = FALSE /\ pad = 0 /\ focusin = None /\ resizers = {}
  /\ pend = {} /\ asked = [d \in Dialog |-> 0]
  /\ toggles = 0 /\ asks = 0 /\ rash = {}

\* Work that waits: for the backdrop to be in (show), for the dialog to be gone
\* (hideModal, n of them), for the backdrop to be out (remove), or for a
\* backdrop that hideModal made for a dialog shown again (hidden).
Waits(what, d, b, n, left) == [what |-> what, d |-> d, b |-> b, n |-> n, left |-> left]
Waiting(d, what) == {r \in pend : r.d = d /\ r.what = what}
Busy(d) == isShown[d] \/ \E r \in pend : r.d = d

Show(d) ==
  /\ ~isShown[d] /\ toggles < MaxToggle
  /\ toggles' = toggles + 1
  /\ isShown' = [isShown EXCEPT ![d] = TRUE]
  /\ padWas' = [padWas EXCEPT ![d] = pad]
  /\ pad' = IF modalOpen THEN pad ELSE pad + 1   \* below a dialog no scroll bar
  /\ modalOpen' = TRUE
  /\ resizers' = resizers \cup {d}
  /\ made' = made + 1 /\ dom' = dom \cup {made + 1}
  /\ backdrop' = [backdrop EXCEPT ![d] = made + 1]
  /\ pend' = pend \cup {Waits("show", d, made + 1, 1, 1)}
  /\ rash' = rash \cup (IF Busy(d) THEN {"reshown"} ELSE {})
                  \cup (IF \E e \in Dialog \ {d} : Busy(e) THEN {"stacked"} ELSE {})
  /\ UNCHANGED <<display, hasIn, focusin>>

\* Seeded fault: focus and resize handlers stay.
Hide_Listens(d) ==
  /\ isShown[d] /\ toggles < MaxToggle
  /\ toggles' = toggles + 1
  /\ isShown' = [isShown EXCEPT ![d] = FALSE]
  /\ hasIn' = [hasIn EXCEPT ![d] = FALSE]
  /\ pend' = pend \cup {Waits("hideModal", d, 0, 1, 2)}
  /\ rash' = rash
  /\ UNCHANGED <<backdrop, padWas, display, dom, made, modalOpen, pad, resizers, focusin>>

\* Focus and resize handlers are removed whoever's they are.
Hide(d) ==
  /\ isShown[d] /\ toggles < MaxToggle
  /\ toggles' = toggles + 1
  /\ isShown' = [isShown EXCEPT ![d] = FALSE]
  /\ hasIn' = [hasIn EXCEPT ![d] = FALSE]
  /\ resizers' = {} /\ focusin' = None
  /\ pend' \in LET H == Waiting(d, "hideModal") IN
               {(pend \ H) \cup {Waits("hideModal", d, 0, r.n + 1, r.left)} : r \in H}
               \cup {pend \cup {Waits("hideModal", d, 0, 1, left)} :
                       left \in IF H # {} THEN {} ELSE IF display[d] /\ hasIn[d] THEN 1..2 ELSE {2}}
  /\ rash' = rash \cup (IF Waiting(d, "show") # {} THEN {"hasty"} ELSE {})
  /\ UNCHANGED <<backdrop, padWas, display, dom, made, modalOpen, pad>>

Toggle(d) == IF isShown[d] THEN Hide(d) ELSE Show(d)

-----------------------------------------------------------------------------
Due(r, what) == r \in pend /\ r.what = what /\ r.left = 0
steady == <<isShown, padWas, page, toggles, rash>>

\* Seeded fault: the callback stays bound to the transition.
ShowCallback_On(r) ==
  /\ Due(r, "show")
  /\ pend' = (pend \ {r}) \cup {[r EXCEPT !.left = 2]}
  /\ display' = [display EXCEPT ![r.d] = TRUE]
  /\ hasIn' = [hasIn EXCEPT ![r.d] = TRUE]
  /\ focusin' = r.d
  /\ UNCHANGED <<steady, backdrop, dom, made, modalOpen, pad, resizers>>

\* The backdrop is in: the dialog itself comes.
ShowCallback(r) ==
  /\ Due(r, "show")
  /\ pend' = pend \ {r}
  /\ display' = [display EXCEPT ![r.d] = TRUE]
  /\ hasIn' = [hasIn EXCEPT ![r.d] = TRUE]
  /\ focusin' = r.d
  /\ UNCHANGED <<steady, backdrop, dom, made, modalOpen, pad, resizers>>

ResetBody(d) == modalOpen' = FALSE /\ pad' = padWas[d]
KeepBody == UNCHANGED <<modalOpen, pad>>

\* The dialog is gone.  backdrop() goes by isShown: it lets a backdrop fade, or
\* makes one more for a dialog that was shown again meanwhile.
HideModal(r) ==
  /\ Due(r, "hideModal")
  /\ display' = [display EXCEPT ![r.d] = FALSE]
  /\ IF isShown[r.d]
     THEN LET new == made + 1 .. made + r.n IN
          /\ made' = made + r.n /\ dom' = dom \cup new
          /\ backdrop' = [backdrop EXCEPT ![r.d] = made + r.n]
          /\ pend' = (pend \ {r}) \cup {Waits("hidden", r.d, b, 1, 1) : b \in new}
          /\ KeepBody
     ELSE /\ IF backdrop[r.d] # 0
             THEN pend' = (pend \ {r}) \cup {Waits("remove", r.d, backdrop[r.d], 1, 1)} /\ KeepBody
             ELSE pend' = pend \ {r} /\ ResetBody(r.d)
          /\ UNCHANGED <<made, dom, backdrop>>
  /\ UNCHANGED <<steady, hasIn, focusin, resizers>>

\* Seeded fault: the backdrop stays in the document.
RemoveBackdrop_Leaves(r) ==
  /\ Due(r, "remove")
  /\ ResetBody(r.d)
  /\ backdrop' = [backdrop EXCEPT ![r.d] = 0]
  /\ pend' = pend \ {r}
  /\ UNCHANGED <<steady, dom, display, hasIn, made, focusin, resizers>>

\* The backdrop removed is the one the field names now, with its handlers.
RemoveBackdrop(r) ==
  /\ Due(r, "remove")
  /\ ResetBody(r.d)
  /\ dom' = dom \ {backdrop[r.d]}
  /\ backdrop' = [backdrop EXCEPT ![r.d] = 0]
  /\ pend' = {q \in pend \ {r} : backdrop[r.d] = 0 \/ q.b # backdrop[r.d]}
  /\ UNCHANGED <<steady, display, hasIn, made, focusin, resizers>>

Hidden(r) ==
  /\ Due(r, "hidden")
  /\ ResetBody(r.d)
  /\ pend' = pend \ {r}
  /\ UNCHANGED <<steady, backdrop, display, hasIn, dom, made, focusin, resizers>>

Callback == \E r \in pend : ShowCallback(r) \/ HideModal(r) \/ RemoveBackdrop(r) \/ Hidden(r)

\* 150 ms pass; what is due is done first.
Elapse ==
  /\ pend # {} /\ \A r \in pend : r.left > 0
  /\ pend' = {[r EXCEPT !.left = @ - 1] : r \in pend}
  /\ UNCHANGED <<modal, body, page, toggles, rash>>

-----------------------------------------------------------------------------
\* A link of the page.  A backdrop keeps the mouse from it, and not the keyboard:
\* the link keeps the focus until the dialog is in, and may be pressed again.
OpenDialog(d) == Toggle(d) /\ UNCHANGED page

\* The close button, the backdrop or the escape key.
Dismiss(d) == display[d] /\ Hide(d) /\ UNCHANGED page

\* The button of the dialog sends its request, as often as it is pressed.
Save(d) ==
  /\ display[d] /\ asks < MaxAsk
  /\ asks' = asks + 1
  /\ asked' = [asked EXCEPT ![d] = @ + 1]
  /\ UNCHANGED <<modal, body, pend, toggles, rash>>

\* The answer toggles the dialog, if it is a good one, as it stands by then: one
\* that the user dismissed meanwhile is opened again.
Answer(d) ==
  /\ asked[d] > 0
  /\ asked' = [asked EXCEPT ![d] = @ - 1]
  /\ Toggle(d)
  /\ UNCHANGED asks

\* Somebody else made a group with this user in it: message 4 toggles the dialog
\* here as on the page of the one who made it.
Told == /\ asks < MaxAsk /\ asks' = asks + 1
        /\ Toggle(Create)
        /\ UNCHANGED asked

Fail(d) ==
  /\ asked[d] > 0
  /\ asked' = [asked EXCEPT ![d] = @ - 1]
  /\ UNCHANGED <<modal, body, pend, toggles, rash, asks>>

Next == \/ \E d \in Dialog : OpenDialog(d) \/ Dismiss(d) \/ Save(d) \/ Answer(d) \/ Fail(d)
        \/ Told \/ Callback \/ Elapse

\* The browser's timers go off and their callbacks run.
Fairness == WF_vars(Elapse) /\ WF_vars(Callback)

Spec == Init /\ [][Next]_vars /\ Fairness

-----------------------------------------------------------------------------
\* Nothing waits: the page is what the dialogs shown make it.  One backdrop for
\* each, none left over (it would cover the page for good), the body's class and
\* padding as before, unless a dialog was shown while it or another was shown or
\* still closing.  A hide during the opening does no harm here.
PageRestored == pend = {} /\ rash \subseteq {"hasty"} =>
  LET up == {d \in Dialog : isShown[d]} IN
  /\ dom = {backdrop[d] : d \in up}
  /\ modalOpen = (up # {})
  /\ pad = IF up # {} THEN 1 ELSE 0
  /\ \A d \in Dialog : display[d] = isShown[d]

\* And with no hide during an opening either, the handlers for focus and size
\* and the class in belong to the dialog that is shown.
HandlersRestored == pend = {} /\ rash = {} =>
  LET up == {d \in Dialog : isShown[d]} IN
  /\ resizers = up /\ \A d \in Dialog : hasIn[d] = isShown[d]
  /\ IF up = {} THEN focusin = None ELSE focusin \in up

\* Every opening and closing comes to its end.
TransitionsEnd == pend # {} ~> pend = {}
=============================================================================
