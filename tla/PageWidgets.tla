---------------------------- MODULE PageWidgets ----------------------------
(***************************************************************************)
(* What bootstrap.js and common.js show on one page: its dialogs and the   *)
(* messages that float over it.  They share the screen: a backdrop lies    *)
(* above the messages (z-index 1040, they have none), so while one is in   *)
(* the document the mouse neither comes over a message nor clicks on it,   *)
(* and one that is there goes away.                                        *)
(***************************************************************************)
EXTENDS FloatMessage

CONSTANTS Dialog, Create, MaxToggle, MaxAsk

ASSUME WidgetsAssumption == None \notin Dialog /\ Create \in Dialog /\ MaxToggle \in Nat /\ MaxAsk \in Nat

VARIABLES isShown, backdrop, padWas, display, hasIn,
          dom, made, modalOpen, pad, focusin, resizers,
          pend, asked, asks, toggles, rash

D == INSTANCE Dialogs

dialogs == <<isShown, backdrop, padWas, display, hasIn, dom, made, modalOpen, pad,
             focusin, resizers, pend, asked, asks, toggles, rash>>

Covered == dom # {}

WidgetsInit == Init /\ D!Init

Messages == \E m \in Message :
  \/ Show(m) \/ Timeout(m) \/ Out(m) \/ Float(m)
  \/ ~Covered /\ (Enter(m) \/ Close(m))

WidgetsNext == \/ Messages /\ UNCHANGED dialogs
               \/ D!Next /\ UNCHANGED vars

WidgetsSpec == /\ WidgetsInit /\ [][WidgetsNext]_<<vars, dialogs>>
               /\ Fairness /\ D!Fairness
-----------------------------------------------------------------------------
(* The properties of the dialogs hold on the page that has both.           *)

\* At rest the page is what the dialogs shown make it, no backdrop left over.
PageRestored == D!PageRestored

\* At rest the handlers for focus and size are those of the dialog shown.
HandlersRestored == D!HandlersRestored

\* Every opening and closing of a dialog comes to its end.
TransitionsEnd == D!TransitionsEnd
=============================================================================
