------------------------------- MODULE Dialogs -------------------------------
(***************************************************************************)
(* The dialogs of dialog.ts.  A message box may be given an AbortSignal    *)
(* that closes it.  On Windows (message_box_win.cc) the box lives on a     *)
(* thread of its own: an abort comes before its window exists, while it is *)
(* shown, or when the user has already answered; the answer returns to the *)
(* UI thread as a task, which settles the promise.                         *)
(***************************************************************************)
EXTENDS Integers, Sequences, SequencesExt

CONSTANTS
  Signals,      \* the AbortSignals
  BoxOptions,   \* what boxes are shown with: see IsBoxOptions
  MaxBoxes      \* bound: dialogs shown

(* cancelId is -1 where it is not given; wrong: an option has a wrong type *)
(* or a checkbox has no label; noLink: every button is a custom one.       *)
IsBoxOptions(o) ==
  /\ o.buttons \in Seq({"ok", "cancel", "no", "other"})
  /\ o.defaultId \in Int /\ o.cancelId \in Int
  /\ o.noLink \in BOOLEAN /\ o.wrong \in BOOLEAN

ASSUME DialogAssumption ==
  MaxBoxes \in Nat /\ \A o \in BoxOptions : IsBoxOptions(o)

VARIABLES
  appReady,
  aborted,     \* the signals that are aborted
  nextId,      \* the counter of the message boxes that have a signal
  boxes,       \* the dialogs, in order
  listeners,   \* the abort listeners: <<signal, id>>
  dialogsMap,  \* the map of the native side, id to box
  misused      \* a closed or cancelled box was closed again (DCHECK)

dialogVars == <<appReady, aborted, nextId, boxes, listeners, dialogsMap, misused>>

NoSignal == "none"

DialogsInit ==
  /\ appReady = FALSE /\ aborted = {} /\ nextId = 0 /\ boxes = <<>>
  /\ listeners = {} /\ dialogsMap = <<>> /\ misused = FALSE

BecomeReady ==
  /\ ~appReady /\ appReady' = TRUE
  /\ UNCHANGED <<aborted, nextId, boxes, listeners, dialogsMap, misused>>
-----------------------------------------------------------------------------
(* The button that stands for a cancelled box, counted from 0.             *)
ChooseCancelId(o) ==
  LET named == {k \in DOMAIN o.buttons : o.buttons[k] \in {"cancel", "no"}} IN
  CASE o.cancelId # -1 -> o.cancelId
    [] named # {} -> (CHOOSE k \in named : \A l \in named : k <= l) - 1
    [] OTHER -> IF o.defaultId = 0 /\ Len(o.buttons) > 1 THEN 1 ELSE 0

(* What TaskDialogIndirect makes of the close button, Escape and WM_CLOSE: *)
(* the common Cancel button if the box has one, else the cancelId.         *)
Cancelled(box) ==
  LET common == {k \in DOMAIN box.buttons : box.buttons[k] = "cancel"} IN
  IF ~box.noLink /\ common # {} THEN (CHOOSE k \in common : \A l \in common : k >= l) - 1
  ELSE box.cancelId

(* thread: what the dialog thread does, hwnd: what both threads see under  *)
(* the lock; byUser: the user answered; settled: the promise is.           *)
Box(o, signal, id) ==
  [kind |-> "message", buttons |-> o.buttons, noLink |-> o.noLink,
   cancelId |-> ChooseCancelId(o), signal |-> signal, id |-> id, thread |-> "starts",
   hwnd |-> "reserved", closing |-> FALSE, byUser |-> FALSE, answer |-> -1, settled |-> FALSE]

(* saveDialog and openDialog, in which only the checks differ.             *)
FileDialog(kind) ==
  /\ appReady /\ Len(boxes) < MaxBoxes
  /\ boxes' = Append(boxes,
       [Box([buttons |-> <<>>, defaultId |-> -1, cancelId |-> -1, noLink |-> FALSE], NoSignal, 0)
          EXCEPT !.kind = kind])
  /\ UNCHANGED <<appReady, aborted, nextId, listeners, dialogsMap, misused>>

(* messageBox throws before the application is ready, and for options of a *)
(* wrong type.  If its signal is aborted it only takes an id: the promise  *)
(* resolves with cancelId and shows nothing.                               *)
MessageBox(o, signal) ==
  /\ appReady /\ ~o.wrong /\ Len(boxes) < MaxBoxes
  /\ LET id == IF signal = NoSignal THEN 0 ELSE nextId + 1
         box == Box(o, signal, id)
     IN  /\ nextId' = IF id = 0 THEN nextId ELSE id
         /\ IF signal \in aborted
            THEN /\ boxes' = Append(boxes, [box EXCEPT !.thread = "never", !.settled = TRUE])
                 /\ UNCHANGED <<listeners, dialogsMap>>
            ELSE /\ boxes' = Append(boxes, box)
                 /\ listeners' = IF id = 0 THEN listeners ELSE listeners \cup {<<signal, id>>}
                 /\ dialogsMap' = IF id = 0 THEN dialogsMap
                                  ELSE [i \in DOMAIN dialogsMap \cup {id} |->
                                          IF i = id THEN Len(boxes) + 1 ELSE dialogsMap[i]]
  /\ UNCHANGED <<appReady, aborted, misused>>

(* CloseMessageBox, which the listeners of the signal call: a box that has *)
(* no window yet is marked, one that has is sent WM_CLOSE.                 *)
CloseMessageBox(box) ==
  IF box.hwnd = "reserved" THEN [box EXCEPT !.hwnd = "cancel"]
  ELSE [box EXCEPT !.closing = TRUE]

FaultyAbort(signal) ==  \* every listener closes the latest id
  LET closed == {dialogsMap[i] : i \in {x \in DOMAIN dialogsMap :
                   x = nextId /\ \E l \in listeners : l[1] = signal}}
  IN  /\ signal \notin aborted /\ aborted' = aborted \cup {signal}
      /\ misused' = (misused \/ \E b \in closed : boxes[b].hwnd = "cancel")
      /\ boxes' = [b \in DOMAIN boxes |->
                     IF b \in closed THEN CloseMessageBox(boxes[b]) ELSE boxes[b]]
      /\ UNCHANGED <<appReady, nextId, listeners, dialogsMap>>

Abort(signal) ==
  LET closed == {dialogsMap[l[2]] : l \in {x \in listeners :
                   x[1] = signal /\ x[2] \in DOMAIN dialogsMap}}
  IN  /\ signal \notin aborted /\ aborted' = aborted \cup {signal}
      /\ misused' = (misused \/ \E b \in closed : boxes[b].hwnd = "cancel")
      /\ boxes' = [b \in DOMAIN boxes |->
                     IF b \in closed THEN CloseMessageBox(boxes[b]) ELSE boxes[b]]
      /\ UNCHANGED <<appReady, nextId, listeners, dialogsMap>>
-----------------------------------------------------------------------------
(* TDN_CREATED, on the dialog thread.                                      *)
TaskDialogCreated(b) ==
  /\ boxes[b].thread = "starts"
  /\ boxes' = [boxes EXCEPT ![b].thread = "shown",
                 ![b].hwnd = IF @ = "reserved" THEN "window" ELSE @,
                 ![b].closing = @ \/ boxes[b].hwnd = "cancel"]
  /\ UNCHANGED <<appReady, aborted, nextId, listeners, dialogsMap, misused>>

(* TaskDialogIndirect returns: a button, or a cancelled box.               *)
Answered(b, answer, byUser) ==
  /\ boxes[b].thread = "shown"
  /\ boxes' = [boxes EXCEPT ![b].thread = "answered", ![b].answer = answer, ![b].byUser = byUser]
  /\ UNCHANGED <<appReady, aborted, nextId, listeners, dialogsMap, misused>>

UserAnswers(b) ==
  \/ \E k \in DOMAIN boxes[b].buttons : Answered(b, k - 1, TRUE)
  \/ Answered(b, Cancelled(boxes[b]), TRUE)
Closes(b) == boxes[b].closing /\ Answered(b, Cancelled(boxes[b]), FALSE)

(* The task that brings the result to the UI thread.                       *)
Done(b) ==
  /\ boxes[b].thread = "answered"
  /\ boxes' = [boxes EXCEPT ![b].thread = "over", ![b].settled = TRUE]
  /\ dialogsMap' = [i \in DOMAIN dialogsMap \ {boxes[b].id} |-> dialogsMap[i]]
  /\ UNCHANGED <<appReady, aborted, nextId, listeners, misused>>

DialogsNext ==
  \/ BecomeReady
  \/ \E kind \in {"open", "save"} : FileDialog(kind)
  \/ \E o \in BoxOptions, signal \in Signals \cup {NoSignal} : MessageBox(o, signal)
  \/ \E signal \in Signals : Abort(signal)
  \/ \E b \in DOMAIN boxes :
       TaskDialogCreated(b) \/ UserAnswers(b) \/ Closes(b) \/ Done(b)

(* The dialog threads run, and the UI thread runs their tasks; nothing     *)
(* makes a user answer.                                                    *)
DialogsSpec ==
  /\ DialogsInit /\ [][DialogsNext]_dialogVars
  /\ \A b \in 1..MaxBoxes :
       WF_dialogVars(b \in DOMAIN boxes /\ (TaskDialogCreated(b) \/ Closes(b) \/ Done(b)))
-----------------------------------------------------------------------------
(* message_box_win.cc:338 asserts that a box that waits to be cancelled is *)
(* not cancelled again; and an abort closes the boxes of its signal only,  *)
(* also if the ids of earlier boxes are still in its listeners.            *)
ClosesItsOwn ==
  /\ ~misused
  /\ \A b \in DOMAIN boxes :
       boxes[b].closing \/ boxes[b].hwnd = "cancel" => boxes[b].signal \in aborted

(* dialog.d.ts:35: wherever the abort meets the dialog thread, the box     *)
(* answers what the user has chosen before, or what cancelling it would    *)
(* have answered.                                                          *)
AbortIsCancel ==
  \A b \in DOMAIN boxes :
    boxes[b].settled /\ boxes[b].thread # "never" /\ ~boxes[b].byUser =>
      boxes[b].answer = Cancelled(boxes[b]) /\ boxes[b].signal \in aborted

(* An abort closes the boxes of its signal, as if they were cancelled.     *)
AbortsCancel == ClosesItsOwn /\ AbortIsCancel

(* The promise of a box whose signal is aborted settles, whatever the user *)
(* does.                                                                   *)
AbortedBoxEnds ==
  \A b \in 1..MaxBoxes :
    (b \in DOMAIN boxes /\ boxes[b].signal \in aborted)
      ~> (b \in DOMAIN boxes /\ boxes[b].settled)
=============================================================================
