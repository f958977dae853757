--------------------------- MODULE NativeFullscreen ---------------------------
(***************************************************************************)
(* The fullscreen transitions of a window on macOS: NativeWindowMac        *)
(* (SetFullScreen, HandlePendingFullscreenTransitions, CloseImmediately)   *)
(* and LynxNSWindowDelegate.                                               *)
(*                                                                         *)
(* AppKit animates a transition and reports its end later.  A request made *)
(* meanwhile goes to a queue, and a close is put off; when the transition  *)
(* ends the window's listeners are called first, then the close that was   *)
(* put off or the next request of the queue is handled.  The listeners may *)
(* make requests themselves, at a moment when no transition is recorded.   *)
(*                                                                         *)
(* A definition named Faulty... is a wrong version of the one after it,    *)
(* kept to show that the properties tell the two apart.                    *)
(***************************************************************************)
EXTENDS Integers, Sequences, SequencesExt

CONSTANTS
    MaxCalls,     \* bound: calls by JavaScript and clicks by the user
    Repeats,      \* whether JavaScript asks for what it asked for last
    InListeners,  \* whether the listeners of the transitions make requests
    Simple        \* whether JavaScript uses simple fullscreen

ASSUME ConstantsAssumption ==
    /\ MaxCalls \in Nat
    /\ Repeats \in BOOLEAN /\ InListeners \in BOOLEAN /\ Simple \in BOOLEAN

VARIABLES
    state,           \* fullscreen_transition_state_
    pending,         \* pending_transitions_, the next request first
    deferred_close,  \* deferred_close_
    simple,          \* is_simple_fullscreen_
    open,            \* the window has not been closed
    toggles,         \* toggleFullScreen: calls AppKit will make
    animating,       \* AppKit is in a transition
    fullscreen,      \* the style mask says fullscreen
    listening,       \* the listeners of a transition's end are running
    last,            \* history: what was asked for last
    calls            \* calls and clicks left

requests == <<state, pending>>
appkit == <<toggles, animating, fullscreen>>
close == <<open, deferred_close>>
vars == <<requests, appkit, close, simple, listening, last, calls>>

TypeOK ==
    /\ state \in {"NONE", "ENTERING", "EXITING"}
    /\ pending \in Seq(BOOLEAN)
    /\ deferred_close \in BOOLEAN
    /\ simple \in BOOLEAN
    /\ open \in BOOLEAN
    /\ toggles \in Nat
    /\ animating \in BOOLEAN
    /\ fullscreen \in BOOLEAN
    /\ listening \in BOOLEAN
    /\ last \in BOOLEAN
    /\ calls \in 0 .. MaxCalls

Init ==
    /\ state = "NONE"
    /\ pending = <<>>
    /\ deferred_close = FALSE
    /\ simple = FALSE
    /\ open = TRUE
    /\ toggles = 0
    /\ animating = FALSE
    /\ fullscreen = FALSE
    /\ listening = FALSE
    /\ last = FALSE
    /\ calls = MaxCalls

-------------------------------------------------------------------------------
(* NativeWindowMac.                                                        *)

Toward(target) == IF target THEN "ENTERING" ELSE "EXITING"

\* Request target when queue holds the requests that wait.  The state is set
\* here and not only in windowWillEnterFullScreen, or another request could be
\* made in between.
FaultyRequest(target, queue) ==
    /\ pending' = IF state # "NONE" THEN Append(queue, target) ELSE queue
    /\ toggles' = IF state = "NONE" /\ target # fullscreen
                  THEN toggles + 1 ELSE toggles
    /\ UNCHANGED <<state, simple>>

Request(target, queue) ==
    IF simple
    THEN /\ simple' = target
         /\ state' = "NONE"
         /\ pending' = <<>>
         /\ UNCHANGED toggles
    ELSE /\ UNCHANGED simple
         /\ pending' = IF state # "NONE" /\ (queue = <<>> \/ Last(queue) # target)
                       THEN Append(queue, target)
                       ELSE queue
         /\ IF state = "NONE" /\ target # fullscreen
            THEN state' = Toward(target) /\ toggles' = toggles + 1
            ELSE UNCHANGED <<state, toggles>>

FaultyHandlePending ==
    IF pending = <<>>
    THEN state' = "NONE" /\ UNCHANGED <<pending, simple, toggles>>
    ELSE Request(Head(pending), pending)

HandlePendingFullscreenTransitions ==
    IF pending = <<>>
    THEN state' = "NONE" /\ UNCHANGED <<pending, simple, toggles>>
    ELSE Request(Head(pending), Tail(pending))

CloseImmediately ==
    /\ open' = (state # "NONE")
    /\ deferred_close' = (state # "NONE")

-------------------------------------------------------------------------------
(* JavaScript and the user.                                                *)

Spend == calls > 0 /\ calls' = calls - 1

\* JavaScript runs in an ordinary callback, or in a listener.
InJs == open /\ (listening => InListeners)

SetFullScreen(target) ==
    /\ InJs /\ Spend
    /\ Repeats \/ target # last
    /\ last' = target
    /\ Request(target, pending)
    /\ UNCHANGED <<close, animating, fullscreen, listening>>

SetSimpleFullScreen(target) ==
    /\ Simple /\ InJs /\ Spend
    /\ simple' = target
    /\ last' = target
    /\ UNCHANGED <<requests, appkit, close, listening>>

\* close() or destroy(); a listener that closes its own window is left to
\* AppLifecycle.
Close ==
    /\ InJs /\ ~listening /\ Spend
    /\ CloseImmediately
    /\ UNCHANGED <<requests, appkit, simple, listening, last>>

\* The green button toggles, unless AppKit is busy.  A window in simple
\* fullscreen has no title bar.
UserToggles ==
    /\ open /\ ~listening /\ ~animating /\ ~simple /\ Spend
    /\ animating' = TRUE
    /\ state' = Toward(~fullscreen)
    /\ last' = IF state = "NONE" THEN ~fullscreen ELSE last
    /\ UNCHANGED <<pending, close, simple, toggles, fullscreen, listening>>

-------------------------------------------------------------------------------
(* AppKit and its delegate.                                                *)

\* The scheduled toggleFullScreen: has no effect on a window in transition.
\* windowWillEnterFullScreen and windowWillExitFullScreen record the state.
Toggle ==
    /\ open /\ ~listening /\ toggles > 0
    /\ toggles' = toggles - 1
    /\ animating' = TRUE
    /\ state' = IF animating THEN state ELSE Toward(~fullscreen)
    /\ UNCHANGED <<pending, close, simple, fullscreen, listening, last, calls>>

\* windowDidEnterFullScreen, windowDidExitFullScreen, up to the listeners.  A
\* scheduled toggle is called before the animation ends.
FaultyTransitionEnds ==
    /\ open /\ ~listening /\ animating /\ toggles = 0
    /\ animating' = FALSE
    /\ fullscreen' = ~fullscreen
    /\ listening' = TRUE
    /\ UNCHANGED <<state, pending, close, simple, toggles, last, calls>>

TransitionEnds ==
    /\ open /\ ~listening /\ animating /\ toggles = 0
    /\ animating' = FALSE
    /\ fullscreen' = ~fullscreen
    /\ state' = "NONE"
    /\ listening' = TRUE
    /\ UNCHANGED <<pending, close, simple, toggles, last, calls>>

\* The rest of them.
FaultyListenersReturn ==
    /\ open /\ listening
    /\ listening' = FALSE
    /\ deferred_close' = FALSE
    /\ HandlePendingFullscreenTransitions
    /\ UNCHANGED <<animating, fullscreen, open, last, calls>>

ListenersReturn ==
    /\ open /\ listening
    /\ listening' = FALSE
    /\ IF deferred_close
       THEN CloseImmediately /\ UNCHANGED <<requests, simple, toggles>>
       ELSE HandlePendingFullscreenTransitions /\ UNCHANGED close
    /\ UNCHANGED <<animating, fullscreen, last, calls>>

Next ==
    \/ \E target \in BOOLEAN : SetFullScreen(target) \/ SetSimpleFullScreen(target)
    \/ Close \/ UserToggles
    \/ Toggle \/ TransitionEnds \/ ListenersReturn

Spec == Init /\ [][Next]_vars

\* AppKit makes the calls it was asked for and finishes its animations, and
\* listeners return.
Fairness == WF_vars(Toggle) /\ WF_vars(TransitionEnds) /\ WF_vars(ListenersReturn)

FairSpec == Spec /\ Fairness

-------------------------------------------------------------------------------
(* Properties.                                                             *)

Settled == open /\ state = "NONE" /\ toggles = 0 /\ ~animating /\ ~listening

\* Once everything has settled the window is in the mode asked for last, by
\* JavaScript or by the user: no request is dropped, stranded in the queue or
\* overtaken by an older one.
LastRequestWins == Settled /\ ~simple => fullscreen = last

\* A close that was put off during a transition happens when it has ended,
\* unless the listeners start transitions for ever.
CloseHappens == deferred_close ~> ~open

\* No transition is recorded for ever: when it has ended the window is closed
\* or the state is NONE again, whatever the queue made of it meanwhile.
Settles == open /\ state # "NONE" ~> ~open \/ state = "NONE"

\* AppKit is asked for one transition at a time: SetFullScreen never calls
\* toggleFullScreen: while a transition is scheduled or under way.
OneTransition == [][toggles' > toggles => toggles = 0 /\ ~animating]_vars

===============================================================================
