----------------------------- MODULE AppLifecycle -----------------------------
(***************************************************************************)
(* The life of a lynxtron application and of its windows: Application      *)
(* (quit, exit, shutdown), WindowList, NativeWindow and the JavaScript     *)
(* side BaseWindow, on the one UI thread that runs them.                   *)
(*                                                                         *)
(* Everything here is synchronous C++ that calls into JavaScript at every  *)
(* event it emits, and the JavaScript listener may call back into the same *)
(* C++ (app.quit(), win.destroy(), ...) before it returns.  So the state   *)
(* is the call stack: "stack" holds the suspended activations, innermost   *)
(* first.  An activation named after an event is a JavaScript listener     *)
(* that is running; the others are C++ loops and destructors.  The code    *)
(* between two JavaScript calls is one step.                               *)
(***************************************************************************)
EXTENDS Integers, Sequences, SequencesExt

CONSTANTS
  MaxWindows,   \* bound: windows created in one behaviour
  MaxCalls,     \* bound: API calls by JavaScript and events from the system
  Platform,     \* which NativeWindow implementation is built in
  Fullscreen,   \* whether fullscreen transitions happen (macOS only)
  LateWindows   \* whether JavaScript opens windows while the application quits

ASSUME ConstantsAssumption ==
  /\ MaxWindows \in Nat
  /\ MaxCalls \in Nat
  /\ Platform \in {"mac", "win", "windowless"}
  /\ Fullscreen \in BOOLEAN
  /\ Fullscreen => Platform = "mac"
  /\ LateWindows \in BOOLEAN

\* WindowList is only appended to and erased from, so its order is the order
\* of creation: windows are numbered as they are created and the list is a set.
Window == 1 .. MaxWindows
NoWindow == 0

VARIABLES
  loop,            \* "boot" | "running" | "ended" | "exited" | "aborted"
  is_ready, is_quitting, is_exiting, is_shutdown,   \* Application's flags
  quit_closure,    \* quit_main_message_loop_ is held by the Application
  quit_when_idle,  \* the quit closure has run: the loop ends when it is idle
  windows,         \* WindowList::windows_
  native,          \* per window: "none" | "open" | "closed" | "freed"
  api,             \* per BaseWindow: "none" | "live" | "marked" | "deleting" | "freed"
  closable,        \* NativeWindow::IsClosable()
  transition,      \* a fullscreen transition is in progress
  deferred_close,  \* NativeWindowMac::deferred_close_
  tasks,           \* tasks posted to the UI thread, first in first out
  stack,           \* the call stack, innermost activation first
  calls,           \* API calls and system events left (see MaxCalls)
  quit_events,     \* history: how many times "quit" was emitted
  closed_events    \* history: how many times each window emitted "closed"

flags  == <<is_ready, is_quitting, is_exiting, is_shutdown>>
closing == <<quit_closure, quit_when_idle>>
wins   == <<windows, native, api, closable, transition, deferred_close>>
history == <<quit_events, closed_events>>
vars == <<loop, flags, closing, wins, tasks, stack, calls, history>>

(***************************************************************************)
(* Activations and tasks.                                                  *)
(***************************************************************************)
AppEvents == {"ready", "before-quit", "will-quit", "quit", "window-all-closed"}
WindowEvents == {"close", "closed", "fullscreen-changed"}
Scripts == {"script"}                    \* any other JavaScript callback
Listeners == AppEvents \cup WindowEvents \cup Scripts
Loops == {"CloseAllWindows", "DestroyAllWindows"}

Frame == [at : Listeners \cup Loops \cup {"~BaseWindow"},
          w : Window \cup {NoWindow}, todo : SUBSET Window]
Task == [do : {"DestroyBaseWindow", "DeleteNativeWindow", "QuitWhenIdle"},
         w : Window \cup {NoWindow}]

\* Push(at, w, todo, k): the call goes on in a new activation on top of k.
Activation(at, w, todo) == [at |-> at, w |-> w, todo |-> todo]
Push(at, w, todo, k) == <<Activation(at, w, todo)>> \o k
Emit(event, k)       == Push(event, NoWindow, {}, k)
EmitOn(event, w, k)  == Push(event, w, {}, k)
Iterate(walk, ws, k) == Push(walk, NoWindow, ws, k)
Destructor(w, k)     == Push("~BaseWindow", w, {}, k)
Post(what, w)      == [do |-> what, w |-> w]

OnStack(kinds) == \E f \in ToSet(stack) : f.at \in kinds

Top  == Head(stack)
Rest == Tail(stack)
Running(kinds) == stack # <<>> /\ Top.at \in kinds
Idle == stack = <<>>
Alive == loop \in {"boot", "running"}

Spend == calls > 0 /\ calls' = calls - 1

\* The definitions named Faulty... are not part of the specification: each is the
\* definition that follows it with one plausible mistake, and breaks a property.

-----------------------------------------------------------------------------
(***************************************************************************)
(* Application.  Each operator is a C++ call that returns to the           *)
(* activations k; it says which flags it assigns and how the stack goes on.*)
(***************************************************************************)
\* ... without the test of is_shutdown_.
FaultyShutdown(quitting, k) ==
  /\ is_shutdown' = TRUE
  /\ is_quitting' = TRUE
  /\ quit_events' = quit_events + 1
  /\ stack' = Emit("quit", k)

\* quitting is the value of is_quitting_ at the call.
Shutdown(quitting, k) ==
  IF is_shutdown
  THEN stack' = k /\ is_quitting' = quitting /\ UNCHANGED <<is_shutdown, quit_events>>
  ELSE /\ is_shutdown' = TRUE
       /\ is_quitting' = TRUE
       /\ quit_events' = quit_events + 1
       /\ stack' = Emit("quit", k)

\* Notifies "will-quit"; what follows the listener is ReturnFromWillQuit.
NotifyAndShutdown(k) ==
  stack' = IF is_shutdown THEN k ELSE Emit("will-quit", k)

Quit(k) ==
  stack' = IF is_quitting THEN k ELSE Emit("before-quit", k)

\* ... with the tests of is_quitting_ and is_exiting_ in the other order.
FaultyOnWindowAllClosed(k) ==
  \/ /\ is_quitting
     /\ NotifyAndShutdown(k)
     /\ UNCHANGED <<is_quitting, is_shutdown, quit_events>>
  \/ /\ ~is_quitting /\ is_exiting
     /\ Shutdown(is_quitting, k)
  \/ /\ ~is_exiting /\ ~is_quitting
     /\ stack' = Emit("window-all-closed", k)
     /\ UNCHANGED <<is_quitting, is_shutdown, quit_events>>

OnWindowAllClosed(k) ==
  \/ /\ is_exiting
     /\ Shutdown(is_quitting, k)
  \/ /\ ~is_exiting /\ is_quitting
     /\ NotifyAndShutdown(k)
     /\ UNCHANGED <<is_quitting, is_shutdown, quit_events>>
  \/ /\ ~is_exiting /\ ~is_quitting
     /\ stack' = Emit("window-all-closed", k)
     /\ UNCHANGED <<is_quitting, is_shutdown, quit_events>>

(***************************************************************************)
(* NativeWindow.                                                           *)
(***************************************************************************)
\* Notifies the BaseWindow that observes w.  The observer list checks its
\* observers: a BaseWindow freed while it was still registered ends the process.
NotifyObserver(event, w, k) ==
  IF api[w] = "freed"
  THEN loop' = "aborted" /\ stack' = <<>>
  ELSE stack' = EmitOn(event, w, k) /\ UNCHANGED loop

\* ... without the test of is_closed_,
FaultyNotifyClosedTwice(w, base, k) ==
  /\ native' = [native EXCEPT ![w] = "closed"]
  /\ NotifyObserver("closed", w, k)
  /\ api' = [api EXCEPT ![w] = IF base = "live" THEN "marked" ELSE base]
  /\ closed_events' = [closed_events EXCEPT ![w] = IF base = "freed" THEN @ ELSE @ + 1]

\* ... marking the JavaScript object destroyed only after the event,
FaultyNotifyClosedUnmarked(w, base, k) ==
  \/ /\ native[w] # "open"
     /\ stack' = k
     /\ api' = [api EXCEPT ![w] = base]
     /\ UNCHANGED <<loop, native, closed_events>>
  \/ /\ native[w] = "open"
     /\ native' = [native EXCEPT ![w] = "closed"]
     /\ NotifyObserver("closed", w, k)
     /\ api' = [api EXCEPT ![w] = base]
     /\ closed_events' = [closed_events EXCEPT ![w] = @ + 1]

\* NotifyWindowClosed up to the "closed" listener; base is the state of the
\* BaseWindow at the call.  BaseWindow::OnWindowClosed stops observing and marks
\* the JavaScript object destroyed before it emits.
NotifyWindowClosed(w, base, k) ==
  \/ /\ native[w] # "open"
     /\ stack' = k
     /\ api' = [api EXCEPT ![w] = base]
     /\ UNCHANGED <<loop, native, closed_events>>
  \/ /\ native[w] = "open"
     /\ native' = [native EXCEPT ![w] = "closed"]
     /\ NotifyObserver("closed", w, k)
     /\ api' = [api EXCEPT ![w] = IF base = "live" THEN "marked" ELSE base]
     /\ closed_events' = [closed_events EXCEPT ![w] = IF base = "freed" THEN @ ELSE @ + 1]

CloseImmediately(w, base, k) ==
  \/ /\ transition[w]
     /\ deferred_close' = [deferred_close EXCEPT ![w] = TRUE]
     /\ api' = [api EXCEPT ![w] = base]
     /\ stack' = k
     /\ UNCHANGED <<loop, native, closed_events>>
  \/ ~transition[w] /\ NotifyWindowClosed(w, base, k) /\ UNCHANGED deferred_close

\* ... without WindowCloseCancelled when the window is not closable,
FaultyCloseKeepsQuitting(w, k) ==
  \/ /\ Platform # "windowless" /\ ~closable[w]
     /\ stack' = k
     /\ UNCHANGED <<loop, is_quitting, native, api, deferred_close, closed_events>>
  \/ /\ Platform = "mac" /\ closable[w]
     /\ NotifyObserver("close", w, k)
     /\ UNCHANGED <<is_quitting, native, api, deferred_close, closed_events>>
  \/ /\ Platform = "windowless" \/ (Platform = "win" /\ closable[w])
     /\ CloseImmediately(w, api[w], k)
     /\ UNCHANGED is_quitting

\* ... without asking the "close" listeners.
FaultyCloseUnasked(w, k) ==
  \/ /\ Platform # "windowless" /\ ~closable[w]
     /\ is_quitting' = FALSE
     /\ stack' = k
     /\ UNCHANGED <<loop, native, api, deferred_close, closed_events>>
  \/ /\ Platform = "windowless" \/ closable[w]
     /\ CloseImmediately(w, api[w], k)
     /\ UNCHANGED is_quitting

\* NativeWindow::Close as the platform implements it.  Only macOS asks the
\* "close" listeners; only macOS and Windows look at closable.
Close(w, k) ==
  \/ /\ Platform # "windowless" /\ ~closable[w]
     /\ is_quitting' = FALSE                      \* WindowCloseCancelled
     /\ stack' = k
     /\ UNCHANGED <<loop, native, api, deferred_close, closed_events>>
  \/ /\ Platform = "mac" /\ closable[w]
     /\ NotifyObserver("close", w, k)
     /\ UNCHANGED <<is_quitting, native, api, deferred_close, closed_events>>
  \/ /\ Platform = "windowless" \/ (Platform = "win" /\ closable[w])
     /\ CloseImmediately(w, api[w], k)
     /\ UNCHANGED is_quitting

-----------------------------------------------------------------------------
(***************************************************************************)
(* Top level: what the process does when no JavaScript is running.         *)
(***************************************************************************)
Unwound == Alive /\ Idle

\* JavaScript outside the lifecycle events: the app code while the environment
\* loads, later any timer, promise or message callback.
RunScript ==
  /\ Unwound /\ Spend
  /\ stack' = Emit("script", <<>>)
  /\ UNCHANGED <<loop, flags, closing, wins, tasks, history>>

\* Before the message loop runs, or in it on macOS (applicationDidFinishLaunching).
DidFinishLaunching ==
  /\ Unwound /\ ~is_ready
  /\ loop = IF Platform = "mac" THEN "running" ELSE "boot"
  /\ is_ready' = TRUE
  /\ stack' = Emit("ready", <<>>)
  /\ UNCHANGED <<loop, is_quitting, is_exiting, is_shutdown, closing, wins, tasks,
                 calls, history>>

\* ... without the test of is_shutdown_ in SetMainMessageLoopQuitClosure.
FaultyWillRunMainMessageLoop ==
  /\ Unwound /\ loop = "boot"
  /\ Platform = "mac" \/ is_ready
  /\ loop' = "running"
  /\ quit_closure' = TRUE
  /\ UNCHANGED <<flags, quit_when_idle, wins, tasks, stack, calls, history>>

\* exit_code_ is set and the Application gets the quit closure, or runs it at
\* once if it has shut down already.
WillRunMainMessageLoop ==
  /\ Unwound /\ loop = "boot"
  /\ Platform = "mac" \/ is_ready
  /\ loop' = "running"
  /\ quit_closure' = ~is_shutdown
  /\ tasks' = IF is_shutdown THEN Append(tasks, Post("QuitWhenIdle", NoWindow)) ELSE tasks
  /\ UNCHANGED <<flags, quit_when_idle, wins, stack, calls, history>>

\* A termination signal, or the system asking the application to quit.
QuitFromSystem ==
  /\ Unwound /\ loop = "running" /\ Platform # "win" /\ Spend
  /\ Quit(<<>>)
  /\ UNCHANGED <<loop, flags, closing, wins, tasks, history>>

\* The user closes a window: windowShouldClose on macOS asks the "close"
\* listeners whatever closable says (the button is disabled then), WM_CLOSE
\* goes through Close; a windowless window has no button.
UserCloses(w) ==
  /\ Unwound /\ loop = "running" /\ native[w] = "open" /\ Spend
  /\ Platform # "windowless"
  /\ Platform = "mac" => closable[w]
  /\ Close(w, <<>>)
  /\ UNCHANGED <<is_ready, is_exiting, is_shutdown, closing, windows, closable,
                 transition, tasks, quit_events>>

\* SetFullScreen or the green button starts a transition; the system ends it
\* later (windowDidEnterFullScreen, windowDidExitFullScreen).
StartTransition(w) ==
  /\ Alive /\ (Idle \/ Running(Listeners))
  /\ Fullscreen /\ Spend
  /\ api[w] = "live" /\ ~transition[w]
  /\ transition' = [transition EXCEPT ![w] = TRUE]
  /\ UNCHANGED <<loop, flags, closing, windows, native, api, closable, deferred_close,
                 tasks, stack, history>>

FinishTransition(w) ==
  /\ Unwound /\ loop = "running" /\ native[w] = "open" /\ transition[w]
  /\ transition' = [transition EXCEPT ![w] = FALSE]
  /\ NotifyObserver("fullscreen-changed", w, <<>>)
  /\ UNCHANGED <<flags, closing, windows, native, api, closable, deferred_close, tasks,
                 calls, history>>

\* The posted destroy closure is bound to a weak pointer; deleting the native
\* window notifies "closed" if nothing else did.
RunTask ==
  /\ Unwound /\ loop = "running" /\ tasks # <<>>
  /\ LET task == Head(tasks) IN
     \/ /\ task.do = "DestroyBaseWindow" /\ api[task.w] = "marked"
        /\ api' = [api EXCEPT ![task.w] = "freed"]
        /\ tasks' = Append(Tail(tasks), Post("DeleteNativeWindow", task.w))
        /\ UNCHANGED <<loop, native, quit_when_idle>>
     \/ /\ task.do = "DestroyBaseWindow" /\ api[task.w] # "marked"
        /\ tasks' = Tail(tasks)
        /\ UNCHANGED <<loop, native, api, quit_when_idle>>
     \/ /\ task.do = "DeleteNativeWindow"
        /\ loop' = IF native[task.w] = "open" THEN "aborted" ELSE loop
        /\ native' = [native EXCEPT ![task.w] = "freed"]
        /\ tasks' = Tail(tasks)
        /\ UNCHANGED <<api, quit_when_idle>>
     \/ /\ task.do = "QuitWhenIdle"
        /\ quit_when_idle' = TRUE
        /\ tasks' = Tail(tasks)
        /\ UNCHANGED <<loop, native, api>>
  /\ UNCHANGED <<flags, quit_closure, windows, closable, transition, deferred_close,
                 stack, calls, history>>

LoopEnds ==
  /\ Unwound /\ loop = "running" /\ quit_when_idle /\ tasks = <<>>
  /\ loop' = "ended"
  /\ UNCHANGED <<flags, closing, wins, tasks, stack, calls, history>>

(***************************************************************************)
(* What a running JavaScript listener may call.                            *)
(***************************************************************************)
InJavaScript == Alive /\ Running(Listeners)

Quitting == is_quitting \/ is_exiting \/ is_shutdown \/ OnStack({"before-quit", "will-quit"} \cup Loops)

JsQuit ==
  /\ InJavaScript /\ Spend
  /\ Quit(stack)
  /\ UNCHANGED <<loop, flags, closing, wins, tasks, history>>

\* ... without the test for an empty window list,
FaultyExitNeverEmpty ==
  /\ InJavaScript /\ Spend
  /\ loop # "boot"
  /\ is_exiting' = TRUE
  /\ is_quitting' = TRUE
  /\ stack' = Iterate("DestroyAllWindows", windows, stack)
  /\ UNCHANGED <<loop, is_shutdown, quit_events, is_ready, closing, wins, tasks, closed_events>>

\* ... asking the windows to close instead of destroying them.
\* Before the message loop exists, app.exit() ends the process on the spot.
JsExit ==
  /\ InJavaScript /\ Spend
  /\ IF loop = "boot"
     THEN /\ loop' = "exited"
          /\ UNCHANGED <<is_quitting, is_exiting, is_shutdown, quit_events, stack>>
     ELSE /\ is_exiting' = TRUE
          /\ \/ windows = {} /\ Shutdown(TRUE, stack)
             \/ /\ windows # {}
                /\ is_quitting' = TRUE
                /\ stack' = Iterate("DestroyAllWindows", windows, stack)
                /\ UNCHANGED <<is_shutdown, quit_events>>
          /\ UNCHANGED loop
  /\ UNCHANGED <<is_ready, closing, wins, tasks, closed_events>>

\* new LynxWindow(): refused before the application is ready.
JsNew(w, can_close) ==
  /\ InJavaScript /\ Spend /\ is_ready
  /\ LateWindows \/ ~Quitting
  /\ native[w] = "none" /\ \A v \in Window : v < w => native[v] # "none"
  /\ native' = [native EXCEPT ![w] = "open"]
  /\ api' = [api EXCEPT ![w] = "live"]
  /\ closable' = [closable EXCEPT ![w] = can_close]
  /\ windows' = windows \cup {w}
  /\ UNCHANGED <<loop, flags, closing, transition, deferred_close, tasks, stack, history>>

JsClose(w) ==
  /\ InJavaScript /\ Spend /\ api[w] = "live"
  /\ Close(w, stack)
  /\ UNCHANGED <<is_ready, is_exiting, is_shutdown, closing, windows, closable,
                 transition, tasks, quit_events>>

\* ... without CloseImmediately in the destructor.
FaultyDestroyLeavesOpen(w) ==
  /\ InJavaScript /\ Spend /\ api[w] = "live"
  /\ api' = [api EXCEPT ![w] = "deleting"]
  /\ stack' = Destructor(w, stack)
  /\ UNCHANGED <<loop, flags, closing, windows, native, closable, transition, deferred_close,
                 tasks, history>>

\* win.destroy() deletes the BaseWindow, whose destructor closes the native
\* window and then deletes it in a later task (FinishDestructor).
JsDestroy(w) ==
  /\ InJavaScript /\ Spend /\ api[w] = "live"
  /\ CloseImmediately(w, "deleting", Destructor(w, stack))
  /\ UNCHANGED <<flags, closing, windows, closable, transition, tasks, quit_events>>

(***************************************************************************)
(* The listener returns (prevented: it called preventDefault) and the C++  *)
(* that emitted the event goes on.                                         *)
(***************************************************************************)
ReturnFromNotification ==
  /\ Alive /\ Running({"script", "ready", "window-all-closed"})
  /\ stack' = Rest
  /\ UNCHANGED <<loop, flags, closing, wins, tasks, calls, history>>

ReturnFromBeforeQuit(prevented) ==
  /\ Alive /\ Running({"before-quit"})
  /\ is_quitting' = ~prevented
  /\ \/ prevented /\ stack' = Rest
     \/ ~prevented /\ windows = {} /\ NotifyAndShutdown(Rest)
     \/ /\ ~prevented /\ windows # {}
        /\ stack' = Iterate("CloseAllWindows", windows, Rest)
  /\ UNCHANGED <<loop, is_ready, is_exiting, is_shutdown, closing, wins, tasks, calls,
                 history>>

ReturnFromWillQuit(prevented) ==
  /\ Alive /\ Running({"will-quit"})
  /\ \/ /\ prevented
        /\ is_quitting' = FALSE
        /\ stack' = Rest
        /\ UNCHANGED <<is_shutdown, quit_events>>
     \/ ~prevented /\ Shutdown(is_quitting, Rest)
  /\ UNCHANGED <<loop, is_ready, is_exiting, closing, wins, tasks, calls, closed_events>>

ReturnFromQuit ==
  /\ Alive /\ Running({"quit"})
  /\ stack' = Rest
  /\ quit_closure' = FALSE
  /\ tasks' = IF quit_closure THEN Append(tasks, Post("QuitWhenIdle", NoWindow)) ELSE tasks
  /\ UNCHANGED <<loop, flags, quit_when_idle, wins, calls, history>>

ReturnFromClose(prevented) ==
  /\ Alive /\ Running({"close"})
  /\ \/ /\ prevented
        /\ is_quitting' = FALSE                   \* WindowCloseCancelled
        /\ stack' = Rest
        /\ UNCHANGED <<loop, native, api, deferred_close, closed_events>>
     \/ /\ ~prevented
        /\ CloseImmediately(Top.w, api[Top.w], Rest)
        /\ UNCHANGED is_quitting
  /\ UNCHANGED <<is_ready, is_exiting, is_shutdown, closing, windows, closable, transition,
                 tasks, calls, quit_events>>

\* BaseWindow::OnWindowClosed posts its own deletion, then NotifyWindowClosed
\* takes the window off the list.
ReturnFromClosed ==
  /\ Alive /\ Running({"closed"})
  /\ tasks' = Append(tasks, Post("DestroyBaseWindow", Top.w))
  /\ windows' = windows \ {Top.w}
  /\ \/ windows' = {} /\ OnWindowAllClosed(Rest)
     \/ /\ windows' # {}
        /\ stack' = Rest
        /\ UNCHANGED <<is_quitting, is_shutdown, quit_events>>
  /\ UNCHANGED <<loop, is_ready, is_exiting, closing, native, api, closable, transition,
                 deferred_close, calls, closed_events>>

\* The delegate goes on with HandleDeferredClose through shell_, which is null
\* by then if the listener got the window closed.
ReturnFromFullscreenChanged ==
  /\ Alive /\ Running({"fullscreen-changed"})
  /\ LET w == Top.w IN
     IF native[w] # "open"
     THEN loop' = "aborted" /\ stack' = <<>>
          /\ UNCHANGED <<native, api, deferred_close, closed_events>>
     ELSE IF deferred_close[w] /\ ~transition[w]
     THEN deferred_close' = [deferred_close EXCEPT ![w] = FALSE]
          /\ NotifyWindowClosed(w, api[w], Rest)
     ELSE stack' = Rest /\ UNCHANGED <<loop, native, api, deferred_close, closed_events>>
  /\ UNCHANGED <<flags, closing, windows, closable, transition, tasks, calls, quit_events>>

(***************************************************************************)
(* C++ activations that go on after a nested call.                         *)
(***************************************************************************)
\* CloseAllWindows and DestroyAllWindows walk a copy of the list, from the
\* newest window in the first case on macOS, and skip the windows closed
\* meanwhile.
IsNext(w) ==
  \A v \in Top.todo \ {w} :
    IF Platform = "mac" /\ Top.at = "CloseAllWindows" THEN w > v ELSE w < v

IterateWindows ==
  /\ Alive /\ Running(Loops)
  /\ \/ /\ Top.todo = {}
        /\ stack' = Rest
        /\ UNCHANGED <<loop, is_quitting, native, api, deferred_close, closed_events>>
     \/ \E w \in Top.todo :
          LET k == Iterate(Top.at, Top.todo \ {w}, Rest) IN
          /\ IsNext(w)
          /\ \/ /\ native[w] # "open"
                /\ stack' = k
                /\ UNCHANGED <<loop, is_quitting, native, api, deferred_close, closed_events>>
             \/ native[w] = "open" /\ Top.at = "CloseAllWindows" /\ Close(w, k)
             \/ /\ native[w] = "open" /\ Top.at = "DestroyAllWindows"
                /\ CloseImmediately(w, api[w], k)
                /\ UNCHANGED is_quitting
  /\ UNCHANGED <<is_ready, is_exiting, is_shutdown, closing, windows, closable, transition,
                 tasks, calls, quit_events>>

FinishDestructor ==
  /\ Alive /\ Running({"~BaseWindow"})
  /\ api' = [api EXCEPT ![Top.w] = "freed"]
  /\ tasks' = Append(tasks, Post("DeleteNativeWindow", Top.w))
  /\ stack' = Rest
  /\ UNCHANGED <<loop, flags, closing, windows, native, closable, transition, deferred_close,
                 calls, history>>

-----------------------------------------------------------------------------
Init ==
  /\ loop = "boot"
  /\ is_ready = FALSE /\ is_quitting = FALSE /\ is_exiting = FALSE /\ is_shutdown = FALSE
  /\ quit_closure = FALSE /\ quit_when_idle = FALSE
  /\ windows = {}
  /\ native = [w \in Window |-> "none"]
  /\ api = [w \in Window |-> "none"]
  /\ closable = [w \in Window |-> TRUE]
  /\ transition = [w \in Window |-> FALSE]
  /\ deferred_close = [w \in Window |-> FALSE]
  /\ tasks = <<>> /\ stack = <<>>
  /\ calls = MaxCalls
  /\ quit_events = 0
  /\ closed_events = [w \in Window |-> 0]

System ==
  \/ DidFinishLaunching \/ WillRunMainMessageLoop \/ RunTask \/ LoopEnds
  \/ \E w \in Window : FinishTransition(w)

Environment ==
  \/ RunScript \/ QuitFromSystem
  \/ \E w \in Window : UserCloses(w) \/ StartTransition(w)

JavaScript ==
  \/ JsQuit \/ JsExit
  \/ \E w \in Window, can_close \in BOOLEAN : JsNew(w, can_close)
  \/ \E w \in Window : JsClose(w) \/ JsDestroy(w)

Return ==
  \/ ReturnFromNotification \/ ReturnFromQuit \/ ReturnFromClosed
  \/ ReturnFromFullscreenChanged \/ IterateWindows \/ FinishDestructor
  \/ \E prevented \in BOOLEAN :
       \/ ReturnFromBeforeQuit(prevented) \/ ReturnFromWillQuit(prevented)
       \/ ReturnFromClose(prevented)

Next == System \/ Environment \/ JavaScript \/ Return

Spec == Init /\ [][Next]_vars

\* The UI thread keeps running: it unwinds the stack, launches, runs its tasks
\* and leaves the loop when told to.  Nothing is assumed of the user, of the
\* system or of what the listeners call.
Fairness ==
  /\ WF_vars(Return)
  /\ WF_vars(DidFinishLaunching) /\ WF_vars(WillRunMainMessageLoop)
  /\ WF_vars(RunTask) /\ WF_vars(LoopEnds)
  /\ \A w \in Window : WF_vars(FinishTransition(w))

FairSpec == Spec /\ Fairness

-----------------------------------------------------------------------------
(***************************************************************************)
(* Properties.                                                             *)
(***************************************************************************)
TypeOK ==
  /\ loop \in {"boot", "running", "ended", "exited", "aborted"}
  /\ is_ready \in BOOLEAN /\ is_quitting \in BOOLEAN
  /\ is_exiting \in BOOLEAN /\ is_shutdown \in BOOLEAN
  /\ quit_closure \in BOOLEAN /\ quit_when_idle \in BOOLEAN
  /\ windows \in SUBSET Window
  /\ native \in [Window -> {"none", "open", "closed", "freed"}]
  /\ api \in [Window -> {"none", "live", "marked", "deleting", "freed"}]
  /\ closable \in [Window -> BOOLEAN]
  /\ transition \in [Window -> BOOLEAN]
  /\ deferred_close \in [Window -> BOOLEAN]
  /\ tasks \in Seq(Task)
  /\ stack \in Seq(Frame)
  /\ calls \in Nat
  /\ quit_events \in Nat
  /\ closed_events \in [Window -> {0, 1}]

\* The step emits an event of the Application.
Emitted(event) ==
  /\ stack' # stack
  /\ \/ stack' = Emit(event, stack)
     \/ stack # <<>> /\ stack' = Emit(event, Rest)

\* "quit" is emitted at most once however quit(), exit() and the closing of
\* windows nest (Application::Shutdown).
QuitEmittedOnce == quit_events <= 1

\* A window that is closed has told its BaseWindow so exactly once, whichever of
\* destroy(), close(), the user, the exit loop or a destructor closed it first
\* (NativeWindow::NotifyWindowClosed).
ClosedEmittedOnce == loop # "aborted" => \A w \in Window :
  closed_events[w] = IF native[w] \in {"none", "open"} THEN 0 ELSE 1

\* An exiting application that has lost its last window has shut down: the
\* check is made where a window leaves the list and nowhere else
\* (Application::OnWindowAllClosed, Application::Exit).
ExitCompletes == is_exiting /\ windows = {} => is_shutdown

\* "will-quit" is emitted only once every window is closed, never on the way of
\* an exit() and never after "quit" (Application::NotifyAndShutdown).
WillQuitProperly ==
  [][Emitted("will-quit") => windows' = {} /\ ~is_exiting' /\ quit_events' = 0]_vars

\* Neither the window list nor a suspended activation refers to a native window
\* that has been deleted (that is why ~BaseWindow deletes it in a later task),
\* and a BaseWindow is not deleted under its own "closed" listener (that is why
\* it is marked destroyed before it emits).
NoFreedWindowInUse == loop # "aborted" =>
  /\ \A w \in windows : native[w] # "freed"
  /\ \A f \in ToSet(stack) : f.w # NoWindow =>
       /\ native[f.w] # "freed"
       /\ f.at = "closed" => api[f.w] # "freed"

\* No event reaches a BaseWindow that is gone or a delegate that was cleaned up.
NoAbort == loop # "aborted"

\* win.destroy() "guarantees the closed event will be emitted": a BaseWindow is
\* deleted only after its "closed" event.
DestroyEmitsClosed == \A w \in Window : api[w] = "freed" => closed_events[w] = 1

\* A window closes only after its "close" listeners agreed, unless JavaScript
\* destroys it or the application exits (or a close put off by a fullscreen
\* transition is carried out).
CloseAsksFirst ==
  [][\A w \in Window : native[w] = "open" /\ native'[w] = "closed" =>
       \/ api'[w] = "deleting"
       \/ Running({"close", "DestroyAllWindows", "fullscreen-changed"})]_vars

\* When the thread is back in its loop, a quit has been decided: the application
\* has shut down or the quit was cancelled.  It never stays half way, ignoring
\* every later quit() (is_quitting_ across the nested closes and vetoes).
QuitIsDecided == Unwound /\ is_quitting => is_shutdown

\* The same of exit(): no window survives it.
ExitIsDecided == Unwound /\ is_exiting => is_shutdown

\* Neither quit() nor exit() is left half way: back in its loop, a thread that
\* began to stop has shut down, or the stop was cancelled.
StopsAreDecided == QuitIsDecided /\ ExitIsDecided

\* Once the application has shut down the message loop ends, also when it shut
\* down before the loop existed (SetMainMessageLoopQuitClosure).
ShutdownEnds == is_shutdown ~> loop \in {"ended", "exited"}

\* The life of the application as its listeners see it: the events they are told
\* and the calls they make, without the bookkeeping of windows and calls.
Seen == [w \in Window |->
  IF closed_events[w] > 0 THEN "closed" ELSE IF native[w] = "none" THEN "none" ELSE "open"]

Asked == Alive /\ OnStack({"before-quit"})

Stage ==
  IF ~Alive THEN "gone"
  ELSE IF is_shutdown THEN "down"
  ELSE IF OnStack({"will-quit"}) THEN "last call"
  ELSE IF is_quitting \/ is_exiting THEN "stopping"
  ELSE "up"

Looping == loop = "running"

Life == INSTANCE ApplicationLife WITH
  Late <- LateWindows, Crashes <- Fullscreen,
  ready <- is_ready, seen <- Seen, asked <- Asked, exiting <- is_exiting,
  stage <- Stage, quits <- quit_events, running <- Looping

\* The application implements the life cycle it promises: whatever the listeners
\* call, windows open and close once, a quit may be vetoed up to "will-quit" and an
\* exit not at all, "quit" comes once, with no window open, and the process ends
\* after it (Application, WindowList, NativeWindow and BaseWindow together).
LifeImplements == Life!LifeSpec

=============================================================================
