------------------------- MODULE AppLifecycle_proofs -------------------------
(***************************************************************************)
(* The safety of AppLifecycle for any number of windows and calls, on every *)
(* platform.  The inductive invariant IInv ties the state of each window to *)
(* the activations on the call stack and to the tasks in the queue.        *)
(***************************************************************************)
EXTENDS AppLifecycle, TLAPS
-----------------------------------------------------------------------------
(***************************************************************************)
(* What ToSet(s) is when s is built with \o, Tail and Append: the facts    *)
(* about the call stack and the task queue that the proofs cite.           *)
(***************************************************************************)
\* The elements of a sequence, by position.
LEMMA ElementsByPosition ==
  ASSUME NEW S, NEW s \in Seq(S)
  PROVE  ToSet(s) = {s[i] : i \in 1 .. Len(s)}
  BY DEF ToSet

\* What the elements are when one is put in front,
LEMMA PushElements ==
  ASSUME NEW S, NEW s \in Seq(S), NEW x \in S
  PROVE  /\ <<x>> \o s \in Seq(S)
         /\ <<x>> \o s # <<>>
         /\ Head(<<x>> \o s) = x
         /\ ToSet(<<x>> \o s) = {x} \cup ToSet(s)
<1>1. <<x>> \o s \in Seq(S) /\ Len(<<x>> \o s) = Len(s) + 1
  OBVIOUS
<1>2. (<<x>> \o s)[1] = x /\ \A i \in 1 .. Len(s) : (<<x>> \o s)[i + 1] = s[i]
  OBVIOUS
<1>E. ToSet(s) = {s[i] : i \in 1 .. Len(s)} /\ ToSet(<<x>> \o s) = {(<<x>> \o s)[i] : i \in 1 .. Len(s) + 1}
  BY <1>1, ElementsByPosition
<1>3. ToSet(<<x>> \o s) \subseteq {x} \cup ToSet(s)
  <2> SUFFICES ASSUME NEW i \in 1 .. Len(s) + 1
               PROVE  (<<x>> \o s)[i] \in {x} \cup ToSet(s)
    BY <1>1, <1>E
  <2>1. i = 1 \/ (i - 1 \in 1 .. Len(s) /\ i = (i - 1) + 1)
    BY <1>1
  <2>2. QED
    BY <2>1, <1>2, <1>E
<1>4. {x} \cup ToSet(s) \subseteq ToSet(<<x>> \o s)
  <2>1. x \in ToSet(<<x>> \o s)
    BY <1>1, <1>2, 1 \in 1 .. Len(s) + 1, <1>E
  <2>2. ASSUME NEW i \in 1 .. Len(s)
        PROVE  s[i] \in ToSet(<<x>> \o s)
    BY <1>1, <1>2, i + 1 \in 1 .. Len(s) + 1, <1>E
  <2>3. QED
    BY <2>1, <2>2, <1>E
<1>5. QED
  BY <1>1, <1>2, <1>3, <1>4

\* ... when the first is taken off,
LEMMA PopElements ==
  ASSUME NEW S, NEW s \in Seq(S), s # <<>>
  PROVE  /\ Tail(s) \in Seq(S)
         /\ Head(s) \in S
         /\ Head(s) \in ToSet(s)
         /\ ToSet(s) = {Head(s)} \cup ToSet(Tail(s))
<1>1. Len(s) \in Nat /\ Len(s) > 0 /\ Len(Tail(s)) = Len(s) - 1 /\ Tail(s) \in Seq(S)
  OBVIOUS
<1>2. Head(s) = s[1] /\ \A i \in 1 .. Len(s) - 1 : Tail(s)[i] = s[i + 1]
  OBVIOUS
<1>E. ToSet(s) = {s[i] : i \in 1 .. Len(s)} /\ ToSet(Tail(s)) = {Tail(s)[i] : i \in 1 .. Len(s) - 1}
  BY <1>1, ElementsByPosition
<1>3. ToSet(Tail(s)) \subseteq ToSet(s)
  <2>1. \A i \in 1 .. Len(s) - 1 : i + 1 \in 1 .. Len(s)
    BY <1>1
  <2>2. QED
    BY <2>1, <1>1, <1>2, <1>E
<1>4. Head(s) \in ToSet(s) /\ Head(s) \in S
  BY <1>1, <1>2, <1>E
<1>5. ToSet(s) \subseteq {Head(s)} \cup ToSet(Tail(s))
  <2> SUFFICES ASSUME NEW i \in 1 .. Len(s)
               PROVE  s[i] \in {Head(s)} \cup ToSet(Tail(s))
    BY <1>E
  <2>1. i = 1 \/ (i - 1 \in 1 .. Len(s) - 1 /\ i = (i - 1) + 1)
    BY <1>1
  <2>2. QED
    BY <2>1, <1>1, <1>2, <1>E
<1>6. QED
  BY <1>1, <1>3, <1>4, <1>5

\* ... when one is appended,
LEMMA AppendElements ==
  ASSUME NEW S, NEW s \in Seq(S), NEW x \in S
  PROVE  /\ Append(s, x) \in Seq(S)
         /\ ToSet(Append(s, x)) = ToSet(s) \cup {x}
<1>1. Len(Append(s, x)) = Len(s) + 1 /\ Append(s, x) \in Seq(S)
  OBVIOUS
<1>2. Append(s, x)[Len(s) + 1] = x /\ \A i \in 1 .. Len(s) : Append(s, x)[i] = s[i]
  OBVIOUS
<1>3. \A i \in 1 .. Len(s) + 1 : i = Len(s) + 1 \/ i \in 1 .. Len(s)
  OBVIOUS
<1>E. ToSet(s) = {s[i] : i \in 1 .. Len(s)} /\ ToSet(Append(s, x)) = {Append(s, x)[i] : i \in 1 .. Len(s) + 1}
  BY <1>1, ElementsByPosition
<1>4. QED
  BY <1>1, <1>2, <1>3, <1>E

\* ... and when there is none.
LEMMA NoElements == ToSet(<<>>) = {}
  BY DEF ToSet
-----------------------------------------------------------------------------

\* "quit" was emitted exactly if the application has shut down.
QuitInv == quit_events = IF is_shutdown THEN 1 ELSE 0

\* How the native window, its BaseWindow and the list of windows go together.  A
\* window leaves the list when its "closed" listener has returned, not before.
WindowInv ==
  \A w \in Window :
    /\ native[w] = "none" <=> api[w] = "none"
    /\ api[w] = "live" => native[w] = "open"
    /\ api[w] = "marked" => native[w] = "closed"
    /\ native[w] = "freed" => api[w] = "freed"
    /\ closed_events[w] = IF native[w] \in {"none", "open"} THEN 0 ELSE 1
    /\ w \in windows => native[w] \in {"open", "closed"}
    /\ w \in windows /\ native[w] = "closed" =>
         \E f \in ToSet(stack) : f.at = "closed" /\ f.w = w

\* What an activation that is suspended relies on.
StackInv ==
  \A f \in ToSet(stack) :
    /\ f.w # NoWindow <=> f.at \in WindowEvents \cup {"~BaseWindow"}
    /\ f.w # NoWindow => native[f.w] \notin {"none", "freed"}
    /\ f.at = "closed" => native[f.w] = "closed" /\ api[f.w] \in {"marked", "deleting"}
    /\ f.at = "~BaseWindow" => api[f.w] = "deleting"

\* A destructor waits below the "closed" listener of its window, never above it,
\* and only one destructor runs for a window.
DestructorBelow(s) ==
  \A i, j \in 1 .. Len(s) :
    i < j /\ s[i].at = "~BaseWindow" /\ s[j].at \in {"closed", "~BaseWindow"} => s[i].w # s[j].w

TaskInv ==
  \A t \in ToSet(tasks) :
    /\ t.do # "QuitWhenIdle" => t.w # NoWindow
    /\ t.do = "DeleteNativeWindow" => api[t.w] = "freed"

IInv ==
  /\ TypeOK
  /\ QuitInv
  /\ ExitCompletes
  /\ loop # "aborted" =>
       WindowInv /\ StackInv /\ DestructorBelow(stack) /\ TaskInv

-----------------------------------------------------------------------------
(***************************************************************************)
(* The call stack.                                                         *)
(***************************************************************************)
\* When the innermost activation returns, destructors still wait below the "closed"
\* listeners of their windows, and none of these is left above a finished one.
LEMMA DestructorBelowTail ==
  ASSUME NEW s \in Seq(Frame), s # <<>>, DestructorBelow(s)
  PROVE  /\ DestructorBelow(Tail(s))
         /\ Head(s).at = "~BaseWindow" =>
              \A f \in ToSet(Tail(s)) : f.at \in {"closed", "~BaseWindow"} => f.w # Head(s).w
<1>1. Len(s) \in Nat /\ Len(s) > 0 /\ Len(Tail(s)) = Len(s) - 1
  OBVIOUS
<1>2. Head(s) = s[1] /\ \A i \in 1 .. Len(s) - 1 : Tail(s)[i] = s[i + 1] /\ i + 1 \in 1 .. Len(s)
  OBVIOUS
<1>3. DestructorBelow(Tail(s))
  <2> SUFFICES ASSUME NEW i \in 1 .. Len(s) - 1, NEW j \in 1 .. Len(s) - 1, i < j,
                      Tail(s)[i].at = "~BaseWindow", Tail(s)[j].at \in {"closed", "~BaseWindow"}
               PROVE  Tail(s)[i].w # Tail(s)[j].w
    BY <1>1 DEF DestructorBelow
  <2>1. i + 1 < j + 1
    OBVIOUS
  <2>2. QED
    BY <2>1, <1>2 DEF DestructorBelow
<1>4. ASSUME Head(s).at = "~BaseWindow", NEW j \in 1 .. Len(s) - 1, Tail(s)[j].at \in {"closed", "~BaseWindow"}
      PROVE  Tail(s)[j].w # Head(s).w
  <2>1. 1 < j + 1 /\ 1 \in 1 .. Len(s)
    BY <1>1
  <2>2. QED
    BY <2>1, <1>2, <1>4 DEF DestructorBelow
<1>5. QED
  BY <1>1, <1>3, <1>4 DEF ToSet

\* A new activation keeps destructors below the "closed" listeners of their windows,
\* unless it is a destructor whose window has one of those below it.
LEMMA DestructorBelowPush ==
  ASSUME NEW k \in Seq(Frame), DestructorBelow(k), NEW x \in Frame,
         x.at = "~BaseWindow" => \A f \in ToSet(k) : f.at \in {"closed", "~BaseWindow"} => f.w # x.w
  PROVE  DestructorBelow(<<x>> \o k)
<1> DEFINE s == <<x>> \o k
<1>1. Len(k) \in Nat /\ Len(s) = Len(k) + 1
  OBVIOUS
<1>2. s[1] = x /\ \A i \in 2 .. Len(k) + 1 : s[i] = k[i - 1] /\ i - 1 \in 1 .. Len(k)
  OBVIOUS
<1> HIDE DEF s
<1> SUFFICES ASSUME NEW i \in 1 .. Len(k) + 1, NEW j \in 1 .. Len(k) + 1, i < j,
                    s[i].at = "~BaseWindow", s[j].at \in {"closed", "~BaseWindow"}
             PROVE  s[i].w # s[j].w
  BY <1>1 DEF DestructorBelow, s
<1>3. j \in 2 .. Len(k) + 1
  BY <1>1
<1>4. CASE i = 1
  <2>1. s[j] \in ToSet(k)
    BY <1>2, <1>3 DEF ToSet
  <2>2. QED
    BY <1>2, <1>4, <2>1
<1>5. CASE i \in 2 .. Len(k) + 1
  <2>1. i - 1 < j - 1
    BY <1>1
  <2>2. QED
    BY <1>2, <1>3, <1>5, <2>1 DEF DestructorBelow
<1>6. QED
  BY <1>1, <1>4, <1>5

\* A new activation on top of k.
LEMMA ActivationFacts ==
  ASSUME NEW at \in Listeners \cup Loops \cup {"~BaseWindow"},
         NEW w \in Window \cup {NoWindow}, NEW todo \in SUBSET Window
  PROVE  LET x == Activation(at, w, todo)
         IN  x \in Frame /\ x.at = at /\ x.w = w /\ x.todo = todo
  BY DEF Activation, Frame

\* What a call adds to the stack.
LEMMA PushFacts ==
  ASSUME NEW at \in Listeners \cup Loops \cup {"~BaseWindow"},
         NEW w \in Window \cup {NoWindow}, NEW todo \in SUBSET Window,
         NEW k \in Seq(Frame)
  PROVE  LET s == Push(at, w, todo, k)
         IN  /\ s \in Seq(Frame) /\ s # <<>>
             /\ Head(s) = Activation(at, w, todo) /\ Tail(s) = k
             /\ \A f : f \in ToSet(s) <=> f = Activation(at, w, todo) \/ f \in ToSet(k)
             /\ DestructorBelow(k) /\ at # "~BaseWindow" => DestructorBelow(s)
             /\ DestructorBelow(k) /\ (\A f \in ToSet(k) : f.at \in {"closed", "~BaseWindow"} => f.w # w) =>
                  DestructorBelow(s)
<1> DEFINE x == Activation(at, w, todo)
<1>1. x \in Frame /\ x.at = at /\ x.w = w
  BY ActivationFacts
<1> HIDE DEF x
<1>2. <<x>> \o k \in Seq(Frame) /\ <<x>> \o k # <<>> /\ Head(<<x>> \o k) = x /\ ToSet(<<x>> \o k) = {x} \cup ToSet(k)
  BY <1>1, PushElements
<1>3. Tail(<<x>> \o k) = k
  BY <1>1
<1>4. DestructorBelow(k) /\ at # "~BaseWindow" => DestructorBelow(<<x>> \o k)
  BY <1>1, DestructorBelowPush
<1>5. DestructorBelow(k) /\ (\A f \in ToSet(k) : f.at \in {"closed", "~BaseWindow"} => f.w # w) => DestructorBelow(<<x>> \o k)
  BY <1>1, DestructorBelowPush
<1>6. QED
  BY <1>2, <1>3, <1>4, <1>5 DEF Push, x

\* The activation on top and those below it.
LEMMA RestFacts ==
  ASSUME TypeOK, stack # <<>>
  PROVE  /\ Top \in Frame /\ Rest \in Seq(Frame)
         /\ \A f : f \in ToSet(stack) <=> f = Top \/ f \in ToSet(Rest)
         /\ DestructorBelow(stack) => DestructorBelow(Rest)
         /\ DestructorBelow(stack) /\ Top.at = "~BaseWindow" =>
              \A f \in ToSet(Rest) : f.at \in {"closed", "~BaseWindow"} => f.w # Top.w
<1>1. stack \in Seq(Frame)
  BY DEF TypeOK
<1>2. QED
  BY <1>1, PopElements, DestructorBelowTail DEF Top, Rest

\* A stack of which every activation was there before, or is of the Application
\* and not of a window; and no "closed" listener was dropped from it.
Continues(k, old) ==
  /\ k \in Seq(Frame)
  /\ DestructorBelow(old) => DestructorBelow(k)
  /\ \A f \in ToSet(k) :
       f \in ToSet(old) \/ (f.w = NoWindow /\ f.at \notin WindowEvents \cup {"~BaseWindow"})
  /\ \A f \in ToSet(old) : f.at = "closed" => f \in ToSet(k)

\* A call made on top of the stack,
LEMMA ContinuesStack == TypeOK => Continues(stack, stack)
  BY DEF Continues, TypeOK

\* a call made by the message loop when nothing is running,
LEMMA ContinuesEmpty == stack = <<>> => Continues(<<>>, stack)
<1>1. DestructorBelow(<<>>) /\ <<>> \in Seq(Frame)
  BY DEF DestructorBelow
<1>2. QED
  BY <1>1, NoElements DEF Continues

\* and the return of any activation but a "closed" listener continue the stack.
LEMMA ContinuesRest ==
  ASSUME TypeOK, stack # <<>>, Top.at # "closed"
  PROVE  Continues(Rest, stack)
  BY RestFacts DEF Continues

\* So does the emission of an application event, or the start of a walk.
LEMMA ContinuesPush ==
  ASSUME NEW k, NEW old, Continues(k, old),
         NEW at \in AppEvents \cup Scripts \cup Loops, NEW todo \in SUBSET Window
  PROVE  Continues(Push(at, NoWindow, todo, k), old)
<1> DEFINE x == Activation(at, NoWindow, todo)
           s == Push(at, NoWindow, todo, k)
<1>1. at \in Listeners \cup Loops \cup {"~BaseWindow"} /\ at \notin WindowEvents \cup {"~BaseWindow"}
  BY DEF Listeners, AppEvents, Scripts, Loops, WindowEvents
<1>2. k \in Seq(Frame) /\ NoWindow \in Window \cup {NoWindow} /\ at # "~BaseWindow"
  BY <1>1 DEF Continues
<1>3. s \in Seq(Frame)
  BY <1>1, <1>2, PushFacts
<1>4. \A f : f \in ToSet(s) <=> f = x \/ f \in ToSet(k)
  BY <1>1, <1>2, PushFacts, ZenonT(40)
<1>5. DestructorBelow(k) => DestructorBelow(s)
  BY <1>1, <1>2, PushFacts
<1>6. x.at = at /\ x.w = NoWindow
  BY <1>1, <1>2, ActivationFacts
<1> HIDE DEF s, x
<1>7. QED
  BY <1>1, <1>3, <1>4, <1>5, <1>6 DEF Continues, s

\* A step that leaves the windows and the tasks alone keeps the invariant if the
\* new stack continues the old one.
LEMMA QuietStep ==
  ASSUME IInv, loop # "aborted", Continues(stack', stack),
         UNCHANGED <<windows, native, api, closed_events>>,
         UNCHANGED tasks \/ tasks' = Append(tasks, Post("QuitWhenIdle", NoWindow))
  PROVE  WindowInv' /\ StackInv' /\ DestructorBelow(stack)' /\ TaskInv' /\ tasks' \in Seq(Task)
<1>1. WindowInv /\ StackInv /\ DestructorBelow(stack) /\ TaskInv /\ tasks \in Seq(Task)
  BY DEF IInv, TypeOK
<1>2. WindowInv'
  BY <1>1 DEF WindowInv, Continues
<1>3. StackInv'
  BY <1>1 DEF StackInv, Continues, WindowEvents
<1>4. DestructorBelow(stack)'
  BY <1>1 DEF Continues
<1>5. TaskInv' /\ tasks' \in Seq(Task)
  <2>1. CASE UNCHANGED tasks
    BY <1>1, <2>1 DEF TaskInv
  <2>2. CASE tasks' = Append(tasks, Post("QuitWhenIdle", NoWindow))
    <3>1. Post("QuitWhenIdle", NoWindow) \in Task
      BY DEF Post, Task
    <3>2. tasks' \in Seq(Task) /\ ToSet(tasks') = ToSet(tasks) \cup {Post("QuitWhenIdle", NoWindow)}
      BY <1>1, <2>2, <3>1, AppendElements
    <3>3. QED
      BY <1>1, <3>2 DEF TaskInv, Post
  <2>3. QED
    BY <2>1, <2>2
<1>6. QED
  BY <1>2, <1>3, <1>4, <1>5

\* What the closing of windows must keep.
WindowsOK ==
  /\ loop \in {"boot", "running", "ended", "exited", "aborted"}
  /\ native \in [Window -> {"none", "open", "closed", "freed"}]
  /\ api \in [Window -> {"none", "live", "marked", "deleting", "freed"}]
  /\ closed_events \in [Window -> {0, 1}]
  /\ stack \in Seq(Frame)
  /\ tasks \in Seq(Task)
  /\ loop # "aborted" =>
       WindowInv /\ StackInv /\ DestructorBelow(stack) /\ TaskInv

-----------------------------------------------------------------------------
(***************************************************************************)
(* The calls of the Application only add activations of their own.         *)
(***************************************************************************)
\* Shutdown emits "quit" exactly when it sets is_shutdown_.
LEMMA ShutdownCall ==
  ASSUME NEW k, NEW old, Continues(k, old), NEW quitting \in BOOLEAN,
         TypeOK, QuitInv, Shutdown(quitting, k)
  PROVE  /\ Continues(stack', old)
         /\ is_quitting' \in BOOLEAN /\ is_shutdown' /\ is_shutdown' \in BOOLEAN
         /\ quit_events' \in Nat /\ QuitInv'
<1>1. "quit" \in AppEvents \cup Scripts \cup Loops /\ {} \in SUBSET Window
  BY DEF AppEvents
<1>2. Continues(Emit("quit", k), old)
  BY <1>1, ContinuesPush DEF Emit
<1>3. CASE is_shutdown
  BY <1>3 DEF Shutdown, TypeOK, QuitInv
<1>4. CASE ~is_shutdown
  BY <1>2, <1>4 DEF Shutdown, TypeOK, QuitInv
<1>5. QED
  BY <1>3, <1>4

\* The emission of "will-quit" leaves the windows' activations alone,
LEMMA NotifyAndShutdownCall ==
  ASSUME NEW k, NEW old, Continues(k, old), NotifyAndShutdown(k)
  PROVE  Continues(stack', old)
<1>1. "will-quit" \in AppEvents \cup Scripts \cup Loops /\ {} \in SUBSET Window
  BY DEF AppEvents
<1>2. Continues(Emit("will-quit", k), old)
  BY <1>1, ContinuesPush DEF Emit
<1>3. QED
  BY <1>2 DEF NotifyAndShutdown

\* and so does that of "before-quit".
LEMMA QuitCall ==
  ASSUME NEW k, NEW old, Continues(k, old), Quit(k)
  PROVE  Continues(stack', old)
<1>1. "before-quit" \in AppEvents \cup Scripts \cup Loops /\ {} \in SUBSET Window
  BY DEF AppEvents
<1>2. Continues(Emit("before-quit", k), old)
  BY <1>1, ContinuesPush DEF Emit
<1>3. QED
  BY <1>2 DEF Quit

\* An application that is exiting when its last window closes shuts down.
LEMMA OnWindowAllClosedCall ==
  ASSUME NEW k, NEW old, Continues(k, old), TypeOK, QuitInv, OnWindowAllClosed(k)
  PROVE  /\ Continues(stack', old)
         /\ is_quitting' \in BOOLEAN /\ is_shutdown' \in BOOLEAN
         /\ quit_events' \in Nat /\ QuitInv'
         /\ is_exiting => is_shutdown'
<1>1. "window-all-closed" \in AppEvents \cup Scripts \cup Loops /\ {} \in SUBSET Window
  BY DEF AppEvents
<1>2. Continues(Emit("window-all-closed", k), old)
  BY <1>1, ContinuesPush DEF Emit
<1>3. CASE is_exiting /\ Shutdown(is_quitting, k)
  <2>1. is_quitting \in BOOLEAN
    BY DEF TypeOK
  <2>2. QED
    BY <1>3, <2>1, ShutdownCall
<1>4. CASE /\ ~is_exiting
           /\ NotifyAndShutdown(k)
           /\ UNCHANGED <<is_quitting, is_shutdown, quit_events>>
  <2>1. Continues(stack', old)
    BY <1>4, NotifyAndShutdownCall
  <2>2. QED
    BY <1>4, <2>1 DEF TypeOK, QuitInv
<1>5. CASE /\ ~is_exiting
           /\ stack' = Emit("window-all-closed", k)
           /\ UNCHANGED <<is_quitting, is_shutdown, quit_events>>
  BY <1>2, <1>5 DEF TypeOK, QuitInv
<1>6. QED
  BY <1>3, <1>4, <1>5 DEF OnWindowAllClosed

-----------------------------------------------------------------------------
(***************************************************************************)
(* The calls of the windows.                                               *)
(***************************************************************************)
\* The activations k that a call of window w returns to, when the call finds its
\* BaseWindow as it is or about to be deleted by a destructor in k.
Hosts(k, w, base) ==
  /\ k \in Seq(Frame) /\ DestructorBelow(k)
  /\ \A f \in ToSet(k) :
       \/ f \in ToSet(stack)
       \/ f.w = NoWindow /\ f.at \notin WindowEvents \cup {"~BaseWindow"}
       \/ base = "deleting" /\ f.w = w /\ f.at = "~BaseWindow"
  /\ \A f \in ToSet(stack) : f.at = "closed" => f \in ToSet(k)
  /\ base = api[w] \/ (base = "deleting" /\ api[w] = "live")

\* The call returns at once.
LEMMA ReturnCall ==
  ASSUME IInv, loop # "aborted", NEW w \in Window, native[w] \notin {"none", "freed"},
         NEW base, NEW k, Hosts(k, w, base),
         stack' = k, api' = [api EXCEPT ![w] = base],
         UNCHANGED <<loop, native, closed_events, windows, tasks>>
  PROVE  WindowsOK'
<1>1. TypeOK /\ WindowInv /\ StackInv /\ DestructorBelow(stack) /\ TaskInv
  BY DEF IInv
<1>2. base \in {"none", "live", "marked", "deleting", "freed"} /\ api' \in [Window -> {"none", "live", "marked", "deleting", "freed"}]
  BY <1>1 DEF Hosts, TypeOK
<1>3. api'[w] = base /\ \A v \in Window : v # w => api'[v] = api[v]
  BY <1>1 DEF TypeOK
<1>4. base # api[w] => base = "deleting" /\ api[w] = "live" /\ native[w] = "open"
  BY <1>1 DEF Hosts, WindowInv
<1>5. WindowInv'
  <2> SUFFICES ASSUME NEW v \in Window
               PROVE  /\ native[v] = "none" <=> api'[v] = "none"
                      /\ api'[v] = "live" => native[v] = "open"
                      /\ api'[v] = "marked" => native[v] = "closed"
                      /\ native[v] = "freed" => api'[v] = "freed"
                      /\ closed_events[v] = IF native[v] \in {"none", "open"} THEN 0 ELSE 1
                      /\ v \in windows => native[v] \in {"open", "closed"}
                      /\ v \in windows /\ native[v] = "closed" =>
                           \E f \in ToSet(k) : f.at = "closed" /\ f.w = v
    BY DEF WindowInv
  <2>1. v \in windows /\ native[v] = "closed" => \E f \in ToSet(k) : f.at = "closed" /\ f.w = v
    BY <1>1 DEF WindowInv, Hosts
  <2>2. QED
    BY <1>1, <1>3, <1>4, <2>1 DEF WindowInv
<1>6. StackInv'
  <2> SUFFICES ASSUME NEW f \in ToSet(k)
               PROVE  /\ f.w # NoWindow <=> f.at \in WindowEvents \cup {"~BaseWindow"}
                      /\ f.w # NoWindow => native[f.w] \notin {"none", "freed"}
                      /\ f.at = "closed" => native[f.w] = "closed" /\ api'[f.w] \in {"marked", "deleting"}
                      /\ f.at = "~BaseWindow" => api'[f.w] = "deleting"
    BY DEF StackInv
  <2>1. CASE f \in ToSet(stack)
    <3>1. f \in Frame
      BY <2>1, <1>1, ElementsByPosition DEF TypeOK
    <3>2. f.w # NoWindow => f.w \in Window
      BY <3>1 DEF Frame
    <3>3. f.at \in {"closed", "~BaseWindow"} => f.w \in Window
      BY <2>1, <3>2, <1>1 DEF StackInv, WindowEvents
    <3>4. QED
      BY <2>1, <3>2, <3>3, <1>1, <1>3, <1>4 DEF StackInv
  <2>2. CASE f.w = NoWindow /\ f.at \notin WindowEvents \cup {"~BaseWindow"}
    BY <2>2 DEF WindowEvents
  <2>3. CASE base = "deleting" /\ f.w = w /\ f.at = "~BaseWindow"
    BY <2>3, <1>3 DEF Window, NoWindow
  <2>4. QED
    BY <2>1, <2>2, <2>3 DEF Hosts
<1>7. TaskInv'
  <2>1. \A t \in ToSet(tasks) : t.do = "DeleteNativeWindow" => t.w \in Window
    <3>1. \A t \in ToSet(tasks) : t \in Task
      BY <1>1, ElementsByPosition DEF TypeOK
    <3>2. QED
      BY <3>1, <1>1 DEF TaskInv, Task
  <2>2. QED
    BY <2>1, <1>1, <1>3, <1>4 DEF TaskInv
<1>8. QED
  BY <1>1, <1>2, <1>5, <1>6, <1>7 DEF WindowsOK, TypeOK, Hosts

\* The call notifies the BaseWindow of a window that stays as it is.
LEMMA NotifyObserverCall ==
  ASSUME IInv, loop # "aborted", NEW w \in Window, native[w] = "open",
         NEW event \in {"close", "fullscreen-changed"}, NEW k, Hosts(k, w, api[w]),
         NotifyObserver(event, w, k),
         UNCHANGED <<native, api, closed_events, windows, tasks>>
  PROVE  WindowsOK'
<1> DEFINE x == Activation(event, w, {})
<1>1. TypeOK /\ WindowInv /\ StackInv /\ DestructorBelow(stack) /\ TaskInv
  BY DEF IInv
<1>2. CASE api[w] = "freed"
  <2>1. loop' = "aborted" /\ stack' = <<>>
    BY <1>2 DEF NotifyObserver
  <2>2. QED
    BY <1>1, <2>1 DEF WindowsOK, TypeOK
<1>3. CASE api[w] # "freed"
  <2>1. stack' = Push(event, w, {}, k) /\ loop' = loop
    BY <1>3 DEF NotifyObserver, EmitOn
  <2>2. event \in Listeners \cup Loops \cup {"~BaseWindow"} /\ {} \in SUBSET Window /\ w \in Window \cup {NoWindow}
    BY DEF Listeners, WindowEvents
  <2>3. x \in Frame /\ x.at = event /\ x.w = w
    BY <2>2, ActivationFacts
  <2>4. k \in Seq(Frame) /\ event # "~BaseWindow"
    BY DEF Hosts
  <2>5. stack' \in Seq(Frame) /\ (DestructorBelow(k) => DestructorBelow(stack'))
    BY <2>1, <2>2, <2>4, PushFacts
  <2>6. \A f : f \in ToSet(stack') <=> f = x \/ f \in ToSet(k)
    BY <2>1, <2>2, <2>4, PushFacts
  <2> HIDE DEF x
  <2>7. WindowInv'
    BY <1>1, <2>6 DEF WindowInv, Hosts
  <2>8. StackInv'
    BY <1>1, <2>3, <2>6 DEF StackInv, Hosts, WindowEvents, Window, NoWindow
  <2>9. TaskInv'
    BY <1>1 DEF TaskInv
  <2>10. QED
    BY <1>1, <2>1, <2>5, <2>7, <2>8, <2>9 DEF WindowsOK, TypeOK, Hosts
<1>4. QED
  BY <1>2, <1>3

\* NotifyWindowClosed emits "closed" for an open window and nothing for a closed one:
\* the window stays tied to its activations.
LEMMA NotifyWindowClosedCall ==
  ASSUME IInv, loop # "aborted", NEW w \in Window, native[w] \notin {"none", "freed"},
         NEW base, NEW k, Hosts(k, w, base), NotifyWindowClosed(w, base, k),
         UNCHANGED <<windows, tasks>>
  PROVE  WindowsOK'
<1>1. TypeOK /\ WindowInv /\ StackInv /\ DestructorBelow(stack) /\ TaskInv
  BY DEF IInv
<1>2. CASE /\ stack' = k
           /\ api' = [api EXCEPT ![w] = base]
           /\ UNCHANGED <<loop, native, closed_events>>
  BY <1>2, ReturnCall
<1>3. CASE /\ native[w] = "open"
           /\ native' = [native EXCEPT ![w] = "closed"]
           /\ NotifyObserver("closed", w, k)
           /\ api' = [api EXCEPT ![w] = IF base = "live" THEN "marked" ELSE base]
           /\ closed_events' = [closed_events EXCEPT ![w] = IF base = "freed" THEN @ ELSE @ + 1]
  <2>1. base \in {"live", "deleting", "freed"}
    BY <1>1, <1>3 DEF Hosts, WindowInv, TypeOK
  <2>2. closed_events[w] = 0
    BY <1>1, <1>3 DEF WindowInv
  <2>3. /\ native' \in [Window -> {"none", "open", "closed", "freed"}]
        /\ api' \in [Window -> {"none", "live", "marked", "deleting", "freed"}]
        /\ closed_events' \in [Window -> {0, 1}]
    BY <1>1, <1>3, <2>1, <2>2 DEF TypeOK
  <2>4. CASE api[w] = "freed"
    <3>1. loop' = "aborted" /\ stack' = <<>>
      BY <1>3, <2>4 DEF NotifyObserver
    <3>2. QED
      BY <1>1, <2>3, <3>1 DEF WindowsOK, TypeOK
  <2>5. CASE api[w] # "freed"
    <3> DEFINE x == Activation("closed", w, {})
    <3>1. stack' = Push("closed", w, {}, k) /\ loop' = loop
      BY <1>3, <2>5 DEF NotifyObserver, EmitOn
    <3>2. "closed" \in Listeners \cup Loops \cup {"~BaseWindow"} /\ {} \in SUBSET Window /\ w \in Window \cup {NoWindow}
      BY DEF Listeners, WindowEvents
    <3>3. x \in Frame /\ x.at = "closed" /\ x.w = w
      BY <3>2, ActivationFacts
    <3>4. k \in Seq(Frame) /\ "closed" # "~BaseWindow"
      BY DEF Hosts
    <3>5. stack' \in Seq(Frame) /\ (DestructorBelow(k) => DestructorBelow(stack'))
      BY <3>1, <3>2, <3>4, PushFacts
    <3>6. \A f : f \in ToSet(stack') <=> f = x \/ f \in ToSet(k)
      BY <3>1, <3>2, <3>4, PushFacts
    <3> HIDE DEF x
    <3>7. /\ native'[w] = "closed" /\ api'[w] \in {"marked", "deleting"} /\ closed_events'[w] = 1
          /\ base = "deleting" => api'[w] = "deleting"
          /\ api[w] = "deleting" => base = "deleting"
      BY <1>1, <1>3, <2>1, <2>2, <2>5 DEF TypeOK, Hosts
    <3>8. \A v \in Window : v # w =>
             native'[v] = native[v] /\ api'[v] = api[v] /\ closed_events'[v] = closed_events[v]
      BY <1>1, <1>3 DEF TypeOK
    <3>9. api'[w] = "marked" => base = "live"
      BY <1>1, <1>3, <2>1 DEF TypeOK
    <3>10. WindowInv'
      <4> SUFFICES ASSUME NEW v \in Window
                   PROVE  /\ native'[v] = "none" <=> api'[v] = "none"
                          /\ api'[v] = "live" => native'[v] = "open"
                          /\ api'[v] = "marked" => native'[v] = "closed"
                          /\ native'[v] = "freed" => api'[v] = "freed"
                          /\ closed_events'[v] = IF native'[v] \in {"none", "open"} THEN 0 ELSE 1
                          /\ v \in windows => native'[v] \in {"open", "closed"}
                          /\ v \in windows /\ native'[v] = "closed" =>
                               \E f \in ToSet(stack') : f.at = "closed" /\ f.w = v
        BY DEF WindowInv
      <4>1. CASE v = w
        BY <3>3, <3>6, <3>7, <4>1
      <4>2. CASE v # w
        <5>1. v \in windows /\ native[v] = "closed" => \E f \in ToSet(stack') : f.at = "closed" /\ f.w = v
          BY <1>1, <3>6 DEF WindowInv, Hosts
        <5>2. QED
          BY <1>1, <3>8, <4>2, <5>1 DEF WindowInv
      <4>3. QED
        BY <4>1, <4>2
    <3>11. StackInv'
      <4> SUFFICES ASSUME NEW f \in ToSet(stack')
                   PROVE  /\ f.w # NoWindow <=> f.at \in WindowEvents \cup {"~BaseWindow"}
                          /\ f.w # NoWindow => native'[f.w] \notin {"none", "freed"}
                          /\ f.at = "closed" => native'[f.w] = "closed" /\ api'[f.w] \in {"marked", "deleting"}
                          /\ f.at = "~BaseWindow" => api'[f.w] = "deleting"
        BY DEF StackInv
      <4>1. CASE f = x
        BY <4>1, <3>3, <3>7 DEF WindowEvents, Window, NoWindow
      <4>2. CASE f \in ToSet(stack)
        <5>1. f \in Frame
          BY <4>2, <1>1, ElementsByPosition DEF TypeOK
        <5>2. f.w # NoWindow => f.w \in Window
          BY <5>1 DEF Frame
        <5>3. f.at \in {"closed", "~BaseWindow"} => f.w \in Window
          BY <4>2, <5>2, <1>1 DEF StackInv, WindowEvents
        <5>4. QED
          BY <4>2, <5>2, <5>3, <1>1, <3>7, <3>8 DEF StackInv
      <4>3. CASE f.w = NoWindow /\ f.at \notin WindowEvents \cup {"~BaseWindow"}
        BY <4>3 DEF WindowEvents
      <4>4. CASE base = "deleting" /\ f.w = w /\ f.at = "~BaseWindow"
        BY <4>4, <3>7 DEF Window, NoWindow
      <4>5. QED
        BY <4>1, <4>2, <4>3, <4>4, <3>6 DEF Hosts
    <3>12. TaskInv'
      <4>1. \A t \in ToSet(tasks) : t.do = "DeleteNativeWindow" => t.w \in Window
        <5>1. \A t \in ToSet(tasks) : t \in Task
          BY <1>1, ElementsByPosition DEF TypeOK
        <5>2. QED
          BY <5>1, <1>1 DEF TaskInv, Task
      <4>2. QED
        BY <4>1, <1>1, <2>5, <3>8 DEF TaskInv
    <3>13. QED
      BY <1>1, <2>3, <3>1, <3>5, <3>10, <3>11, <3>12 DEF WindowsOK, TypeOK, Hosts
  <2>6. QED
    BY <2>4, <2>5
<1>4. QED
  BY <1>2, <1>3 DEF NotifyWindowClosed

\* The same of CloseImmediately, which may put the close off,
LEMMA CloseImmediatelyCall ==
  ASSUME IInv, loop # "aborted", NEW w \in Window, native[w] \notin {"none", "freed"},
         NEW base, NEW k, Hosts(k, w, base), CloseImmediately(w, base, k),
         UNCHANGED <<windows, tasks>>
  PROVE  WindowsOK' /\ deferred_close' \in [Window -> BOOLEAN]
<1>1. CASE /\ deferred_close' = [deferred_close EXCEPT ![w] = TRUE]
           /\ api' = [api EXCEPT ![w] = base]
           /\ stack' = k
           /\ UNCHANGED <<loop, native, closed_events>>
  BY <1>1, ReturnCall DEF IInv, TypeOK
<1>2. CASE NotifyWindowClosed(w, base, k) /\ UNCHANGED deferred_close
  BY <1>2, NotifyWindowClosedCall DEF IInv, TypeOK
<1>3. QED
  BY <1>1, <1>2 DEF CloseImmediately

\* and of Close, which may ask the listeners first.
LEMMA CloseCall ==
  ASSUME IInv, loop # "aborted", NEW w \in Window, native[w] = "open",
         NEW k, Hosts(k, w, api[w]), Close(w, k), UNCHANGED <<windows, tasks>>
  PROVE  WindowsOK' /\ deferred_close' \in [Window -> BOOLEAN] /\ is_quitting' \in BOOLEAN
<1>1. TypeOK
  BY DEF IInv
<1>2. CASE /\ is_quitting' = FALSE
           /\ stack' = k
           /\ UNCHANGED <<loop, native, api, deferred_close, closed_events>>
  <2>1. api' = [api EXCEPT ![w] = api[w]]
    BY <1>1, <1>2 DEF TypeOK
  <2>2. QED
    BY <1>1, <1>2, <2>1, ReturnCall DEF TypeOK
<1>3. CASE /\ NotifyObserver("close", w, k)
           /\ UNCHANGED <<is_quitting, native, api, deferred_close, closed_events>>
  BY <1>1, <1>3, NotifyObserverCall DEF TypeOK
<1>4. CASE CloseImmediately(w, api[w], k) /\ UNCHANGED is_quitting
  BY <1>1, <1>4, CloseImmediatelyCall DEF TypeOK
<1>5. QED
  BY <1>2, <1>3, <1>4 DEF Close

-----------------------------------------------------------------------------
(***************************************************************************)
(* Every action keeps the invariant.                                       *)
(***************************************************************************)
Loop == {"boot", "running", "ended", "exited", "aborted"}

\* A step that touches no window, and posts no task but the end of the loop.
LEMMA QuietCall ==
  ASSUME IInv, loop # "aborted", loop' \in Loop, Continues(stack', stack),
         UNCHANGED <<windows, native, api, closed_events>>,
         UNCHANGED tasks \/ tasks' = Append(tasks, Post("QuitWhenIdle", NoWindow))
  PROVE  WindowsOK'
<1>1. stack' \in Seq(Frame)
  BY DEF Continues
<1>2. QED
  BY <1>1, QuietStep DEF WindowsOK, IInv, TypeOK, Loop

\* A stack that continues can host the close of a window.
LEMMA ContinuesHosts ==
  ASSUME IInv, loop # "aborted", NEW w \in Window, NEW k, Continues(k, stack)
  PROVE  Hosts(k, w, api[w])
  BY DEF IInv, Continues, Hosts

\* The parts of the invariant put together: what is left to show of each action.
LEMMA Assembly ==
  ASSUME WindowsOK',
         is_ready' \in BOOLEAN, is_quitting' \in BOOLEAN, is_exiting' \in BOOLEAN,
         is_shutdown' \in BOOLEAN, quit_closure' \in BOOLEAN, quit_when_idle' \in BOOLEAN,
         windows' \in SUBSET Window, closable' \in [Window -> BOOLEAN],
         transition' \in [Window -> BOOLEAN], deferred_close' \in [Window -> BOOLEAN],
         calls' \in Nat, quit_events' \in Nat, QuitInv', ExitCompletes'
  PROVE  IInv'
  BY DEF IInv, TypeOK, WindowsOK

\* A script starts: no window is touched.
LEMMA RunScriptStep == ASSUME IInv, RunScript PROVE IInv'
<1>1. TypeOK /\ QuitInv /\ ExitCompletes /\ stack = <<>> /\ loop \in {"boot", "running"}
  BY DEF IInv, RunScript, Unwound, Alive, Idle
<1>2. "script" \in AppEvents \cup Scripts \cup Loops /\ {} \in SUBSET Window
  BY DEF Scripts
<1>3. Continues(stack', stack)
  BY <1>1, <1>2, ContinuesEmpty, ContinuesPush DEF RunScript, Emit
<1>4. /\ UNCHANGED <<loop, flags, closing, wins, tasks, history>>
      /\ calls' \in Nat
  BY <1>1 DEF RunScript, Spend, TypeOK
<1>5. WindowsOK'
  BY <1>1, <1>3, <1>4, QuietCall DEF wins, history, Loop
<1>6. QED
  BY <1>1, <1>4, <1>5, Assembly DEF TypeOK, flags, closing, wins, history, QuitInv, ExitCompletes

\* "ready" is emitted: no window is touched.
LEMMA DidFinishLaunchingStep == ASSUME IInv, DidFinishLaunching PROVE IInv'
<1>1. TypeOK /\ QuitInv /\ ExitCompletes /\ stack = <<>> /\ loop \in {"boot", "running"}
  BY DEF IInv, DidFinishLaunching, Unwound, Alive, Idle
<1>2. "ready" \in AppEvents \cup Scripts \cup Loops /\ {} \in SUBSET Window
  BY DEF AppEvents
<1>3. Continues(stack', stack)
  BY <1>1, <1>2, ContinuesEmpty, ContinuesPush DEF DidFinishLaunching, Emit
<1>4. /\ is_ready' \in BOOLEAN
      /\ UNCHANGED <<loop, is_quitting, is_exiting, is_shutdown, closing, wins, tasks, calls, history>>
  BY DEF DidFinishLaunching
<1>5. WindowsOK'
  BY <1>1, <1>3, <1>4, QuietCall DEF wins, history, Loop
<1>6. QED
  BY <1>1, <1>4, <1>5, Assembly DEF TypeOK, closing, wins, history, QuitInv, ExitCompletes

\* The loop begins; at most the end of the loop is posted.
LEMMA WillRunMainMessageLoopStep == ASSUME IInv, WillRunMainMessageLoop PROVE IInv'
<1>1. TypeOK /\ QuitInv /\ ExitCompletes /\ stack = <<>> /\ loop = "boot"
  BY DEF IInv, WillRunMainMessageLoop, Unwound, Idle
<1>2. /\ loop' = "running" /\ quit_closure' \in BOOLEAN
      /\ UNCHANGED tasks \/ tasks' = Append(tasks, Post("QuitWhenIdle", NoWindow))
      /\ UNCHANGED <<flags, quit_when_idle, wins, stack, calls, history>>
  BY <1>1 DEF WillRunMainMessageLoop, TypeOK
<1>3. Continues(stack', stack)
  BY <1>1, <1>2, ContinuesStack
<1>4. WindowsOK'
  BY <1>1, <1>2, <1>3, QuietCall DEF wins, history, Loop
<1>5. QED
  BY <1>1, <1>2, <1>4, Assembly DEF TypeOK, flags, wins, history, QuitInv, ExitCompletes

\* The system asks to quit.
LEMMA QuitFromSystemStep == ASSUME IInv, QuitFromSystem PROVE IInv'
<1>1. TypeOK /\ QuitInv /\ ExitCompletes /\ stack = <<>> /\ loop = "running"
  BY DEF IInv, QuitFromSystem, Unwound, Idle
<1>2. Continues(stack', stack)
  BY <1>1, ContinuesEmpty, QuitCall DEF QuitFromSystem
<1>3. /\ UNCHANGED <<loop, flags, closing, wins, tasks, history>>
      /\ calls' \in Nat
  BY <1>1 DEF QuitFromSystem, Spend, TypeOK
<1>4. WindowsOK'
  BY <1>1, <1>2, <1>3, QuietCall DEF wins, history, Loop
<1>5. QED
  BY <1>1, <1>3, <1>4, Assembly DEF TypeOK, flags, closing, wins, history, QuitInv, ExitCompletes

\* quit() in a listener.
LEMMA JsQuitStep == ASSUME IInv, JsQuit PROVE IInv'
<1>1. TypeOK /\ QuitInv /\ ExitCompletes /\ loop \in {"boot", "running"}
  BY DEF IInv, JsQuit, InJavaScript, Alive
<1>2. Continues(stack', stack)
  BY <1>1, ContinuesStack, QuitCall DEF JsQuit
<1>3. /\ UNCHANGED <<loop, flags, closing, wins, tasks, history>>
      /\ calls' \in Nat
  BY <1>1 DEF JsQuit, Spend, TypeOK
<1>4. WindowsOK'
  BY <1>1, <1>2, <1>3, QuietCall DEF wins, history, Loop
<1>5. QED
  BY <1>1, <1>3, <1>4, Assembly DEF TypeOK, flags, closing, wins, history, QuitInv, ExitCompletes

\* The loop ends: nothing else changes.
LEMMA LoopEndsStep == ASSUME IInv, LoopEnds PROVE IInv'
<1>1. TypeOK /\ QuitInv /\ ExitCompletes /\ stack = <<>> /\ loop = "running"
  BY DEF IInv, LoopEnds, Unwound, Idle
<1>2. /\ loop' = "ended"
      /\ UNCHANGED <<flags, closing, wins, tasks, stack, calls, history>>
  BY DEF LoopEnds
<1>3. Continues(stack', stack)
  BY <1>1, <1>2, ContinuesStack
<1>4. WindowsOK'
  BY <1>1, <1>2, <1>3, QuietCall DEF wins, history, Loop
<1>5. QED
  BY <1>1, <1>2, <1>4, Assembly DEF TypeOK, flags, closing, wins, history, QuitInv, ExitCompletes

\* A transition starts: only its mark and the bound change.
LEMMA StartTransitionStep == ASSUME IInv, NEW w \in Window, StartTransition(w) PROVE IInv'
<1>1. TypeOK /\ QuitInv /\ ExitCompletes /\ loop \in {"boot", "running"}
  BY DEF IInv, StartTransition, Alive
<1>2. /\ transition' \in [Window -> BOOLEAN] /\ calls' \in Nat
      /\ UNCHANGED <<loop, flags, closing, windows, native, api, closable, deferred_close,
                     tasks, stack, history>>
  BY <1>1 DEF StartTransition, Spend, TypeOK
<1>3. Continues(stack', stack)
  BY <1>1, <1>2, ContinuesStack
<1>4. WindowsOK'
  BY <1>1, <1>2, <1>3, QuietCall DEF history, Loop
<1>5. QED
  BY <1>1, <1>2, <1>4, Assembly DEF TypeOK, flags, closing, history, QuitInv, ExitCompletes

\* exit(): without windows it shuts down, which is what ExitCompletes asks.
LEMMA JsExitStep == ASSUME IInv, JsExit PROVE IInv'
<1>1. TypeOK /\ QuitInv /\ ExitCompletes /\ loop \in {"boot", "running"}
  BY DEF IInv, JsExit, InJavaScript, Alive
<1>2. calls' \in Nat /\ UNCHANGED <<is_ready, closing, wins, tasks, closed_events>>
  BY <1>1 DEF JsExit, Spend, TypeOK
<1>3. CASE /\ loop' = "exited"
           /\ UNCHANGED <<is_quitting, is_exiting, is_shutdown, quit_events, stack>>
  <2>1. Continues(stack', stack)
    BY <1>1, <1>3, ContinuesStack
  <2>2. WindowsOK'
    BY <1>1, <1>2, <1>3, <2>1, QuietCall DEF wins, Loop
  <2>3. QED
    BY <1>1, <1>2, <1>3, <2>2, Assembly DEF TypeOK, closing, wins, QuitInv, ExitCompletes
<1>4. CASE is_exiting' = TRUE /\ windows = {} /\ Shutdown(TRUE, stack) /\ UNCHANGED loop
  <2>1. /\ Continues(stack', stack)
        /\ is_quitting' \in BOOLEAN /\ is_shutdown' /\ is_shutdown' \in BOOLEAN
        /\ quit_events' \in Nat /\ QuitInv'
    BY <1>1, <1>4, ContinuesStack, ShutdownCall
  <2>2. WindowsOK'
    BY <1>1, <1>2, <1>4, <2>1, QuietCall DEF wins, Loop
  <2>3. QED
    BY <1>1, <1>2, <1>4, <2>1, <2>2, Assembly DEF TypeOK, closing, wins, ExitCompletes
<1>5. CASE /\ is_exiting' = TRUE /\ windows # {} /\ is_quitting' = TRUE
           /\ stack' = Iterate("DestroyAllWindows", windows, stack)
           /\ UNCHANGED <<is_shutdown, quit_events, loop>>
  <2>1. "DestroyAllWindows" \in AppEvents \cup Scripts \cup Loops /\ windows \in SUBSET Window
    BY <1>1 DEF Loops, TypeOK
  <2>2. Continues(stack', stack)
    BY <1>1, <1>5, <2>1, ContinuesStack, ContinuesPush DEF Iterate
  <2>3. WindowsOK'
    BY <1>1, <1>2, <1>5, <2>2, QuietCall DEF wins, Loop
  <2>4. QED
    BY <1>1, <1>2, <1>5, <2>3, Assembly DEF TypeOK, closing, wins, QuitInv, ExitCompletes
<1>6. QED
  BY <1>3, <1>4, <1>5 DEF JsExit

\* A listener whose answer is ignored returns.
LEMMA ReturnFromNotificationStep == ASSUME IInv, ReturnFromNotification PROVE IInv'
<1>1. /\ TypeOK /\ QuitInv /\ ExitCompletes /\ loop \in {"boot", "running"}
      /\ stack # <<>> /\ Top.at # "closed"
  BY DEF IInv, ReturnFromNotification, Alive, Running
<1>2. /\ stack' = Rest
      /\ UNCHANGED <<loop, flags, closing, wins, tasks, calls, history>>
  BY DEF ReturnFromNotification
<1>3. Continues(stack', stack)
  BY <1>1, <1>2, ContinuesRest
<1>4. WindowsOK'
  BY <1>1, <1>2, <1>3, QuietCall DEF wins, history, Loop
<1>5. QED
  BY <1>1, <1>2, <1>4, Assembly DEF TypeOK, flags, closing, wins, history, QuitInv, ExitCompletes

\* The answer to "before-quit" resets is_quitting_ or starts to close the windows.
LEMMA ReturnFromBeforeQuitStep ==
  ASSUME IInv, NEW prevented \in BOOLEAN, ReturnFromBeforeQuit(prevented) PROVE IInv'
<1>1. /\ TypeOK /\ QuitInv /\ ExitCompletes /\ loop \in {"boot", "running"}
      /\ stack # <<>> /\ Top.at # "closed"
  BY DEF IInv, ReturnFromBeforeQuit, Alive, Running
<1>2. /\ is_quitting' \in BOOLEAN
      /\ UNCHANGED <<loop, is_ready, is_exiting, is_shutdown, closing, wins, tasks, calls, history>>
  BY DEF ReturnFromBeforeQuit
<1>3. Continues(Rest, stack)
  BY <1>1, ContinuesRest
<1>4. "CloseAllWindows" \in AppEvents \cup Scripts \cup Loops /\ windows \in SUBSET Window
  BY <1>1 DEF Loops, TypeOK
<1>5. Continues(Iterate("CloseAllWindows", windows, Rest), stack)
  BY <1>3, <1>4, ContinuesPush DEF Iterate
<1>6. Continues(stack', stack)
  BY <1>3, <1>5, NotifyAndShutdownCall DEF ReturnFromBeforeQuit
<1>7. WindowsOK'
  BY <1>1, <1>2, <1>6, QuietCall DEF wins, history, Loop
<1>8. QED
  BY <1>1, <1>2, <1>7, Assembly DEF TypeOK, closing, wins, history, QuitInv, ExitCompletes

\* The answer to "will-quit" resets is_quitting_ or shuts down.
LEMMA ReturnFromWillQuitStep ==
  ASSUME IInv, NEW prevented \in BOOLEAN, ReturnFromWillQuit(prevented) PROVE IInv'
<1>1. /\ TypeOK /\ QuitInv /\ ExitCompletes /\ loop \in {"boot", "running"}
      /\ stack # <<>> /\ Top.at # "closed"
  BY DEF IInv, ReturnFromWillQuit, Alive, Running
<1>2. UNCHANGED <<loop, is_ready, is_exiting, closing, wins, tasks, calls, closed_events>>
  BY DEF ReturnFromWillQuit
<1>3. Continues(Rest, stack)
  BY <1>1, ContinuesRest
<1>4. CASE /\ is_quitting' = FALSE /\ stack' = Rest /\ UNCHANGED <<is_shutdown, quit_events>>
  <2>1. WindowsOK'
    BY <1>1, <1>2, <1>3, <1>4, QuietCall DEF wins, Loop
  <2>2. QED
    BY <1>1, <1>2, <1>4, <2>1, Assembly DEF TypeOK, closing, wins, QuitInv, ExitCompletes
<1>5. CASE Shutdown(is_quitting, Rest)
  <2>1. is_quitting \in BOOLEAN
    BY <1>1 DEF TypeOK
  <2>2. /\ Continues(stack', stack)
        /\ is_quitting' \in BOOLEAN /\ is_shutdown' /\ is_shutdown' \in BOOLEAN
        /\ quit_events' \in Nat /\ QuitInv'
    BY <1>1, <1>3, <1>5, <2>1, ShutdownCall
  <2>3. WindowsOK'
    BY <1>1, <1>2, <2>2, QuietCall DEF wins, Loop
  <2>4. QED
    BY <1>1, <1>2, <2>2, <2>3, Assembly DEF TypeOK, closing, wins, ExitCompletes
<1>6. QED
  BY <1>4, <1>5 DEF ReturnFromWillQuit

\* "quit" returns and the end of the loop is posted.
LEMMA ReturnFromQuitStep == ASSUME IInv, ReturnFromQuit PROVE IInv'
<1>1. /\ TypeOK /\ QuitInv /\ ExitCompletes /\ loop \in {"boot", "running"}
      /\ stack # <<>> /\ Top.at # "closed"
  BY DEF IInv, ReturnFromQuit, Alive, Running
<1>2. /\ stack' = Rest /\ quit_closure' \in BOOLEAN
      /\ UNCHANGED tasks \/ tasks' = Append(tasks, Post("QuitWhenIdle", NoWindow))
      /\ UNCHANGED <<loop, flags, quit_when_idle, wins, calls, history>>
  BY DEF ReturnFromQuit
<1>3. Continues(stack', stack)
  BY <1>1, <1>2, ContinuesRest
<1>4. WindowsOK'
  BY <1>1, <1>2, <1>3, QuietCall DEF wins, history, Loop
<1>5. QED
  BY <1>1, <1>2, <1>4, Assembly DEF TypeOK, flags, wins, history, QuitInv, ExitCompletes

\* A new window: it is open, live and in the list, and no activation refers to it.
LEMMA JsNewStep ==
  ASSUME IInv, NEW w \in Window, NEW can_close \in BOOLEAN, JsNew(w, can_close) PROVE IInv'
<1>1. /\ TypeOK /\ QuitInv /\ ExitCompletes /\ loop \in {"boot", "running"}
      /\ WindowInv /\ StackInv /\ DestructorBelow(stack) /\ TaskInv
  BY DEF IInv, JsNew, InJavaScript, Alive
<1>2. /\ native[w] = "none"
      /\ native' = [native EXCEPT ![w] = "open"]
      /\ api' = [api EXCEPT ![w] = "live"]
      /\ closable' \in [Window -> BOOLEAN]
      /\ windows' = windows \cup {w}
      /\ calls' \in Nat
      /\ UNCHANGED <<loop, flags, closing, transition, deferred_close, tasks, stack, history>>
  BY <1>1 DEF JsNew, Spend, TypeOK
<1>3. /\ native' \in [Window -> {"none", "open", "closed", "freed"}]
      /\ api' \in [Window -> {"none", "live", "marked", "deleting", "freed"}]
      /\ native'[w] = "open" /\ api'[w] = "live"
      /\ \A v \in Window : v # w => native'[v] = native[v] /\ api'[v] = api[v]
  BY <1>1, <1>2 DEF TypeOK
<1>4. WindowInv'
  BY <1>1, <1>2, <1>3 DEF WindowInv, history
<1>5. StackInv'
  <2>1. \A f \in ToSet(stack) : f.w = NoWindow \/ (f.w \in Window /\ f.w # w)
    <3>1. \A f \in ToSet(stack) : f \in Frame
      BY <1>1, ElementsByPosition DEF TypeOK
    <3>2. QED
      BY <1>1, <1>2, <3>1 DEF StackInv, Frame
  <2>2. QED
    BY <1>1, <1>2, <1>3, <2>1 DEF StackInv, WindowEvents
<1>6. TaskInv'
  <2>1. \A t \in ToSet(tasks) : t.do = "DeleteNativeWindow" => t.w \in Window
    <3>1. \A t \in ToSet(tasks) : t \in Task
      BY <1>1, ElementsByPosition DEF TypeOK
    <3>2. QED
      BY <3>1, <1>1 DEF TaskInv, Task
  <2>2. api[w] = "none"
    BY <1>1, <1>2 DEF WindowInv
  <2>3. QED
    BY <1>1, <1>2, <1>3, <2>1, <2>2 DEF TaskInv
<1>7. DestructorBelow(stack)'
  BY <1>1, <1>2
<1>8. WindowsOK'
  BY <1>1, <1>2, <1>3, <1>4, <1>5, <1>6, <1>7 DEF WindowsOK, TypeOK, history
<1>9. QED
  BY <1>1, <1>2, <1>8, Assembly DEF TypeOK, flags, closing, history, QuitInv, ExitCompletes

\* The listeners of an open window are told of the end of a transition.
LEMMA FinishTransitionStep == ASSUME IInv, NEW w \in Window, FinishTransition(w) PROVE IInv'
<1>1. /\ TypeOK /\ QuitInv /\ ExitCompletes /\ loop \in {"boot", "running"}
      /\ stack = <<>> /\ native[w] = "open"
  BY DEF IInv, FinishTransition, Unwound, Alive, Idle
<1>2. /\ transition' \in [Window -> BOOLEAN]
      /\ UNCHANGED <<flags, closing, windows, native, api, closable, deferred_close, tasks,
                     calls, history>>
  BY <1>1 DEF FinishTransition, TypeOK
<1>3. Hosts(<<>>, w, api[w])
  BY <1>1, ContinuesEmpty, ContinuesHosts
<1>4. WindowsOK'
  BY <1>1, <1>2, <1>3, NotifyObserverCall DEF FinishTransition, history
<1>5. QED
  BY <1>1, <1>2, <1>4, Assembly DEF TypeOK, flags, closing, history, QuitInv, ExitCompletes

\* The user closes an open window.
LEMMA UserClosesStep == ASSUME IInv, NEW w \in Window, UserCloses(w) PROVE IInv'
<1>1. /\ TypeOK /\ QuitInv /\ ExitCompletes /\ loop \in {"boot", "running"}
      /\ stack = <<>> /\ native[w] = "open"
  BY DEF IInv, UserCloses, Unwound, Alive, Idle
<1>2. /\ calls' \in Nat
      /\ UNCHANGED <<is_ready, is_exiting, is_shutdown, closing, windows, closable,
                     transition, tasks, quit_events>>
  BY <1>1 DEF UserCloses, Spend, TypeOK
<1>3. Hosts(<<>>, w, api[w])
  BY <1>1, ContinuesEmpty, ContinuesHosts
<1>4. WindowsOK' /\ deferred_close' \in [Window -> BOOLEAN] /\ is_quitting' \in BOOLEAN
  BY <1>1, <1>2, <1>3, CloseCall DEF UserCloses
<1>5. QED
  BY <1>1, <1>2, <1>4, Assembly DEF TypeOK, closing, QuitInv, ExitCompletes

\* close(): a live BaseWindow has an open window.
LEMMA JsCloseStep == ASSUME IInv, NEW w \in Window, JsClose(w) PROVE IInv'
<1>1. /\ TypeOK /\ QuitInv /\ ExitCompletes /\ loop \in {"boot", "running"}
      /\ native[w] = "open"
  BY DEF IInv, JsClose, InJavaScript, Alive, WindowInv
<1>2. /\ calls' \in Nat
      /\ UNCHANGED <<is_ready, is_exiting, is_shutdown, closing, windows, closable,
                     transition, tasks, quit_events>>
  BY <1>1 DEF JsClose, Spend, TypeOK
<1>3. Hosts(stack, w, api[w])
  BY <1>1, ContinuesStack, ContinuesHosts
<1>4. WindowsOK' /\ deferred_close' \in [Window -> BOOLEAN] /\ is_quitting' \in BOOLEAN
  BY <1>1, <1>2, <1>3, CloseCall DEF JsClose
<1>5. QED
  BY <1>1, <1>2, <1>4, Assembly DEF TypeOK, closing, QuitInv, ExitCompletes

\* The activations when a destructor starts.
LEMMA DestructorFacts ==
  ASSUME NEW w \in Window, NEW k \in Seq(Frame)
  PROVE  \A f : f \in ToSet(Destructor(w, k)) <=> f = Activation("~BaseWindow", w, {}) \/ f \in ToSet(k)
<1>1. PICK at \in Listeners \cup Loops \cup {"~BaseWindow"} : at = "~BaseWindow"
  OBVIOUS
<1>2. w \in Window \cup {NoWindow} /\ {} \in SUBSET Window
  OBVIOUS
<1>3. \A f : f \in ToSet(Push(at, w, {}, k)) <=> f = Activation(at, w, {}) \/ f \in ToSet(k)
  BY <1>2, PushFacts
<1>4. QED
  BY <1>1, <1>3 DEF Destructor

\* destroy(): the destructor waits below the "closed" listener it emits to.
LEMMA JsDestroyStep == ASSUME IInv, NEW w \in Window, JsDestroy(w) PROVE IInv'
<1> DEFINE x == Activation("~BaseWindow", w, {})
           below == Destructor(w, stack)
<1>1. /\ TypeOK /\ QuitInv /\ ExitCompletes /\ loop \in {"boot", "running"}
      /\ WindowInv /\ StackInv /\ DestructorBelow(stack)
      /\ api[w] = "live" /\ native[w] = "open"
  BY DEF IInv, JsDestroy, InJavaScript, Alive, WindowInv
<1>2. /\ calls' \in Nat
      /\ UNCHANGED <<flags, closing, windows, closable, transition, tasks, quit_events>>
  BY <1>1 DEF JsDestroy, Spend, TypeOK
<1>3. Hosts(below, w, "deleting")
  <2>1. /\ stack \in Seq(Frame) /\ {} \in SUBSET Window /\ w \in Window \cup {NoWindow}
        /\ "~BaseWindow" \in Listeners \cup Loops \cup {"~BaseWindow"}
    BY <1>1 DEF TypeOK
  <2>2. x.at = "~BaseWindow" /\ x.w = w
    BY <2>1, ActivationFacts
  <2>3. \A f \in ToSet(stack) : f.at \in {"closed", "~BaseWindow"} => f.w # w
    BY <1>1 DEF StackInv
  <2>4. below \in Seq(Frame) /\ DestructorBelow(below)
    BY <1>1, <2>1, <2>3, PushFacts DEF Destructor
  <2>5. \A f : f \in ToSet(below) <=> f = x \/ f \in ToSet(stack)
    BY <2>1, DestructorFacts
  <2> HIDE DEF x, below
  <2>6. QED
    BY <1>1, <2>2, <2>4, <2>5 DEF Hosts
<1>4. WindowsOK' /\ deferred_close' \in [Window -> BOOLEAN]
  BY <1>1, <1>2, <1>3, CloseImmediatelyCall DEF JsDestroy
<1>5. QED
  BY <1>1, <1>2, <1>4, Assembly DEF TypeOK, flags, closing, QuitInv, ExitCompletes

\* The answer to "close" cancels the close or carries it out, if it is still open.
LEMMA ReturnFromCloseStep ==
  ASSUME IInv, NEW prevented \in BOOLEAN, ReturnFromClose(prevented) PROVE IInv'
<1>1. /\ TypeOK /\ QuitInv /\ ExitCompletes /\ loop \in {"boot", "running"}
      /\ StackInv /\ stack # <<>> /\ Top.at = "close"
  BY DEF IInv, ReturnFromClose, Alive, Running
<1>2. UNCHANGED <<is_ready, is_exiting, is_shutdown, closing, windows, closable, transition,
                  tasks, calls, quit_events>>
  BY DEF ReturnFromClose
<1>3. Continues(Rest, stack)
  BY <1>1, ContinuesRest
<1>4. CASE /\ is_quitting' = FALSE /\ stack' = Rest
           /\ UNCHANGED <<loop, native, api, deferred_close, closed_events>>
  <2>1. WindowsOK'
    BY <1>1, <1>2, <1>3, <1>4, QuietCall DEF Loop
  <2>2. QED
    BY <1>1, <1>2, <1>4, <2>1, Assembly DEF TypeOK, closing, QuitInv, ExitCompletes
<1>5. CASE CloseImmediately(Top.w, api[Top.w], Rest) /\ UNCHANGED is_quitting
  <2>1. Top \in Frame /\ Top \in ToSet(stack)
    BY <1>1, RestFacts
  <2>2. Top.w \in Window /\ native[Top.w] \notin {"none", "freed"}
    BY <1>1, <2>1 DEF StackInv, WindowEvents, Frame
  <2>3. Hosts(Rest, Top.w, api[Top.w])
    BY <1>1, <1>3, <2>2, ContinuesHosts
  <2>4. WindowsOK' /\ deferred_close' \in [Window -> BOOLEAN]
    BY <1>1, <1>2, <1>5, <2>2, <2>3, CloseImmediatelyCall
  <2>5. QED
    BY <1>1, <1>2, <1>5, <2>4, Assembly DEF TypeOK, closing, QuitInv, ExitCompletes
<1>6. QED
  BY <1>4, <1>5 DEF ReturnFromClose

\* The deferred close, if the window has not been closed meanwhile.
LEMMA ReturnFromFullscreenChangedStep ==
  ASSUME IInv, ReturnFromFullscreenChanged PROVE IInv'
<1>1. /\ TypeOK /\ QuitInv /\ ExitCompletes /\ loop \in {"boot", "running"}
      /\ StackInv /\ stack # <<>> /\ Top.at = "fullscreen-changed"
  BY DEF IInv, ReturnFromFullscreenChanged, Alive, Running
<1>2. UNCHANGED <<flags, closing, windows, closable, transition, tasks, calls, quit_events>>
  BY DEF ReturnFromFullscreenChanged
<1>3. Continues(Rest, stack)
  BY <1>1, ContinuesRest
<1>4. WindowsOK' /\ deferred_close' \in [Window -> BOOLEAN]
  <2>1. CASE /\ loop' = "aborted" /\ stack' = <<>>
             /\ UNCHANGED <<native, api, deferred_close, closed_events>>
    BY <1>1, <1>2, <2>1 DEF WindowsOK, TypeOK
  <2>2. CASE stack' = Rest /\ UNCHANGED <<loop, native, api, deferred_close, closed_events>>
    BY <1>1, <1>2, <1>3, <2>2, QuietCall DEF Loop, TypeOK
  <2>3. CASE /\ deferred_close' = [deferred_close EXCEPT ![Top.w] = FALSE]
             /\ NotifyWindowClosed(Top.w, api[Top.w], Rest)
    <3>1. Top \in Frame /\ Top \in ToSet(stack)
      BY <1>1, RestFacts
    <3>2. Top.w \in Window /\ native[Top.w] \notin {"none", "freed"}
      BY <1>1, <3>1 DEF StackInv, WindowEvents, Frame
    <3>3. Hosts(Rest, Top.w, api[Top.w])
      BY <1>1, <1>3, <3>2, ContinuesHosts
    <3>4. WindowsOK'
      BY <1>1, <1>2, <2>3, <3>2, <3>3, NotifyWindowClosedCall
    <3>5. QED
      BY <1>1, <2>3, <3>4 DEF TypeOK
  <2>4. QED
    BY <2>1, <2>2, <2>3 DEF ReturnFromFullscreenChanged
<1>5. QED
  BY <1>1, <1>2, <1>4, Assembly DEF TypeOK, flags, closing, QuitInv, ExitCompletes

\* The walk over a copy of the list: each window is closed only if it is still open.
LEMMA IterateWindowsStep == ASSUME IInv, IterateWindows PROVE IInv'
<1>1. /\ TypeOK /\ QuitInv /\ ExitCompletes /\ loop \in {"boot", "running"}
      /\ stack # <<>> /\ Top.at \in Loops /\ Top.at # "closed"
  BY DEF IInv, IterateWindows, Alive, Running, Loops
<1>2. UNCHANGED <<is_ready, is_exiting, is_shutdown, closing, windows, closable, transition,
                  tasks, calls, quit_events>>
  BY DEF IterateWindows
<1>3. Continues(Rest, stack)
  BY <1>1, ContinuesRest
<1>4. WindowsOK' /\ deferred_close' \in [Window -> BOOLEAN] /\ is_quitting' \in BOOLEAN
  <2>1. CASE /\ stack' = Rest
             /\ UNCHANGED <<loop, is_quitting, native, api, deferred_close, closed_events>>
    BY <1>1, <1>2, <1>3, <2>1, QuietCall DEF Loop, TypeOK
  <2>2. ASSUME NEW w \in Top.todo,
               LET k == Iterate(Top.at, Top.todo \ {w}, Rest) IN
               \/ /\ native[w] # "open"
                  /\ stack' = k
                  /\ UNCHANGED <<loop, is_quitting, native, api, deferred_close, closed_events>>
               \/ native[w] = "open" /\ Top.at = "CloseAllWindows" /\ Close(w, k)
               \/ /\ native[w] = "open" /\ Top.at = "DestroyAllWindows"
                  /\ CloseImmediately(w, api[w], k)
                  /\ UNCHANGED is_quitting
        PROVE  WindowsOK' /\ deferred_close' \in [Window -> BOOLEAN] /\ is_quitting' \in BOOLEAN
    <3> DEFINE k == Iterate(Top.at, Top.todo \ {w}, Rest)
    <3>1. w \in Window /\ Top.todo \ {w} \in SUBSET Window
      BY <1>1, RestFacts DEF Frame
    <3>2. Continues(k, stack)
      BY <1>1, <1>3, <3>1, ContinuesPush DEF Iterate
    <3> HIDE DEF k
    <3>3. CASE /\ stack' = k
               /\ UNCHANGED <<loop, is_quitting, native, api, deferred_close, closed_events>>
      BY <1>1, <1>2, <3>2, <3>3, QuietCall DEF Loop, TypeOK
    <3>4. Hosts(k, w, api[w])
      BY <1>1, <3>1, <3>2, ContinuesHosts
    <3>5. CASE native[w] = "open" /\ Close(w, k)
      BY <1>1, <1>2, <3>1, <3>4, <3>5, CloseCall
    <3>6. CASE native[w] = "open" /\ CloseImmediately(w, api[w], k) /\ UNCHANGED is_quitting
      BY <1>1, <1>2, <3>1, <3>4, <3>6, CloseImmediatelyCall DEF TypeOK
    <3>7. QED
      BY <2>2, <3>3, <3>5, <3>6 DEF k
  <2>3. QED
    BY <2>1, <2>2 DEF IterateWindows
<1>5. QED
  BY <1>1, <1>2, <1>4, Assembly DEF TypeOK, closing, QuitInv, ExitCompletes

\* The destructor ends: no "closed" listener of its window is left on the stack, so
\* the BaseWindow may be freed.
LEMMA FinishDestructorStep == ASSUME IInv, FinishDestructor PROVE IInv'
<1> DEFINE w == Top.w
<1>1. /\ TypeOK /\ QuitInv /\ ExitCompletes /\ loop \in {"boot", "running"}
      /\ WindowInv /\ StackInv /\ DestructorBelow(stack) /\ TaskInv
      /\ stack # <<>> /\ Top.at = "~BaseWindow"
  BY DEF IInv, FinishDestructor, Alive, Running
<1>2. /\ api' = [api EXCEPT ![w] = "freed"]
      /\ tasks' = Append(tasks, Post("DeleteNativeWindow", w))
      /\ stack' = Rest
      /\ UNCHANGED <<loop, flags, closing, windows, native, closable, transition,
                     deferred_close, calls, history>>
  BY DEF FinishDestructor
<1>3. Top \in Frame /\ Top \in ToSet(stack) /\ Continues(Rest, stack)
  BY <1>1, RestFacts, ContinuesRest
<1>4. w \in Window /\ native[w] \notin {"none", "freed"} /\ api[w] = "deleting"
  BY <1>1, <1>3 DEF StackInv, Frame
<1>5. \A f \in ToSet(Rest) : /\ f \in ToSet(stack) /\ f \in Frame
                             /\ f.at \in {"closed", "~BaseWindow"} => f.w # w
  <2>1. \A f \in ToSet(Rest) : f \in ToSet(stack)
    BY <1>1, RestFacts
  <2>2. \A f \in ToSet(stack) : f \in Frame
    BY <1>1, ElementsByPosition DEF TypeOK
  <2>3. QED
    BY <1>1, <2>1, <2>2, RestFacts
<1>6. /\ api' \in [Window -> {"none", "live", "marked", "deleting", "freed"}]
      /\ api'[w] = "freed" /\ \A v \in Window : v # w => api'[v] = api[v]
  BY <1>1, <1>2, <1>4 DEF TypeOK
<1> HIDE DEF w
<1>7. WindowInv'
  <2>1. \A v \in windows : native[v] = "closed" => \E f \in ToSet(Rest) : f.at = "closed" /\ f.w = v
    BY <1>1, <1>3 DEF WindowInv, Continues, TypeOK
  <2>2. QED
    BY <1>1, <1>2, <1>4, <1>6, <2>1 DEF WindowInv, history
<1>8. StackInv'
  <2>1. \A f \in ToSet(Rest) : f.w # NoWindow => f.w \in Window
    BY <1>5 DEF Frame
  <2>2. QED
    BY <1>1, <1>2, <1>5, <1>6, <2>1 DEF StackInv, WindowEvents
<1>9. tasks' \in Seq(Task) /\ TaskInv'
  <2>1. Post("DeleteNativeWindow", w) \in Task
    BY <1>4 DEF Post, Task
  <2>2. tasks' \in Seq(Task) /\ \A t \in ToSet(tasks') : t \in ToSet(tasks) \/ t = Post("DeleteNativeWindow", w)
    BY <1>1, <1>2, <2>1, AppendElements DEF TypeOK
  <2>3. \A t \in ToSet(tasks) : t.do = "DeleteNativeWindow" => t.w \in Window
    <3>1. \A t \in ToSet(tasks) : t \in Task
      BY <1>1, ElementsByPosition DEF TypeOK
    <3>2. QED
      BY <3>1, <1>1 DEF TaskInv, Task
  <2>4. QED
    BY <1>1, <1>4, <1>6, <2>2, <2>3 DEF TaskInv, Post, Window, NoWindow
<1>10. DestructorBelow(stack)' /\ stack' \in Seq(Frame)
  BY <1>1, <1>2, <1>3 DEF Continues
<1>11. WindowsOK'
  BY <1>1, <1>2, <1>6, <1>7, <1>8, <1>9, <1>10 DEF WindowsOK, TypeOK, history
<1>12. QED
  BY <1>1, <1>2, <1>11, Assembly DEF TypeOK, flags, closing, history, QuitInv, ExitCompletes

\* "closed" returns: the window leaves the list with the only activation it needed,
\* and the last one of an exiting application shuts it down.
LEMMA ReturnFromClosedStep == ASSUME IInv, ReturnFromClosed PROVE IInv'
<1> DEFINE w == Top.w
<1>1. /\ TypeOK /\ QuitInv /\ ExitCompletes /\ loop \in {"boot", "running"}
      /\ WindowInv /\ StackInv /\ DestructorBelow(stack) /\ TaskInv
      /\ stack # <<>> /\ Top.at = "closed"
  BY DEF IInv, ReturnFromClosed, Alive, Running
<1>2. /\ tasks' = Append(tasks, Post("DestroyBaseWindow", w))
      /\ windows' = windows \ {w}
      /\ UNCHANGED <<loop, is_ready, is_exiting, closing, native, api, closable, transition,
                     deferred_close, calls, closed_events>>
  BY DEF ReturnFromClosed
<1>3. Top \in Frame /\ Top \in ToSet(stack) /\ Rest \in Seq(Frame) /\ DestructorBelow(Rest)
  BY <1>1, RestFacts
<1>4. w \in Window
  BY <1>1, <1>3 DEF StackInv, WindowEvents, Frame
<1>5. \A f : f \in ToSet(stack) <=> f = Top \/ f \in ToSet(Rest)
  BY <1>1, RestFacts
<1>6. Continues(Rest, Rest)
  BY <1>3 DEF Continues
<1>7. /\ Continues(stack', Rest)
      /\ is_quitting' \in BOOLEAN /\ is_shutdown' \in BOOLEAN
      /\ quit_events' \in Nat /\ QuitInv' /\ ExitCompletes'
  <2>1. CASE windows' = {} /\ OnWindowAllClosed(Rest)
    BY <1>1, <1>2, <1>6, <2>1, OnWindowAllClosedCall DEF ExitCompletes
  <2>2. CASE /\ windows' # {} /\ stack' = Rest
             /\ UNCHANGED <<is_quitting, is_shutdown, quit_events>>
    BY <1>1, <1>6, <2>2 DEF TypeOK, QuitInv, ExitCompletes
  <2>3. QED
    BY <2>1, <2>2 DEF ReturnFromClosed
<1>8. WindowInv'
  <2>1. \A v \in windows' : native[v] = "closed" => \E f \in ToSet(stack') : f.at = "closed" /\ f.w = v
    BY <1>1, <1>2, <1>5, <1>7 DEF WindowInv, Continues, TypeOK
  <2> HIDE DEF w
  <2>2. QED
    BY <1>1, <1>2, <2>1 DEF WindowInv
<1>9. StackInv'
  BY <1>1, <1>2, <1>5, <1>7 DEF StackInv, Continues, WindowEvents
<1> HIDE DEF w
<1>10. tasks' \in Seq(Task) /\ TaskInv'
  <2>1. Post("DestroyBaseWindow", w) \in Task
    BY <1>4 DEF Post, Task
  <2>2. tasks' \in Seq(Task) /\ \A t \in ToSet(tasks') : t \in ToSet(tasks) \/ t = Post("DestroyBaseWindow", w)
    BY <1>1, <1>2, <2>1, AppendElements DEF TypeOK
  <2>3. QED
    BY <1>1, <1>2, <1>4, <2>2 DEF TaskInv, Post, Window, NoWindow
<1>11. DestructorBelow(stack)' /\ stack' \in Seq(Frame)
  BY <1>3, <1>7 DEF Continues
<1>12. WindowsOK'
  BY <1>1, <1>2, <1>8, <1>9, <1>10, <1>11 DEF WindowsOK, TypeOK
<1>13. QED
  BY <1>1, <1>2, <1>7, <1>12, Assembly DEF TypeOK, closing

\* The tasks when one is posted.
LEMMA AppendTask ==
  ASSUME NEW s \in Seq(Task), NEW t \in Task
  PROVE  Append(s, t) \in Seq(Task) /\ \A u \in ToSet(Append(s, t)) : u \in ToSet(s) \/ u = t
  BY AppendElements

\* A task runs on the empty stack, so that freeing a window cuts off no activation.
LEMMA RunTaskStep == ASSUME IInv, RunTask PROVE IInv'
<1> DEFINE task == Head(tasks)
           w == task.w
<1>1. /\ TypeOK /\ QuitInv /\ ExitCompletes /\ loop = "running"
      /\ WindowInv /\ TaskInv /\ stack = <<>> /\ tasks # <<>> /\ tasks \in Seq(Task)
  BY DEF IInv, RunTask, Unwound, Idle, TypeOK
<1>2. UNCHANGED <<flags, quit_closure, windows, closable, transition, deferred_close, stack,
                  calls, history>>
  BY DEF RunTask
<1>3. /\ task \in Task /\ task \in ToSet(tasks) /\ Tail(tasks) \in Seq(Task)
      /\ \A t \in ToSet(Tail(tasks)) : t \in ToSet(tasks)
  BY <1>1, PopElements
<1>4. task.do # "QuitWhenIdle" => w \in Window
  BY <1>1, <1>3 DEF TaskInv, Task
<1>5. \A t \in ToSet(tasks) : t.do = "DeleteNativeWindow" => t.w \in Window /\ api[t.w] = "freed"
  <2>1. \A t \in ToSet(tasks) : t \in Task
    BY <1>1, ElementsByPosition
  <2>2. QED
    BY <2>1, <1>1 DEF TaskInv, Task
<1>6. \A v \in windows : native[v] = "open"
  BY <1>1, NoElements DEF WindowInv, TypeOK
<1>7. StackInv' /\ DestructorBelow(stack)' /\ stack' \in Seq(Frame)
  BY <1>1, <1>2, NoElements DEF StackInv, DestructorBelow
<1> HIDE DEF w, task
<1>8. WindowsOK' /\ quit_when_idle' \in BOOLEAN
  <2>1. CASE /\ task.do = "DestroyBaseWindow" /\ api[w] = "marked"
             /\ api' = [api EXCEPT ![w] = "freed"]
             /\ tasks' = Append(Tail(tasks), Post("DeleteNativeWindow", w))
             /\ UNCHANGED <<loop, native, quit_when_idle>>
    <3>1. w \in Window /\ native[w] = "closed"
      BY <1>1, <1>4, <2>1 DEF WindowInv
    <3>2. /\ api' \in [Window -> {"none", "live", "marked", "deleting", "freed"}]
          /\ api'[w] = "freed" /\ \A v \in Window : v # w => api'[v] = api[v]
      BY <1>1, <2>1, <3>1 DEF TypeOK
    <3>3. WindowInv'
      BY <1>1, <1>2, <1>6, <2>1, <3>1, <3>2 DEF WindowInv, history
    <3>4. Post("DeleteNativeWindow", w) \in Task
      BY <3>1 DEF Post, Task
    <3>5. /\ tasks' \in Seq(Task)
          /\ \A t \in ToSet(tasks') : t \in ToSet(tasks) \/ t = Post("DeleteNativeWindow", w)
      BY <1>3, <2>1, <3>4, AppendTask
    <3>6. TaskInv'
      BY <1>1, <1>5, <3>1, <3>2, <3>5 DEF TaskInv, Post, Window, NoWindow
    <3>7. QED
      BY <1>1, <1>2, <1>7, <2>1, <3>2, <3>3, <3>5, <3>6 DEF WindowsOK, TypeOK, history
  <2>2. CASE tasks' = Tail(tasks) /\ UNCHANGED <<loop, native, api, quit_when_idle>>
    <3>1. WindowInv'
      BY <1>1, <1>2, <1>6, <2>2 DEF WindowInv, history
    <3>2. TaskInv'
      BY <1>1, <1>3, <2>2 DEF TaskInv
    <3>3. QED
      BY <1>1, <1>2, <1>3, <1>7, <2>2, <3>1, <3>2 DEF WindowsOK, TypeOK, history
  <2>3. CASE /\ task.do = "DeleteNativeWindow"
             /\ loop' = IF native[w] = "open" THEN "aborted" ELSE loop
             /\ native' = [native EXCEPT ![w] = "freed"]
             /\ tasks' = Tail(tasks)
             /\ UNCHANGED <<api, quit_when_idle>>
    <3>1. w \in Window /\ api[w] = "freed"
      BY <1>3, <1>5, <2>3 DEF w
    <3>2. /\ native' \in [Window -> {"none", "open", "closed", "freed"}]
          /\ native'[w] = "freed" /\ \A v \in Window : v # w => native'[v] = native[v]
      BY <1>1, <2>3, <3>1 DEF TypeOK
    <3>3. CASE native[w] = "open"
      BY <1>1, <1>2, <1>3, <1>7, <2>3, <3>2, <3>3 DEF WindowsOK, TypeOK, history
    <3>4. CASE native[w] # "open"
      <4>1. w \notin windows /\ native[w] \in {"closed", "freed"}
        BY <1>1, <1>6, <3>1, <3>4 DEF WindowInv, TypeOK
      <4>2. WindowInv'
        BY <1>1, <1>2, <1>6, <2>3, <3>1, <3>2, <4>1 DEF WindowInv, history
      <4>3. TaskInv'
        BY <1>1, <1>3, <2>3 DEF TaskInv
      <4>4. QED
        BY <1>1, <1>2, <1>3, <1>7, <2>3, <3>2, <3>4, <4>2, <4>3 DEF WindowsOK, TypeOK, history
    <3>5. QED
      BY <1>1, <2>3, <3>3, <3>4 DEF TypeOK
  <2>4. CASE quit_when_idle' = TRUE /\ tasks' = Tail(tasks) /\ UNCHANGED <<loop, native, api>>
    <3>1. WindowInv'
      BY <1>1, <1>2, <1>6, <2>4 DEF WindowInv, history
    <3>2. TaskInv'
      BY <1>1, <1>3, <2>4 DEF TaskInv
    <3>3. QED
      BY <1>1, <1>2, <1>3, <1>7, <2>4, <3>1, <3>2 DEF WindowsOK, TypeOK, history
  <2>5. QED
    BY <1>1, <2>1, <2>2, <2>3, <2>4 DEF RunTask, TypeOK, task, w
<1>9. QED
  BY <1>1, <1>2, <1>8, Assembly DEF TypeOK, flags, history, QuitInv, ExitCompletes

\* The program starts in the invariant.
LEMMA InitInv == ASSUME Init PROVE IInv
<1>1. stack = <<>> /\ tasks = <<>> /\ windows = {} /\ quit_events = 0 /\ ~is_shutdown /\ ~is_exiting
  BY DEF Init
<1>2. TypeOK
  <2>1. MaxCalls \in Nat
    BY ConstantsAssumption
  <2>2. tasks \in Seq(Task) /\ stack \in Seq(Frame)
    BY <1>1
  <2>3. QED
    BY <2>1, <2>2 DEF Init, TypeOK
<1>3. QuitInv /\ ExitCompletes
  BY <1>1 DEF QuitInv, ExitCompletes
<1>4. WindowInv
  BY DEF Init, WindowInv
<1>5. StackInv /\ DestructorBelow(stack) /\ TaskInv
  BY <1>1, NoElements DEF StackInv, DestructorBelow, TaskInv
<1>6. QED
  BY <1>2, <1>3, <1>4, <1>5 DEF IInv

\* Every step keeps the invariant: one case for each action, by its lemma.
LEMMA NextInv == ASSUME IInv, [Next]_vars PROVE IInv'
<1>1. CASE UNCHANGED vars
  BY <1>1 DEF vars, flags, closing, wins, history, IInv, TypeOK, QuitInv, ExitCompletes, WindowInv,
              StackInv, DestructorBelow, TaskInv
<1>2. CASE System
  BY <1>2, DidFinishLaunchingStep, WillRunMainMessageLoopStep, RunTaskStep, LoopEndsStep,
     FinishTransitionStep DEF System
<1>3. CASE Environment
  BY <1>3, RunScriptStep, QuitFromSystemStep, UserClosesStep, StartTransitionStep DEF Environment
<1>4. CASE JavaScript
  BY <1>4, JsQuitStep, JsExitStep, JsNewStep, JsCloseStep, JsDestroyStep DEF JavaScript
<1>5. CASE Return
  BY <1>5, ReturnFromNotificationStep, ReturnFromQuitStep, ReturnFromClosedStep,
     ReturnFromFullscreenChangedStep, IterateWindowsStep, FinishDestructorStep,
     ReturnFromBeforeQuitStep, ReturnFromWillQuitStep, ReturnFromCloseStep DEF Return
<1>6. QED
  BY <1>1, <1>2, <1>3, <1>4, <1>5 DEF Next

\* IInv is an invariant: no sequence of API calls, vetoes, closes and tasks breaks
\* the ties between windows, call stack and tasks.
THEOREM Invariance == Spec => []IInv
<1>1. Init => IInv
  BY InitInv
<1>2. IInv /\ [Next]_vars => IInv'
  BY NextInv
<1>3. QED
  BY <1>1, <1>2, PTL DEF Spec

\* Every variable keeps its type; in particular no window emits "closed" twice.
THEOREM TypeCorrect == Spec => []TypeOK
<1>1. IInv => TypeOK
  BY DEF IInv
<1>2. QED
  BY <1>1, Invariance, PTL

\* Application::Shutdown emits "quit" at most once in the life of the process.
THEOREM QuitOnce == Spec => []QuitEmittedOnce
<1>1. IInv => QuitEmittedOnce
  BY DEF IInv, QuitInv, QuitEmittedOnce
<1>2. QED
  BY <1>1, Invariance, PTL

\* NativeWindow::NotifyWindowClosed tells the BaseWindow exactly once.
THEOREM ClosedOnce == Spec => []ClosedEmittedOnce
<1>1. IInv => ClosedEmittedOnce
  BY DEF IInv, WindowInv, ClosedEmittedOnce
<1>2. QED
  BY <1>1, Invariance, PTL

\* An exit() that has closed the last window has shut the application down.
THEOREM ExitComplete == Spec => []ExitCompletes
<1>1. IInv => ExitCompletes
  BY DEF IInv
<1>2. QED
  BY <1>1, Invariance, PTL

\* Neither the window list nor a suspended call refers to a deleted native window,
\* and no BaseWindow is deleted under its own "closed" listener.
THEOREM NoUseAfterFree == Spec => []NoFreedWindowInUse
<1>1. IInv => NoFreedWindowInUse
  <2> SUFFICES ASSUME IInv, loop # "aborted" PROVE NoFreedWindowInUse
    BY DEF NoFreedWindowInUse
  <2>1. \A w \in windows : native[w] # "freed"
    BY DEF IInv, WindowInv, TypeOK
  <2>2. QED
    BY <2>1 DEF IInv, StackInv, NoFreedWindowInUse
<1>2. QED
  BY <1>1, Invariance, PTL

-----------------------------------------------------------------------------
(***************************************************************************)
(* Where "will-quit" comes from.                                           *)
(***************************************************************************)
\* A call that returns to k, ends the process or emits another event.
OtherEvent(k) ==
  \/ stack' \in {k, <<>>}
  \/ \E event \in Listeners \ {"will-quit"}, w \in Window \cup {NoWindow} :
       stack' = Push(event, w, {}, k)

\* What a call may return to when it was not begun by a listener of "will-quit":
\* the activations below, or those with a loop or a destructor of its own on top.
ReturnsTo(k) ==
  /\ k \in Seq(Frame)
  /\ \/ k \in {stack, <<>>} \/ (stack # <<>> /\ k = Rest)
     \/ k # <<>> /\ Head(k).at # "will-quit"

\* Such a call does not emit "will-quit".
LEMMA NoWillQuit ==
  ASSUME TypeOK, NEW k, ReturnsTo(k), OtherEvent(k)
  PROVE  ~Emitted("will-quit")
<1>1. stack \in Seq(Frame) /\ k \in Seq(Frame) /\ (stack # <<>> => Rest \in Seq(Frame))
  BY DEF TypeOK, ReturnsTo, Rest
<1> SUFFICES ASSUME NEW r \in Seq(Frame), r = stack \/ (stack # <<>> /\ r = Rest),
                    stack' = Emit("will-quit", r), stack' # stack
             PROVE  FALSE
  BY <1>1 DEF Emitted
<1>2. /\ stack' # <<>> /\ Head(stack') = Activation("will-quit", NoWindow, {})
      /\ Tail(stack') = r /\ stack' \in Seq(Frame)
  BY PushFacts DEF Emit, Listeners, AppEvents
<1>3. Head(stack').at = "will-quit"
  BY <1>2 DEF Activation
<1>4. stack' # Rest \/ stack = <<>>
  <2> SUFFICES ASSUME stack # <<>>, stack' = Rest PROVE FALSE
    OBVIOUS
  <2>1. Len(stack') = Len(stack) - 1 /\ Len(stack) \in Nat
    BY <1>1 DEF Rest
  <2>2. Len(stack') = Len(r) + 1
    BY <1>2
  <2>3. Len(r) = Len(stack) \/ Len(r) = Len(stack) - 1
    BY <1>1 DEF Rest
  <2> QED BY <2>1, <2>2, <2>3
<1>5. CASE stack' \in {k, <<>>}
  BY <1>2, <1>3, <1>4, <1>5 DEF ReturnsTo
<1>6. CASE \E event \in Listeners \ {"will-quit"}, w \in Window \cup {NoWindow} :
             stack' = Push(event, w, {}, k)
  <2>1. PICK event \in Listeners \ {"will-quit"}, w \in Window \cup {NoWindow} :
           stack' = Push(event, w, {}, k)
    BY <1>6
  <2>2. Head(stack') = Activation(event, w, {})
    BY <1>1, <2>1, PushFacts
  <2>3. Head(stack').at = event
    BY <2>2 DEF Activation
  <2> QED BY <1>3, <2>3
<1> QED BY <1>5, <1>6 DEF OtherEvent

\* Emitting another event is such a call.
LEMMA EmitsOther ==
  ASSUME NEW event \in Listeners \ {"will-quit"}, NEW w \in Window \cup {NoWindow}, NEW k,
         stack' = Push(event, w, {}, k)
  PROVE  OtherEvent(k)
  BY DEF OtherEvent

\* The calls of a window emit "close", "closed" or nothing, and those of the
\* Application that are not NotifyAndShutdown "before-quit", "quit" or nothing.
LEMMA WindowCalls ==
  ASSUME NEW w \in Window \cup {NoWindow}, NEW base, NEW k,
         Close(w, k) \/ CloseImmediately(w, base, k) \/ NotifyWindowClosed(w, base, k)
  PROVE  OtherEvent(k)
<1>1. \A event \in WindowEvents : event \in Listeners \ {"will-quit"}
  BY DEF Listeners, WindowEvents
<1>2. ASSUME NEW event \in WindowEvents, NotifyObserver(event, w, k) PROVE OtherEvent(k)
  BY <1>1, <1>2, EmitsOther DEF NotifyObserver, EmitOn, OtherEvent
<1>3. ASSUME NEW b, NotifyWindowClosed(w, b, k) PROVE OtherEvent(k)
  BY <1>2, <1>3 DEF NotifyWindowClosed, OtherEvent, WindowEvents
<1>4. ASSUME NEW b, CloseImmediately(w, b, k) PROVE OtherEvent(k)
  BY <1>3, <1>4 DEF CloseImmediately, OtherEvent
<1>5. ASSUME Close(w, k) PROVE OtherEvent(k)
  BY <1>2, <1>4, <1>5 DEF Close, OtherEvent, WindowEvents
<1> QED BY <1>3, <1>4, <1>5

\* Shutdown and Quit emit an event of their own or nothing.
LEMMA ApplicationCalls ==
  ASSUME NEW quitting, NEW k, Shutdown(quitting, k) \/ Quit(k)
  PROVE  OtherEvent(k)
  BY EmitsOther DEF Shutdown, Quit, Emit, OtherEvent, Listeners, AppEvents

\* A loop or a destructor of its own on top.
LEMMA OnTop ==
  ASSUME NEW at \in Loops \cup {"~BaseWindow"}, NEW w \in Window \cup {NoWindow},
         NEW ws \in SUBSET Window, NEW k \in Seq(Frame)
  PROVE  ReturnsTo(Push(at, w, ws, k))
<1>1. /\ Push(at, w, ws, k) \in Seq(Frame) /\ Push(at, w, ws, k) # <<>>
      /\ Head(Push(at, w, ws, k)) = Activation(at, w, ws)
  BY PushFacts
<1>2. at # "will-quit"
  BY DEF Loops
<1> QED BY <1>1, <1>2 DEF ReturnsTo, Activation

\* NotifyAndShutdown emits it before the application has shut down.
LEMMA WillQuitCall ==
  ASSUME QuitInv, NEW k, NotifyAndShutdown(k)
  PROVE  OtherEvent(k) \/ (~is_shutdown /\ quit_events = 0)
  BY DEF NotifyAndShutdown, QuitInv, OtherEvent

\* No step of the system, of a user or of AppKit emits it.
LEMMA SystemSilent ==
  ASSUME TypeOK, System \/ Environment
  PROVE  ~Emitted("will-quit")
<1>1. <<>> \in Seq(Frame) /\ ReturnsTo(<<>>)
  BY DEF ReturnsTo
<1>2. CASE DidFinishLaunching \/ RunScript
  BY <1>1, <1>2, NoWillQuit, EmitsOther DEF DidFinishLaunching, RunScript, Emit, Listeners, AppEvents, Scripts
<1>3. CASE WillRunMainMessageLoop \/ RunTask \/ LoopEnds \/ \E w \in Window : StartTransition(w)
  BY <1>3 DEF WillRunMainMessageLoop, RunTask, LoopEnds, StartTransition, Emitted
<1>4. ASSUME NEW w \in Window, FinishTransition(w) PROVE ~Emitted("will-quit")
  <2>1. NotifyObserver("fullscreen-changed", w, <<>>)
    BY <1>4 DEF FinishTransition
  <2>2. OtherEvent(<<>>)
    BY <2>1, EmitsOther DEF NotifyObserver, EmitOn, OtherEvent, Listeners, WindowEvents
  <2> QED BY <1>1, <2>2, NoWillQuit
<1>5. CASE QuitFromSystem
  BY <1>1, <1>5, ApplicationCalls, NoWillQuit DEF QuitFromSystem
<1>6. ASSUME NEW w \in Window, UserCloses(w) PROVE ~Emitted("will-quit")
  BY <1>1, <1>6, WindowCalls, NoWillQuit DEF UserCloses
<1> QED BY <1>2, <1>3, <1>4, <1>5, <1>6 DEF System, Environment

\* No call of a script does.
LEMMA JavaScriptSilent ==
  ASSUME TypeOK, JavaScript
  PROVE  ~Emitted("will-quit")
<1>1. stack \in Seq(Frame) /\ ReturnsTo(stack)
  BY DEF TypeOK, ReturnsTo
<1>2. CASE JsQuit
  BY <1>1, <1>2, ApplicationCalls, NoWillQuit DEF JsQuit
<1>3. CASE JsExit
  <2>1. CASE UNCHANGED stack
    BY <2>1 DEF Emitted
  <2>2. CASE Shutdown(TRUE, stack)
    BY <1>1, <2>2, ApplicationCalls, NoWillQuit
  <2>3. CASE stack' = Iterate("DestroyAllWindows", windows, stack)
    <3>1. ReturnsTo(stack') /\ OtherEvent(stack')
      BY <1>1, <2>3, OnTop DEF Iterate, Loops, TypeOK, OtherEvent
    <3> QED BY <3>1, NoWillQuit
  <2> QED BY <1>3, <2>1, <2>2, <2>3 DEF JsExit
<1>4. ASSUME NEW w \in Window, NEW can_close \in BOOLEAN, JsNew(w, can_close)
      PROVE  ~Emitted("will-quit")
  BY <1>4 DEF JsNew, Emitted
<1>5. ASSUME NEW w \in Window, JsClose(w) PROVE ~Emitted("will-quit")
  BY <1>1, <1>5, WindowCalls, NoWillQuit DEF JsClose
<1>6. ASSUME NEW w \in Window, JsDestroy(w) PROVE ~Emitted("will-quit")
  <2>1. ReturnsTo(Destructor(w, stack))
    BY <1>1, OnTop DEF Destructor
  <2>2. OtherEvent(Destructor(w, stack))
    BY <1>6, WindowCalls DEF JsDestroy
  <2> QED BY <2>1, <2>2, NoWillQuit
<1> QED BY <1>2, <1>3, <1>4, <1>5, <1>6 DEF JavaScript

\* A return does when the last window has gone and nobody is exiting.
LEMMA ReturnSilent ==
  ASSUME IInv, Return, Emitted("will-quit")
  PROVE  windows' = {} /\ ~is_exiting' /\ quit_events' = 0
<1>1. TypeOK /\ QuitInv /\ ExitCompletes
  BY DEF IInv
<1>2. stack # <<>> /\ stack \in Seq(Frame) /\ Rest \in Seq(Frame) /\ ReturnsTo(Rest)
  BY <1>1 DEF Return, Running, ReturnFromNotification, ReturnFromQuit, ReturnFromClosed,
     ReturnFromFullscreenChanged, IterateWindows, FinishDestructor, ReturnFromBeforeQuit,
     ReturnFromWillQuit, ReturnFromClose, TypeOK, ReturnsTo, Rest
<1>3. ~OtherEvent(Rest)
  BY <1>1, <1>2, NoWillQuit
<1>4. Top \in Frame
  BY <1>2 DEF Top
<1>5. CASE ReturnFromNotification \/ ReturnFromQuit \/ FinishDestructor
  BY <1>3, <1>5 DEF ReturnFromNotification, ReturnFromQuit, FinishDestructor, OtherEvent
<1>6. CASE ReturnFromClosed
  <2>1. windows' = {} /\ OnWindowAllClosed(Rest) /\ UNCHANGED is_exiting
    BY <1>3, <1>6 DEF ReturnFromClosed, OtherEvent
  <2>2. ~Shutdown(is_quitting, Rest)
    BY <1>3, ApplicationCalls
  <2>3. stack' # Emit("window-all-closed", Rest)
    BY <1>3, EmitsOther DEF Emit, Listeners, AppEvents
  <2>4. ~is_exiting /\ NotifyAndShutdown(Rest) /\ UNCHANGED quit_events
    BY <2>1, <2>2, <2>3 DEF OnWindowAllClosed
  <2> QED BY <1>1, <1>3, <2>1, <2>4, WillQuitCall
<1>7. CASE ReturnFromFullscreenChanged
  <2>1. Top.w \in Window \cup {NoWindow}
    BY <1>4 DEF Frame
  <2> QED BY <1>3, <1>7, <2>1, WindowCalls DEF ReturnFromFullscreenChanged, OtherEvent
<1>8. CASE IterateWindows
  <2>1. ASSUME NEW w \in Top.todo,
               \/ stack' = Iterate(Top.at, Top.todo \ {w}, Rest)
               \/ Close(w, Iterate(Top.at, Top.todo \ {w}, Rest))
               \/ CloseImmediately(w, api[w], Iterate(Top.at, Top.todo \ {w}, Rest))
        PROVE  FALSE
    <3> DEFINE k == Iterate(Top.at, Top.todo \ {w}, Rest)
    <3>1. Top.at \in Loops /\ w \in Window /\ Top.todo \ {w} \in SUBSET Window
      BY <1>4, <1>8 DEF IterateWindows, Running, Frame
    <3>2. ReturnsTo(k)
      BY <1>2, <3>1, OnTop DEF Iterate
    <3>3. OtherEvent(k)
      BY <2>1, <3>1, WindowCalls DEF OtherEvent
    <3> QED BY <1>1, <3>2, <3>3, NoWillQuit
  <2> QED BY <1>3, <1>8, <2>1 DEF IterateWindows, OtherEvent
<1>9. ASSUME NEW prevented \in BOOLEAN, ReturnFromBeforeQuit(prevented)
      PROVE  windows' = {} /\ ~is_exiting' /\ quit_events' = 0
  <2>1. stack' # Iterate("CloseAllWindows", windows, Rest)
    <3>1. ReturnsTo(Iterate("CloseAllWindows", windows, Rest))
      BY <1>1, <1>2, OnTop DEF Iterate, Loops, TypeOK
    <3> QED BY <1>1, <3>1, NoWillQuit DEF OtherEvent
  <2>2. windows = {} /\ NotifyAndShutdown(Rest) /\ UNCHANGED <<windows, is_exiting, quit_events>>
    BY <1>3, <1>9, <2>1 DEF ReturnFromBeforeQuit, OtherEvent, wins, history
  <2>3. ~is_shutdown /\ quit_events = 0
    BY <1>1, <1>3, <2>2, WillQuitCall
  <2> QED BY <1>1, <2>2, <2>3 DEF ExitCompletes
<1>10. ASSUME NEW prevented \in BOOLEAN, ReturnFromWillQuit(prevented) PROVE FALSE
  BY <1>3, <1>10, ApplicationCalls DEF ReturnFromWillQuit, OtherEvent
<1>11. ASSUME NEW prevented \in BOOLEAN, ReturnFromClose(prevented) PROVE FALSE
  <2>1. stack' # Rest
    BY <1>3 DEF OtherEvent
  <2>2. CloseImmediately(Top.w, api[Top.w], Rest)
    BY <1>11, <2>1 DEF ReturnFromClose
  <2>3. Top.w \in Window \cup {NoWindow}
    BY <1>4 DEF Frame
  <2> QED BY <1>3, <2>2, <2>3, WindowCalls
<1> QED BY <1>5, <1>6, <1>7, <1>8, <1>9, <1>10, <1>11 DEF Return

\* "will-quit" comes with no window left, not on the way of an exit, and before
\* "quit" (Application::NotifyAndShutdown).
THEOREM WillQuitIsProper == Spec => WillQuitProperly
<1>1. IInv /\ [Next]_vars => [Emitted("will-quit") => windows' = {} /\ ~is_exiting' /\ quit_events' = 0]_vars
  <2> SUFFICES ASSUME IInv, Next, Emitted("will-quit")
               PROVE  windows' = {} /\ ~is_exiting' /\ quit_events' = 0
    OBVIOUS
  <2>1. TypeOK
    BY DEF IInv
  <2> QED BY <2>1, SystemSilent, JavaScriptSilent, ReturnSilent DEF Next
<1> QED BY <1>1, Invariance, PTL DEF Spec, WillQuitProperly
-----------------------------------------------------------------------------
(***************************************************************************)
(* Without fullscreen transitions no event is lost, and a quit or an exit  *)
(* is carried by the call stack until it is decided.                       *)
(***************************************************************************)
\* The process has not aborted, and no destructor or deletion meets an open window.
CalmInv ==
  /\ loop # "aborted"
  /\ ~OnStack({"fullscreen-changed"})
  /\ \A w \in Window : ~transition[w] /\ (api[w] \in {"deleting", "freed"} => native[w] # "open")

\* A walk will come to window v, or its "close" listeners are being asked;
Awaited(s, v) ==
  \E f \in ToSet(s) : (f.at \in Loops /\ v \in f.todo) \/ (f.at = "close" /\ f.w = v)
\* and the walk of an exit will come to it.
Doomed(s, v) == \E f \in ToSet(s) : f.at = "DestroyAllWindows" /\ v \in f.todo

\* A quit that is not decided waits for "will-quit", or for windows that are being
\* closed; an exit for windows that are being destroyed.
QuitCarried ==
  is_quitting /\ ~is_shutdown =>
    \/ OnStack({"will-quit"})
    \/ windows # {} /\ \A v \in windows : native[v] = "open" => Awaited(stack, v)
ExitCarried ==
  is_exiting /\ ~is_shutdown => \A v \in windows : native[v] = "open" => Doomed(stack, v)

\* What a call that returns to k does to the stack without a transition: it
\* returns, or the listener of another event runs on top of k.
Grows(k) ==
  \/ stack' = k
  \/ \E event \in Listeners \ {"fullscreen-changed"}, w \in Window \cup {NoWindow} :
       stack' = Push(event, w, {}, k)

\* The elements of the stack after such a call.
LEMMA GrowsElements ==
  ASSUME NEW k \in Seq(Frame), Grows(k)
  PROVE  /\ \A f \in ToSet(k) : f \in ToSet(stack')
         /\ \A f \in ToSet(stack') :
              f \in ToSet(k) \/ f.at \in Listeners \ {"fullscreen-changed"}
<1>1. CASE stack' = k
  BY <1>1
<1>2. ASSUME NEW event \in Listeners \ {"fullscreen-changed"}, NEW w \in Window \cup {NoWindow},
             stack' = Push(event, w, {}, k)
      PROVE  /\ \A f \in ToSet(k) : f \in ToSet(stack')
             /\ \A f \in ToSet(stack') :
                  f \in ToSet(k) \/ f.at \in Listeners \ {"fullscreen-changed"}
  <2>1. \A f : f \in ToSet(stack') <=> f = Activation(event, w, {}) \/ f \in ToSet(k)
    BY <1>2, PushFacts, ZenonT(40)
  <2>2. Activation(event, w, {}).at = event
    BY DEF Activation
  <2> QED BY <2>1, <2>2
<1> QED BY <1>1, <1>2 DEF Grows

\* Emitting an event is such a call.
LEMMA EmitGrows ==
  ASSUME NEW event \in Listeners \ {"fullscreen-changed"}, NEW w \in Window \cup {NoWindow},
         NEW k, stack' = Push(event, w, {}, k)
  PROVE  Grows(k)
  BY DEF Grows

\* The calls of the Application,
LEMMA ApplicationGrows ==
  ASSUME NEW quitting, NEW k,
         \/ Shutdown(quitting, k) \/ Quit(k) \/ NotifyAndShutdown(k) \/ OnWindowAllClosed(k)
  PROVE  Grows(k)
<1>1. \A event \in AppEvents : event \in Listeners \ {"fullscreen-changed"} /\ NoWindow \in Window \cup {NoWindow}
  BY DEF Listeners, AppEvents, WindowEvents
<1>2. ASSUME NEW event \in AppEvents, stack' = Emit(event, k) PROVE Grows(k)
  BY <1>1, <1>2, EmitGrows DEF Emit
<1>3. ASSUME NEW q, Shutdown(q, k) PROVE Grows(k)
  BY <1>2, <1>3 DEF Shutdown, AppEvents, Grows
<1>4. CASE Quit(k)
  BY <1>2, <1>4 DEF Quit, AppEvents, Grows
<1>5. ASSUME NotifyAndShutdown(k) PROVE Grows(k)
  BY <1>2, <1>5 DEF NotifyAndShutdown, AppEvents, Grows
<1>6. CASE OnWindowAllClosed(k)
  BY <1>2, <1>3, <1>5, <1>6 DEF OnWindowAllClosed, AppEvents
<1> QED BY <1>3, <1>4, <1>5, <1>6

\* a notification that finds its BaseWindow,
LEMMA NotifyGrows ==
  ASSUME NEW w \in Window, NEW event \in {"close", "closed"}, NEW k,
         api[w] # "freed", NotifyObserver(event, w, k)
  PROVE  Grows(k) /\ stack' = Push(event, w, {}, k) /\ UNCHANGED loop
<1>1. event \in Listeners \ {"fullscreen-changed"}
  BY DEF Listeners, WindowEvents
<1> QED BY <1>1, EmitGrows DEF NotifyObserver, EmitOn

\* the close of a window, after which it is not open,
LEMMA NotifyClosedGrows ==
  ASSUME TypeOK, NEW w \in Window, native[w] = "open" => api[w] # "freed",
         NEW base, NEW k, NotifyWindowClosed(w, base, k)
  PROVE  /\ Grows(k) /\ UNCHANGED loop
         /\ native'[w] # "open" /\ \A v \in Window \ {w} : native'[v] = native[v] /\ api'[v] = api[v]
<1>1. CASE native[w] # "open" /\ stack' = k /\ api' = [api EXCEPT ![w] = base] /\ UNCHANGED <<loop, native>>
  BY <1>1 DEF Grows, TypeOK
<1>2. CASE /\ native[w] = "open" /\ native' = [native EXCEPT ![w] = "closed"]
           /\ NotifyObserver("closed", w, k)
           /\ api' = [api EXCEPT ![w] = IF base = "live" THEN "marked" ELSE base]
  BY <1>2, NotifyGrows DEF TypeOK
<1> QED BY <1>1, <1>2 DEF NotifyWindowClosed

\* Closing a window without asking: the window is closed, and its "closed" emitted.
LEMMA CloseImmediatelyGrows ==
  ASSUME TypeOK, CalmInv, NEW w \in Window,
         NEW base, NEW k, CloseImmediately(w, base, k)
  PROVE  /\ Grows(k) /\ UNCHANGED loop
         /\ native'[w] # "open" /\ \A v \in Window \ {w} : native'[v] = native[v] /\ api'[v] = api[v]
<1>1. ~transition[w] /\ (native[w] = "open" => api[w] # "freed")
  BY DEF CalmInv
<1>2. NotifyWindowClosed(w, base, k)
  BY <1>1 DEF CloseImmediately
<1> QED BY <1>1, <1>2, NotifyClosedGrows

\* and its polite close: refused, asked of the listeners, or carried out.
LEMMA CloseGrows ==
  ASSUME TypeOK, CalmInv, NEW w \in Window, native[w] = "open", NEW k \in Seq(Frame), Close(w, k)
  PROVE  /\ Grows(k) /\ UNCHANGED loop
         /\ \/ is_quitting' = FALSE /\ UNCHANGED <<native, api>>
            \/ /\ is_quitting' = is_quitting /\ UNCHANGED <<native, api>>
               /\ Awaited(stack', w)
            \/ /\ is_quitting' = is_quitting /\ native'[w] # "open"
               /\ \A v \in Window \ {w} : native'[v] = native[v] /\ api'[v] = api[v]
<1>1. api[w] # "freed"
  BY DEF CalmInv
<1>2. CASE is_quitting' = FALSE /\ stack' = k /\ UNCHANGED <<loop, native, api>>
  BY <1>2 DEF Grows
<1>3. CASE NotifyObserver("close", w, k) /\ UNCHANGED <<is_quitting, native, api>>
  <2>1. Grows(k) /\ stack' = Push("close", w, {}, k) /\ UNCHANGED loop
    BY <1>1, <1>3, NotifyGrows
  <2>2. Activation("close", w, {}) \in ToSet(stack')
    BY <2>1, PushFacts DEF Listeners, WindowEvents
  <2>3. Awaited(stack', w)
    BY <2>2 DEF Awaited, Activation
  <2> QED BY <1>3, <2>1, <2>3
<1>4. CASE CloseImmediately(w, api[w], k) /\ UNCHANGED is_quitting
  BY <1>4, CloseImmediatelyGrows
<1> QED BY <1>2, <1>3, <1>4 DEF Close

\* The activations when a walk starts or goes on.
LEMMA IterateElements ==
  ASSUME NEW walk \in Loops, NEW ws \in SUBSET Window, NEW k \in Seq(Frame)
  PROVE  LET x == Activation(walk, NoWindow, ws)
         IN  /\ Iterate(walk, ws, k) \in Seq(Frame)
             /\ \A f : f \in ToSet(Iterate(walk, ws, k)) <=> f = x \/ f \in ToSet(k)
             /\ x.at = walk /\ x.todo = ws
<1>1. walk \in Listeners \cup Loops \cup {"~BaseWindow"} /\ NoWindow \in Window \cup {NoWindow}
  OBVIOUS
<1>2. Push(walk, NoWindow, ws, k) \in Seq(Frame)
  BY <1>1, PushFacts
<1>3. \A f : f \in ToSet(Push(walk, NoWindow, ws, k)) <=> f = Activation(walk, NoWindow, ws) \/ f \in ToSet(k)
  BY <1>1, PushFacts
<1> QED BY <1>2, <1>3 DEF Iterate, Activation

\* The activations k are some of those that are there, and no event of a transition.
LEMMA CalmStep ==
  ASSUME CalmInv, NEW k \in Seq(Frame), Grows(k), loop' # "aborted", UNCHANGED transition,
         \A f \in ToSet(k) : f \in ToSet(stack) \/ f.at # "fullscreen-changed",
         \A w \in Window : api'[w] \in {"deleting", "freed"} => native'[w] # "open"
  PROVE  CalmInv'
<1>1. \A f \in ToSet(stack') : f.at # "fullscreen-changed"
  BY GrowsElements DEF CalmInv, OnStack
<1> QED BY <1>1 DEF CalmInv, OnStack

\* The close of a window leaves no deleted BaseWindow with an open window,
LEMMA CalmCloseImmediately ==
  ASSUME TypeOK, CalmInv, NEW w \in Window, NEW k \in Seq(Frame), UNCHANGED transition,
         \A f \in ToSet(k) : f \in ToSet(stack) \/ f.at # "fullscreen-changed",
         NEW base, CloseImmediately(w, base, k)
  PROVE  CalmInv'
<1>1. Grows(k) /\ loop' # "aborted"
  BY CloseImmediatelyGrows DEF CalmInv
<1>2. \A v \in Window : api'[v] \in {"deleting", "freed"} => native'[v] # "open"
  BY CloseImmediatelyGrows DEF CalmInv
<1> QED BY <1>1, <1>2, CalmStep

\* nor does its polite close.
LEMMA CalmClose ==
  ASSUME TypeOK, CalmInv, NEW w \in Window, native[w] = "open", NEW k \in Seq(Frame),
         UNCHANGED transition,
         \A f \in ToSet(k) : f \in ToSet(stack) \/ f.at # "fullscreen-changed",
         Close(w, k)
  PROVE  CalmInv'
<1>1. Grows(k) /\ loop' # "aborted"
  BY CloseGrows DEF CalmInv
<1>2. \A v \in Window : api'[v] \in {"deleting", "freed"} => native'[v] # "open"
  BY CloseGrows DEF CalmInv
<1> QED BY <1>1, <1>2, CalmStep

\* No step of the system or its users aborts.
LEMMA CalmSystem ==
  ASSUME ~Fullscreen, IInv, CalmInv, System \/ Environment
  PROVE  CalmInv'
<1>1. TypeOK /\ WindowInv /\ TaskInv /\ loop # "aborted"
  BY DEF IInv, CalmInv
<1>2. <<>> \in Seq(Frame) /\ \A f : f \notin ToSet(<<>>)
  BY NoElements
<1>3. CASE DidFinishLaunching \/ RunScript
  <2>1. Grows(<<>>)
    BY <1>3, EmitGrows DEF DidFinishLaunching, RunScript, Emit, Listeners, AppEvents, Scripts, WindowEvents
  <2> QED BY <1>1, <1>2, <1>3, <2>1, CalmStep DEF DidFinishLaunching, RunScript, wins, CalmInv
<1>4. CASE QuitFromSystem
  <2>1. Grows(<<>>)
    BY <1>4, ApplicationGrows DEF QuitFromSystem
  <2> QED BY <1>1, <1>2, <1>4, <2>1, CalmStep DEF QuitFromSystem, wins, CalmInv
<1>5. CASE WillRunMainMessageLoop \/ LoopEnds
  BY <1>1, <1>5 DEF WillRunMainMessageLoop, LoopEnds, wins, CalmInv, OnStack
<1>6. CASE RunTask
  <2> DEFINE task == Head(tasks)
  <2>1. task \in Task /\ task \in ToSet(tasks) /\ UNCHANGED <<stack, transition>>
    BY <1>1, <1>6, PopElements DEF RunTask, TypeOK
  <2>2. task.do = "DeleteNativeWindow" => task.w \in Window /\ native[task.w] # "open"
    BY <1>1, <2>1 DEF TaskInv, Task, CalmInv
  <2>3. task.do = "DestroyBaseWindow" /\ api[task.w] = "marked" => task.w \in Window /\ native[task.w] = "closed"
    BY <1>1, <2>1 DEF TaskInv, Task, WindowInv
  <2> HIDE DEF task
  <2>4. loop' # "aborted" /\ \A w \in Window : api'[w] \in {"deleting", "freed"} => native'[w] # "open"
    BY <1>1, <1>6, <2>2, <2>3 DEF RunTask, TypeOK, CalmInv, task
  <2> QED BY <2>1, <2>4 DEF CalmInv, OnStack
<1>7. ASSUME NEW w \in Window, FinishTransition(w) \/ StartTransition(w) PROVE CalmInv'
  BY <1>7 DEF FinishTransition, StartTransition, CalmInv
<1>8. ASSUME NEW w \in Window, UserCloses(w) PROVE CalmInv'
  BY <1>1, <1>2, <1>8, CalmClose DEF UserCloses
<1> QED BY <1>3, <1>4, <1>5, <1>6, <1>7, <1>8 DEF System, Environment

\* No call of a script does: what it destroys is closed first.
LEMMA CalmJavaScript ==
  ASSUME IInv, CalmInv, JavaScript
  PROVE  CalmInv'
<1>1. TypeOK /\ WindowInv /\ stack \in Seq(Frame) /\ loop # "aborted"
  BY DEF IInv, CalmInv, TypeOK
<1>2. CASE JsQuit
  BY <1>1, <1>2, ApplicationGrows, CalmStep DEF JsQuit, wins, CalmInv
<1>3. CASE JsExit
  <2>1. CASE UNCHANGED stack /\ loop' = "exited"
    BY <1>1, <1>3, <2>1 DEF JsExit, wins, CalmInv, OnStack
  <2>2. CASE Shutdown(TRUE, stack) /\ UNCHANGED loop
    BY <1>1, <1>3, <2>2, ApplicationGrows, CalmStep DEF JsExit, wins, CalmInv
  <2>3. CASE stack' = Iterate("DestroyAllWindows", windows, stack) /\ UNCHANGED loop
    <3>1. \A f \in ToSet(stack') : f \in ToSet(stack) \/ f = Activation("DestroyAllWindows", NoWindow, windows)
      BY <1>1, <2>3, IterateElements DEF Loops, TypeOK
    <3> QED BY <1>1, <1>3, <2>3, <3>1 DEF JsExit, wins, CalmInv, OnStack, Activation
  <2> QED BY <1>3, <2>1, <2>2, <2>3 DEF JsExit
<1>4. ASSUME NEW w \in Window, NEW can_close \in BOOLEAN, JsNew(w, can_close) PROVE CalmInv'
  BY <1>1, <1>4 DEF JsNew, CalmInv, OnStack, TypeOK
<1>5. ASSUME NEW w \in Window, JsClose(w) PROVE CalmInv'
  BY <1>1, <1>5, CalmClose DEF JsClose, WindowInv
<1>6. ASSUME NEW w \in Window, JsDestroy(w) PROVE CalmInv'
  <2>1. Destructor(w, stack) \in Seq(Frame)
    BY <1>1, PushFacts DEF Destructor
  <2>2. \A f \in ToSet(Destructor(w, stack)) : f \in ToSet(stack) \/ f = Activation("~BaseWindow", w, {})
    BY <1>1, DestructorFacts
  <2>3. Activation("~BaseWindow", w, {}).at # "fullscreen-changed"
    BY DEF Activation
  <2> QED BY <1>1, <1>6, <2>1, <2>2, <2>3, CalmCloseImmediately DEF JsDestroy
<1> QED BY <1>2, <1>3, <1>4, <1>5, <1>6 DEF JavaScript

\* No return does.
LEMMA CalmReturn ==
  ASSUME IInv, CalmInv, Return
  PROVE  CalmInv'
<1>1. TypeOK /\ WindowInv /\ StackInv /\ loop # "aborted" /\ stack # <<>>
  BY DEF IInv, CalmInv, Return, Running, ReturnFromNotification, ReturnFromQuit, ReturnFromClosed,
     ReturnFromFullscreenChanged, IterateWindows, FinishDestructor, ReturnFromBeforeQuit,
     ReturnFromWillQuit, ReturnFromClose
<1>2. /\ Top \in Frame /\ Rest \in Seq(Frame) /\ Top \in ToSet(stack)
      /\ \A f \in ToSet(Rest) : f \in ToSet(stack)
  BY <1>1, RestFacts
<1>3. CASE ReturnFromNotification \/ ReturnFromQuit
  BY <1>1, <1>2, <1>3, CalmStep DEF ReturnFromNotification, ReturnFromQuit, Grows, wins, CalmInv
<1>4. CASE FinishDestructor
  <2>1. Top.w \in Window /\ native[Top.w] # "open"
    BY <1>1, <1>2, <1>4 DEF FinishDestructor, Running, StackInv, CalmInv, Frame
  <2>2. \A w \in Window : api'[w] \in {"deleting", "freed"} => native'[w] # "open"
    BY <1>1, <1>4, <2>1 DEF FinishDestructor, CalmInv, TypeOK
  <2> QED BY <1>1, <1>2, <1>4, <2>2, CalmStep DEF FinishDestructor, Grows
<1>5. CASE ReturnFromClosed
  <2>1. Grows(Rest)
    BY <1>5, ApplicationGrows DEF ReturnFromClosed, Grows
  <2> QED BY <1>1, <1>2, <1>5, <2>1, CalmStep DEF ReturnFromClosed, CalmInv
<1>6. CASE ReturnFromFullscreenChanged
  BY <1>2, <1>6 DEF ReturnFromFullscreenChanged, Running, CalmInv, OnStack
<1>7. CASE IterateWindows
  <2>1. CASE stack' = Rest /\ UNCHANGED <<loop, native, api>>
    BY <1>1, <1>2, <1>7, <2>1, CalmStep DEF IterateWindows, Grows, CalmInv
  <2>2. ASSUME NEW w \in Top.todo,
               LET k == Iterate(Top.at, Top.todo \ {w}, Rest) IN
               \/ stack' = k /\ UNCHANGED <<loop, native, api>>
               \/ native[w] = "open" /\ Close(w, k)
               \/ CloseImmediately(w, api[w], k)
        PROVE  CalmInv'
    <3> DEFINE k == Iterate(Top.at, Top.todo \ {w}, Rest)
    <3>1. w \in Window /\ Top.todo \ {w} \in SUBSET Window /\ Top.at \in Loops
      BY <1>2, <1>7 DEF Frame, IterateWindows, Running
    <3>2. k \in Seq(Frame) /\ \A f \in ToSet(k) : f = Activation(Top.at, NoWindow, Top.todo \ {w}) \/ f \in ToSet(Rest)
      BY <1>2, <3>1, IterateElements
    <3>3. \A f \in ToSet(k) : f \in ToSet(stack) \/ f.at # "fullscreen-changed"
      BY <1>2, <3>1, <3>2, Activation(Top.at, NoWindow, Top.todo \ {w}).at = Top.at DEF Activation, Loops
    <3>4. UNCHANGED transition
      BY <1>7 DEF IterateWindows
    <3> HIDE DEF k
    <3>5. CASE stack' = k /\ UNCHANGED <<loop, native, api>>
      BY <1>1, <3>2, <3>3, <3>4, <3>5, CalmStep DEF Grows, CalmInv
    <3>6. CASE native[w] = "open" /\ Close(w, k)
      BY <1>1, <3>1, <3>2, <3>3, <3>4, <3>6, CalmClose
    <3>7. CASE CloseImmediately(w, api[w], k)
      BY <1>1, <3>1, <3>2, <3>3, <3>4, <3>7, CalmCloseImmediately
    <3> QED BY <2>2, <3>5, <3>6, <3>7 DEF k
  <2> QED BY <1>7, <2>1, <2>2 DEF IterateWindows
<1>8. ASSUME NEW prevented \in BOOLEAN, ReturnFromBeforeQuit(prevented) PROVE CalmInv'
  <2>1. CASE stack' = Iterate("CloseAllWindows", windows, Rest)
    <3>1. \A f \in ToSet(stack') : f \in ToSet(Rest) \/ f = Activation("CloseAllWindows", NoWindow, windows)
      BY <1>1, <1>2, <2>1, IterateElements DEF Loops, TypeOK
    <3> QED BY <1>1, <1>2, <1>8, <3>1 DEF ReturnFromBeforeQuit, wins, CalmInv, OnStack, Activation
  <2>2. CASE stack' = Rest \/ NotifyAndShutdown(Rest)
    <3>1. Grows(Rest)
      BY <2>2, ApplicationGrows DEF Grows
    <3> QED BY <1>1, <1>2, <1>8, <3>1, CalmStep DEF ReturnFromBeforeQuit, wins, CalmInv
  <2> QED BY <1>8, <2>1, <2>2 DEF ReturnFromBeforeQuit
<1>9. ASSUME NEW prevented \in BOOLEAN, ReturnFromWillQuit(prevented) PROVE CalmInv'
  <2>1. Grows(Rest)
    BY <1>9, ApplicationGrows DEF ReturnFromWillQuit, Grows
  <2> QED BY <1>1, <1>2, <1>9, <2>1, CalmStep DEF ReturnFromWillQuit, wins, CalmInv
<1>10. ASSUME NEW prevented \in BOOLEAN, ReturnFromClose(prevented) PROVE CalmInv'
  <2>1. Top.w \in Window
    BY <1>1, <1>2, <1>10 DEF ReturnFromClose, Running, StackInv, WindowEvents, Frame
  <2>2. CASE stack' = Rest /\ UNCHANGED <<loop, native, api>>
    BY <1>1, <1>2, <1>10, <2>2, CalmStep DEF ReturnFromClose, Grows, CalmInv
  <2>3. CASE CloseImmediately(Top.w, api[Top.w], Rest)
    BY <1>1, <1>2, <1>10, <2>1, <2>3, CalmCloseImmediately DEF ReturnFromClose
  <2> QED BY <1>10, <2>2, <2>3 DEF ReturnFromClose
<1> QED BY <1>3, <1>4, <1>5, <1>6, <1>7, <1>8, <1>9, <1>10 DEF Return

\* The activations that carry a quit or an exit are all in k.
Carries(k) ==
  \A f \in ToSet(stack) : f.at \in {"will-quit", "close"} \cup Loops => f \in ToSet(k)

\* A call that returns to them, opens no window and begins no quit or exit.
LEMMA CarriedStep ==
  ASSUME QuitCarried, ExitCarried, NEW k \in Seq(Frame), Carries(k), Grows(k),
         is_quitting' => is_quitting, is_shutdown => is_shutdown', UNCHANGED <<is_exiting, windows>>,
         \A v \in windows : native'[v] = "open" => native[v] = "open"
  PROVE  QuitCarried' /\ ExitCarried'
<1>1. \A f \in ToSet(stack) : f.at \in {"will-quit", "close"} \cup Loops => f \in ToSet(stack')
  BY GrowsElements DEF Carries
<1>2. \A v : Awaited(stack, v) => Awaited(stack', v)
  BY <1>1 DEF Awaited
<1>3. \A v : Doomed(stack, v) => Doomed(stack', v)
  BY <1>1 DEF Doomed, Loops
<1>4. OnStack({"will-quit"}) => OnStack({"will-quit"})'
  BY <1>1 DEF OnStack
<1> QED BY <1>2, <1>3, <1>4 DEF QuitCarried, ExitCarried

\* All of them are there when a call is made, and when another activation returns.
LEMMA AllCarry ==
  ASSUME TypeOK
  PROVE  /\ Carries(stack)
         /\ stack = <<>> => Carries(<<>>)
         /\ stack # <<>> /\ Top.at \notin {"will-quit", "close"} \cup Loops => Carries(Rest)
  BY RestFacts DEF Carries

\* The same of what a window does, whoever else it closes.
LEMMA CarriedClose ==
  ASSUME TypeOK, CalmInv, QuitCarried, ExitCarried, NEW w \in Window, native[w] = "open",
         NEW k \in Seq(Frame), Carries(k), Close(w, k),
         UNCHANGED <<is_shutdown, is_exiting, windows>>
  PROVE  QuitCarried' /\ ExitCarried'
<1>1. /\ Grows(k)
      /\ is_quitting' => is_quitting
      /\ \A v \in Window : native'[v] = "open" => native[v] = "open"
  BY CloseGrows
<1>2. /\ is_shutdown => is_shutdown'
      /\ UNCHANGED <<is_exiting, windows>>
  OBVIOUS
<1>3. \A v \in windows : native'[v] = "open" => native[v] = "open"
  BY <1>1 DEF TypeOK
<1> QED BY <1>1, <1>2, <1>3, CarriedStep

\* And of a window closed without asking.
LEMMA CarriedCloseImmediately ==
  ASSUME TypeOK, CalmInv, QuitCarried, ExitCarried, NEW w \in Window,
         NEW base, NEW k \in Seq(Frame), Carries(k), CloseImmediately(w, base, k),
         is_quitting' => is_quitting, UNCHANGED <<is_shutdown, is_exiting, windows>>
  PROVE  QuitCarried' /\ ExitCarried'
<1>1. Grows(k) /\ \A v \in Window : native'[v] = "open" => native[v] = "open"
  BY CloseImmediatelyGrows
<1> QED BY <1>1, CarriedStep DEF TypeOK

\* No step of the system or its users drops what carries them.
LEMMA CarriedSystem ==
  ASSUME ~Fullscreen, IInv, CalmInv, QuitCarried, ExitCarried, System \/ Environment
  PROVE  QuitCarried' /\ ExitCarried'
<1>1. TypeOK /\ <<>> \in Seq(Frame)
  BY DEF IInv
<1>2. CASE DidFinishLaunching \/ RunScript
  <2>1. Grows(<<>>)
    BY <1>2, EmitGrows DEF DidFinishLaunching, RunScript, Emit, Listeners, AppEvents, Scripts, WindowEvents
  <2>2. /\ is_quitting' => is_quitting
        /\ is_shutdown => is_shutdown'
        /\ UNCHANGED <<is_exiting, windows, native>> /\ stack = <<>>
    BY <1>2 DEF DidFinishLaunching, RunScript, Unwound, Idle, flags, wins
  <2>3. Carries(<<>>)
    BY <1>1, <2>2, AllCarry
  <2>4. \A v \in windows : native'[v] = "open" => native[v] = "open"
    BY <2>2
  <2> QED BY <1>1, <2>1, <2>2, <2>3, <2>4, CarriedStep
<1>3. CASE QuitFromSystem
  <2>1. Grows(<<>>)
    BY <1>3, ApplicationGrows DEF QuitFromSystem
  <2> QED BY <1>1, <1>3, <2>1, AllCarry, CarriedStep DEF QuitFromSystem, Unwound, Idle, flags, wins
<1>4. CASE WillRunMainMessageLoop \/ LoopEnds
  BY <1>4 DEF WillRunMainMessageLoop, LoopEnds, flags, wins, QuitCarried, ExitCarried, OnStack
<1>5. CASE RunTask
  <2>1. UNCHANGED <<is_quitting, is_exiting, is_shutdown, windows, stack>>
    BY <1>5 DEF RunTask, flags
  <2>2. \A v \in Window : native'[v] = "open" => native[v] = "open"
    BY <1>1, <1>5 DEF RunTask, TypeOK
  <2> QED BY <1>1, <2>1, <2>2 DEF QuitCarried, ExitCarried, OnStack, TypeOK
<1>6. ASSUME NEW w \in Window, FinishTransition(w) \/ StartTransition(w) PROVE FALSE
  BY <1>6 DEF FinishTransition, StartTransition, CalmInv
<1>7. ASSUME NEW w \in Window, UserCloses(w) PROVE QuitCarried' /\ ExitCarried'
  BY <1>1, <1>7, AllCarry, CarriedClose DEF UserCloses, Unwound, Idle
<1> QED BY <1>2, <1>3, <1>4, <1>5, <1>6, <1>7 DEF System, Environment

\* An exit starts a walk of every window, and no window is opened on the way.
LEMMA CarriedJavaScript ==
  ASSUME ~LateWindows, IInv, CalmInv, QuitCarried, ExitCarried, JavaScript
  PROVE  QuitCarried' /\ ExitCarried'
<1>1. TypeOK /\ WindowInv /\ ExitCompletes /\ stack \in Seq(Frame)
  BY DEF IInv, CalmInv, TypeOK
<1>2. CASE JsQuit
  BY <1>1, <1>2, ApplicationGrows, AllCarry, CarriedStep DEF JsQuit, flags, wins
<1>3. CASE JsExit
  <2>1. CASE UNCHANGED <<is_quitting, is_exiting, is_shutdown, stack>>
    BY <1>3, <2>1 DEF JsExit, wins, QuitCarried, ExitCarried, OnStack
  <2>2. CASE Shutdown(TRUE, stack)
    BY <2>2 DEF Shutdown, QuitCarried, ExitCarried
  <2>3. CASE windows # {} /\ stack' = Iterate("DestroyAllWindows", windows, stack)
    <3>1. \E f \in ToSet(stack') : f.at = "DestroyAllWindows" /\ f.todo = windows
      BY <1>1, <2>3, IterateElements DEF Loops, TypeOK
    <3>2. \A v \in windows : Awaited(stack', v) /\ Doomed(stack', v)
      BY <3>1 DEF Awaited, Doomed, Loops
    <3> QED BY <1>3, <2>3, <3>2 DEF JsExit, wins, QuitCarried, ExitCarried
  <2> QED BY <1>3, <2>1, <2>2, <2>3 DEF JsExit
<1>4. ASSUME NEW w \in Window, NEW can_close \in BOOLEAN, JsNew(w, can_close)
      PROVE  QuitCarried' /\ ExitCarried'
  BY <1>4 DEF JsNew, Quitting, flags, QuitCarried, ExitCarried
<1>5. ASSUME NEW w \in Window, JsClose(w) PROVE QuitCarried' /\ ExitCarried'
  BY <1>1, <1>5, AllCarry, CarriedClose DEF JsClose, WindowInv
<1>6. ASSUME NEW w \in Window, JsDestroy(w) PROVE QuitCarried' /\ ExitCarried'
  <2>1. Destructor(w, stack) \in Seq(Frame)
    BY <1>1, PushFacts DEF Destructor
  <2>2. Carries(Destructor(w, stack))
    BY <1>1, DestructorFacts DEF Carries
  <2> QED BY <1>1, <1>6, <2>1, <2>2, CarriedCloseImmediately DEF JsDestroy, flags
<1> QED BY <1>2, <1>3, <1>4, <1>5, <1>6 DEF JavaScript

\* A walk passes on what it carried: to the window it asks, or to the rest of it.
LEMMA CarriedWalk ==
  ASSUME IInv, CalmInv, QuitCarried, ExitCarried, IterateWindows
  PROVE  QuitCarried' /\ ExitCarried'
<1>1. /\ TypeOK /\ stack # <<>> /\ Top.at \in Loops
      /\ UNCHANGED <<is_exiting, is_shutdown, windows>>
  BY DEF IInv, CalmInv, IterateWindows, Running
<1>2. /\ Top \in Frame /\ Rest \in Seq(Frame)
      /\ \A f : f \in ToSet(stack) <=> f = Top \/ f \in ToSet(Rest)
  BY <1>1, RestFacts
<1>3. Top.at # "will-quit" /\ Top.at # "close"
  BY <1>1 DEF Loops
<1>4. CASE Top.todo = {} /\ stack' = Rest /\ UNCHANGED <<is_quitting, native>>
  <2>1. \A v : /\ Awaited(stack, v) => Awaited(stack', v)
               /\ Doomed(stack, v) => Doomed(stack', v)
    BY <1>2, <1>3, <1>4 DEF Awaited, Doomed
  <2>2. OnStack({"will-quit"}) => OnStack({"will-quit"})'
    BY <1>2, <1>3, <1>4 DEF OnStack
  <2> QED BY <1>1, <1>4, <2>1, <2>2 DEF QuitCarried, ExitCarried
<1>5. ASSUME NEW w \in Top.todo,
             LET k == Iterate(Top.at, Top.todo \ {w}, Rest) IN
             \/ native[w] # "open" /\ stack' = k /\ UNCHANGED <<is_quitting, native>>
             \/ native[w] = "open" /\ Top.at = "CloseAllWindows" /\ Close(w, k)
             \/ Top.at = "DestroyAllWindows" /\ CloseImmediately(w, api[w], k) /\ UNCHANGED is_quitting
      PROVE  QuitCarried' /\ ExitCarried'
  <2> DEFINE k == Iterate(Top.at, Top.todo \ {w}, Rest)
             x == Activation(Top.at, NoWindow, Top.todo \ {w})
  <2>1. w \in Window /\ Top.todo \ {w} \in SUBSET Window
    BY <1>2 DEF Frame
  <2>2. /\ k \in Seq(Frame) /\ x.at = Top.at /\ x.todo = Top.todo \ {w}
        /\ \A f : f \in ToSet(k) <=> f = x \/ f \in ToSet(Rest)
    BY <1>1, <1>2, <2>1, IterateElements
  <2>3. /\ Grows(k)
        /\ is_quitting' => is_quitting
        /\ \A v \in Window : native'[v] = "open" => native[v] = "open"
        /\ is_quitting' /\ native'[w] = "open" => Awaited(stack', w)
        /\ Top.at = "DestroyAllWindows" => native'[w] # "open"
    <3>1. CASE native[w] # "open" /\ stack' = k /\ UNCHANGED <<is_quitting, native>>
      BY <3>1 DEF Grows
    <3>2. CASE native[w] = "open" /\ Top.at = "CloseAllWindows" /\ Close(w, k)
      BY <1>1, <2>1, <2>2, <3>2, CloseGrows
    <3>3. CASE CloseImmediately(w, api[w], k) /\ UNCHANGED is_quitting
      BY <1>1, <2>1, <3>3, CloseImmediatelyGrows
    <3> QED BY <1>5, <3>1, <3>2, <3>3
  <2>4. \A f \in ToSet(k) : f \in ToSet(stack')
    BY <2>2, <2>3, GrowsElements
  <2> HIDE DEF k, x
  <2>5. \A v : v # w /\ Awaited(stack, v) => Awaited(stack', v)
    BY <1>1, <1>2, <1>3, <2>2, <2>4 DEF Awaited
  <2>6. \A v : v # w /\ Doomed(stack, v) => Doomed(stack', v)
    BY <1>1, <1>2, <2>2, <2>4 DEF Doomed
  <2>7. Top.at # "DestroyAllWindows" /\ Doomed(stack, w) => Doomed(stack', w)
    BY <1>2, <2>2, <2>4 DEF Doomed
  <2>8. OnStack({"will-quit"}) => OnStack({"will-quit"})'
    BY <1>2, <1>3, <2>2, <2>4 DEF OnStack
  <2>9. windows \in SUBSET Window
    BY <1>1 DEF TypeOK
  <2>10. QuitCarried'
    BY <1>1, <2>3, <2>5, <2>8, <2>9 DEF QuitCarried
  <2>11. ExitCarried'
    BY <1>1, <2>3, <2>6, <2>7, <2>9 DEF ExitCarried
  <2> QED BY <2>10, <2>11
<1> QED BY <1>1, <1>4, <1>5 DEF IterateWindows

\* A return keeps or decides them.
LEMMA CarriedReturn ==
  ASSUME IInv, CalmInv, QuitCarried, ExitCarried, Return
  PROVE  QuitCarried' /\ ExitCarried'
<1>1. TypeOK /\ WindowInv /\ StackInv /\ ExitCompletes /\ ExitCompletes' /\ stack # <<>>
  <2>1. ExitCompletes'
    BY NextInv DEF Next, IInv
  <2> QED
    BY <2>1 DEF IInv, CalmInv, Return, Running, ReturnFromNotification, ReturnFromQuit, ReturnFromClosed,
     ReturnFromFullscreenChanged, IterateWindows, FinishDestructor, ReturnFromBeforeQuit,
     ReturnFromWillQuit, ReturnFromClose
<1>2. /\ Top \in Frame /\ Rest \in Seq(Frame) /\ Top \in ToSet(stack)
      /\ \A f : f \in ToSet(stack) <=> f = Top \/ f \in ToSet(Rest)
  BY <1>1, RestFacts
<1>3. CASE ReturnFromNotification \/ ReturnFromQuit \/ FinishDestructor
  <2>1. Carries(Rest) /\ Grows(Rest)
    BY <1>1, <1>3, AllCarry DEF ReturnFromNotification, ReturnFromQuit, FinishDestructor, Running, Grows, Loops
  <2>2. UNCHANGED <<is_quitting, is_shutdown, is_exiting, windows, native>>
    BY <1>3 DEF ReturnFromNotification, ReturnFromQuit, FinishDestructor, flags, wins
  <2> QED BY <1>2, <2>1, <2>2, CarriedStep
<1>4. CASE ReturnFromClosed
  <2>1. Carries(Rest) /\ Grows(Rest) /\ UNCHANGED <<is_exiting, native>> /\ windows' \subseteq windows
    BY <1>1, <1>4, AllCarry, ApplicationGrows DEF ReturnFromClosed, Running, Grows, Loops
  <2>2. \A f \in ToSet(stack) : f.at \in {"will-quit", "close"} \cup Loops => f \in ToSet(stack')
    BY <1>2, <2>1, GrowsElements DEF Carries
  <2>3. \A v : /\ Awaited(stack, v) => Awaited(stack', v)
               /\ Doomed(stack, v) => Doomed(stack', v)
    BY <2>2 DEF Awaited, Doomed, Loops
  <2>4. OnStack({"will-quit"}) => OnStack({"will-quit"})'
    BY <2>2 DEF OnStack
  <2>5. CASE windows' # {} /\ UNCHANGED <<is_quitting, is_shutdown>>
    BY <2>1, <2>3, <2>4, <2>5 DEF QuitCarried, ExitCarried
  <2>6. CASE windows' = {} /\ OnWindowAllClosed(Rest)
    <3>1. is_quitting' /\ ~is_shutdown' => OnStack({"will-quit"})'
      <4>1. CASE Shutdown(is_quitting, Rest)
        BY <4>1 DEF Shutdown
      <4>2. CASE NotifyAndShutdown(Rest) /\ UNCHANGED is_shutdown
        <5> SUFFICES ASSUME ~is_shutdown PROVE OnStack({"will-quit"})'
          BY <4>2
        <5>1. stack' = Push("will-quit", NoWindow, {}, Rest)
          BY <4>2 DEF NotifyAndShutdown, Emit
        <5>2. Activation("will-quit", NoWindow, {}) \in ToSet(stack')
          BY <1>2, <5>1, PushFacts DEF Listeners, AppEvents
        <5> QED BY <5>2 DEF OnStack, Activation
      <4>3. CASE ~is_quitting /\ UNCHANGED is_quitting
        BY <4>3
      <4> QED BY <2>6, <4>1, <4>2, <4>3 DEF OnWindowAllClosed
    <3> QED BY <2>6, <3>1 DEF QuitCarried, ExitCarried
  <2> QED BY <1>4, <2>5, <2>6 DEF ReturnFromClosed
<1>5. CASE ReturnFromFullscreenChanged
  BY <1>2, <1>5 DEF ReturnFromFullscreenChanged, Running, CalmInv, OnStack
<1>6. CASE IterateWindows
  BY <1>6, CarriedWalk
<1>7. ASSUME NEW prevented \in BOOLEAN, ReturnFromBeforeQuit(prevented) PROVE QuitCarried' /\ ExitCarried'
  <2>1. Carries(Rest) /\ UNCHANGED <<is_shutdown, is_exiting, windows, native>>
    BY <1>1, <1>7, AllCarry DEF ReturnFromBeforeQuit, Running, Loops, wins
  <2>2. CASE prevented /\ stack' = Rest /\ ~is_quitting'
    BY <1>2, <2>1, <2>2, CarriedStep DEF Grows
  <2>3. CASE windows = {} /\ NotifyAndShutdown(Rest)
    <3>1. ASSUME ~is_shutdown PROVE OnStack({"will-quit"})'
      <4>1. stack' = Push("will-quit", NoWindow, {}, Rest)
        BY <2>3, <3>1 DEF NotifyAndShutdown, Emit
      <4>2. Activation("will-quit", NoWindow, {}) \in ToSet(stack')
        BY <1>2, <4>1, PushFacts DEF Listeners, AppEvents
      <4> QED BY <4>2 DEF OnStack, Activation
    <3> QED BY <2>1, <2>3, <3>1 DEF QuitCarried, ExitCarried
  <2>4. CASE windows # {} /\ stack' = Iterate("CloseAllWindows", windows, Rest)
    <3>1. /\ \E f \in ToSet(stack') : f.at = "CloseAllWindows" /\ f.todo = windows
          /\ \A f \in ToSet(Rest) : f \in ToSet(stack')
      BY <1>1, <1>2, <2>4, IterateElements DEF Loops, TypeOK
    <3>2. \A v \in windows : Awaited(stack', v)
      BY <3>1 DEF Awaited, Loops
    <3>3. \A v : Doomed(stack, v) => Doomed(stack', v)
      BY <2>1, <3>1 DEF Doomed, Carries, Loops
    <3> QED BY <2>1, <2>4, <3>2, <3>3 DEF QuitCarried, ExitCarried
  <2> QED BY <1>7, <2>2, <2>3, <2>4 DEF ReturnFromBeforeQuit
<1>8. ASSUME NEW prevented \in BOOLEAN, ReturnFromWillQuit(prevented) PROVE QuitCarried' /\ ExitCarried'
  <2>1. UNCHANGED <<is_exiting, windows, native>> /\ Top.at = "will-quit" /\ Grows(Rest)
    BY <1>8, ApplicationGrows DEF ReturnFromWillQuit, Running, wins, Grows
  <2>2. is_quitting' => is_shutdown'
    BY <1>8 DEF ReturnFromWillQuit, Shutdown
  <2>3. \A v : Doomed(stack, v) => Doomed(stack', v)
    BY <1>2, <2>1, GrowsElements DEF Doomed
  <2>4. ~is_shutdown' => ~is_shutdown
    BY <1>8 DEF ReturnFromWillQuit, Shutdown
  <2> QED BY <2>1, <2>2, <2>3, <2>4 DEF QuitCarried, ExitCarried
<1>9. ASSUME NEW prevented \in BOOLEAN, ReturnFromClose(prevented) PROVE QuitCarried' /\ ExitCarried'
  <2>1. /\ UNCHANGED <<is_exiting, is_shutdown, windows>> /\ Top.at = "close" /\ Top.w \in Window
    BY <1>1, <1>2, <1>9 DEF ReturnFromClose, Running, StackInv, WindowEvents, Frame
  <2>2. ASSUME Grows(Rest) PROVE \A v : Doomed(stack, v) => Doomed(stack', v)
    BY <1>2, <2>1, <2>2, GrowsElements DEF Doomed
  <2>3. CASE is_quitting' = FALSE /\ stack' = Rest /\ UNCHANGED native
    BY <2>1, <2>2, <2>3 DEF QuitCarried, ExitCarried, Grows
  <2>4. CASE CloseImmediately(Top.w, api[Top.w], Rest) /\ UNCHANGED is_quitting
    <3>1. /\ Grows(Rest) /\ native'[Top.w] # "open"
          /\ \A v \in Window \ {Top.w} : native'[v] = native[v]
      BY <1>1, <2>1, <2>4, CloseImmediatelyGrows
    <3>2. \A v : v # Top.w /\ Awaited(stack, v) => Awaited(stack', v)
      BY <1>2, <2>1, <3>1, GrowsElements DEF Awaited, Loops
    <3>3. OnStack({"will-quit"}) => OnStack({"will-quit"})'
      BY <1>2, <2>1, <3>1, GrowsElements DEF OnStack
    <3>4. windows \in SUBSET Window
      BY <1>1 DEF TypeOK
    <3> QED BY <2>1, <2>2, <2>4, <3>1, <3>2, <3>3, <3>4 DEF QuitCarried, ExitCarried
  <2> QED BY <1>9, <2>3, <2>4 DEF ReturnFromClose
<1> QED BY <1>3, <1>4, <1>5, <1>6, <1>7, <1>8, <1>9 DEF Return

\* Without fullscreen transitions every step keeps what was said.
LEMMA CalmNext ==
  ASSUME ~Fullscreen, IInv, CalmInv, [Next]_vars PROVE CalmInv'
<1>1. CASE UNCHANGED vars
  BY <1>1 DEF vars, wins, CalmInv, OnStack
<1> QED BY <1>1, CalmSystem, CalmJavaScript, CalmReturn DEF Next

\* Neither does any step, as long as no window is opened while the application stops.
LEMMA CarriedNext ==
  ASSUME ~Fullscreen, ~LateWindows, IInv, CalmInv, QuitCarried, ExitCarried, [Next]_vars
  PROVE  QuitCarried' /\ ExitCarried'
<1>1. CASE UNCHANGED vars
  BY <1>1 DEF vars, flags, wins, QuitCarried, ExitCarried, OnStack
<1> QED BY <1>1, CarriedSystem, CarriedJavaScript, CarriedReturn DEF Next

\* At first nothing is running.
LEMMA CalmInit == ASSUME Init PROVE CalmInv /\ QuitCarried /\ ExitCarried
  BY NoElements DEF Init, CalmInv, QuitCarried, ExitCarried, OnStack

\* Where no window goes in or out of fullscreen, no event reaches a BaseWindow that
\* is gone or a delegate that was cleaned up (base::CheckedObserver,
\* LynxNSWindowDelegate).
THEOREM NothingAborts == ASSUME ~Fullscreen PROVE Spec => []NoAbort
<1>1. IInv /\ CalmInv /\ [Next]_vars => CalmInv'
  BY CalmNext
<1>2. CalmInv => NoAbort
  BY DEF CalmInv, NoAbort
<1> QED BY <1>1, <1>2, CalmInit, Invariance, PTL DEF Spec

\* There win.destroy() keeps its promise: a BaseWindow is deleted only after its
\* "closed" event, in whatever listener, walk or task it goes.
THEOREM DestroyIsClosed == ASSUME ~Fullscreen PROVE Spec => []DestroyEmitsClosed
<1>1. IInv /\ CalmInv /\ [Next]_vars => CalmInv'
  BY CalmNext
<1>2. IInv /\ CalmInv => DestroyEmitsClosed
  BY DEF IInv, TypeOK, WindowInv, CalmInv, DestroyEmitsClosed
<1> QED BY <1>1, <1>2, CalmInit, Invariance, PTL DEF Spec

\* And if no window is opened while the application stops, neither quit() nor exit()
\* is left half way: when the stack is empty nothing carries them any more, so they
\* have shut the application down or were cancelled (is_quitting_, is_exiting_).
THEOREM StopsDecided == ASSUME ~Fullscreen, ~LateWindows PROVE Spec => []StopsAreDecided
<1>1. IInv /\ CalmInv /\ QuitCarried /\ ExitCarried /\ [Next]_vars => (CalmInv /\ QuitCarried /\ ExitCarried)'
  BY CalmNext, CarriedNext
<1>2. IInv /\ CalmInv /\ QuitCarried /\ ExitCarried => StopsAreDecided
  <2> SUFFICES ASSUME IInv, CalmInv, QuitCarried, ExitCarried, stack = <<>>, ~is_shutdown
               PROVE  ~is_quitting /\ ~is_exiting
    BY DEF StopsAreDecided, QuitIsDecided, ExitIsDecided, Unwound, Idle, IInv, TypeOK
  <2>1. \A v \in windows : native[v] = "open"
    BY NoElements DEF IInv, CalmInv, TypeOK, WindowInv
  <2>2. \A v : ~Awaited(stack, v) /\ ~Doomed(stack, v)
    BY NoElements DEF Awaited, Doomed
  <2>3. ~is_quitting
    BY <2>1, <2>2, NoElements DEF QuitCarried, OnStack
  <2>4. is_exiting => windows # {}
    BY DEF IInv, ExitCompletes
  <2> QED BY <2>1, <2>2, <2>3, <2>4 DEF ExitCarried
<1> QED BY <1>1, <1>2, CalmInit, Invariance, PTL DEF Spec

\* On macOS a window closes only after its "close" listeners agreed, unless it is
\* destroyed or the application exits (NativeWindowMac::Close, windowShouldClose).
THEOREM CloseAsks == ASSUME Platform = "mac" PROVE Spec => CloseAsksFirst
<1>1. ASSUME IInv, Next, NEW w \in Window, native[w] = "open", native'[w] = "closed"
      PROVE  api'[w] = "deleting" \/ Running({"close", "DestroyAllWindows", "fullscreen-changed"})
  <2>1. TypeOK
    BY <1>1 DEF IInv
  <2>2. ASSUME NEW v \in Window \cup {NoWindow}, NEW k, Close(v, k) PROVE FALSE
    BY <1>1, <2>2 DEF Close
  <2>3. CASE System
    BY <1>1, <2>1, <2>3 DEF System, DidFinishLaunching, WillRunMainMessageLoop, RunTask, LoopEnds,
       FinishTransition, wins, TypeOK
  <2>4. CASE Environment
    BY <1>1, <2>2, <2>4 DEF Environment, RunScript, QuitFromSystem, UserCloses, StartTransition, wins
  <2>5. CASE JavaScript
    <3>1. ASSUME NEW v \in Window, JsDestroy(v) PROVE api'[w] = "deleting"
      BY <1>1, <2>1, <3>1 DEF JsDestroy, CloseImmediately, NotifyWindowClosed, TypeOK
    <3>2. ASSUME NEW v \in Window, NEW can_close \in BOOLEAN, JsNew(v, can_close) PROVE FALSE
      BY <1>1, <2>1, <3>2 DEF JsNew, TypeOK
    <3> QED BY <1>1, <2>2, <2>5, <3>1, <3>2 DEF JavaScript, JsQuit, JsExit, JsClose, wins
  <2>6. CASE Return
    <3>1. CASE IterateWindows
      <4>1. stack # <<>> /\ Top.at \in Loops
        BY <3>1 DEF IterateWindows, Running
      <4>2. Top.todo \in SUBSET Window
        BY <2>1, <4>1, RestFacts DEF Frame
      <4>3. Top.at = "DestroyAllWindows"
        BY <1>1, <2>2, <3>1, <4>2 DEF IterateWindows
      <4> QED BY <4>1, <4>3 DEF Running
    <3> QED BY <1>1, <2>6, <3>1 DEF Return, ReturnFromNotification, ReturnFromQuit, ReturnFromClosed,
       ReturnFromFullscreenChanged, FinishDestructor, ReturnFromBeforeQuit, ReturnFromWillQuit,
       ReturnFromClose, Running, wins
  <2> QED BY <1>1, <2>3, <2>4, <2>5, <2>6 DEF Next
<1>2. IInv /\ [Next]_vars =>
        [\A w \in Window : native[w] = "open" /\ native'[w] = "closed" =>
           \/ api'[w] = "deleting"
           \/ Running({"close", "DestroyAllWindows", "fullscreen-changed"})]_vars
  BY <1>1
<1> QED BY <1>2, Invariance, PTL DEF Spec, CloseAsksFirst

-----------------------------------------------------------------------------
(***************************************************************************)
(* The application implements ApplicationLife.                             *)
(***************************************************************************)
\* An activation of an event is on the stack s.
Has(event, s) == \E f \in ToSet(s) : f.at = event

\* The list holds every open window; no window is there while "will-quit" is being
\* told, unless windows are opened late; and whatever leads out of the message loop
\* comes after the shutdown.
LifeInv ==
  /\ loop # "aborted" => \A w \in Window : native[w] = "open" => w \in windows
  /\ ~LateWindows /\ Has("will-quit", stack) => windows = {}
  /\ Has("quit", stack) \/ quit_when_idle => is_shutdown
  /\ \A t \in ToSet(tasks) : t.do = "QuitWhenIdle" => is_shutdown

\* The variables of ApplicationLife, as the application gives them.
lifeVars == <<is_ready, Seen, Asked, is_exiting, Stage, quit_events, Looping>>

\* What every step is shown to do.
LifeStep == LifeInv' /\ [Life!LifeNext]_lifeVars

\* The events of a life, whose activations Stage and Asked look for.
LifeEvents == {"before-quit", "will-quit", "quit"}
SameEvents(k) == \A e \in LifeEvents : Has(e, k) <=> Has(e, stack)

\* The activations of an event after a call, a return, and on an empty stack.
LEMMA HasPush ==
  ASSUME NEW at \in Listeners \cup Loops \cup {"~BaseWindow"}, NEW w \in Window \cup {NoWindow},
         NEW todo \in SUBSET Window, NEW k \in Seq(Frame)
  PROVE  \A e : Has(e, Push(at, w, todo, k)) <=> e = at \/ Has(e, k)
<1> DEFINE s == Push(at, w, todo, k)
<1>1. \A f : f \in ToSet(s) <=> f = Activation(at, w, todo) \/ f \in ToSet(k)
  <2>1. Activation(at, w, todo) \in Frame
    BY ActivationFacts
  <2>2. s = <<Activation(at, w, todo)>> \o k
    BY DEF Push
  <2>3. ToSet(s) = {Activation(at, w, todo)} \cup ToSet(k)
    BY <2>1, <2>2, PushElements
  <2> QED BY <2>3
<1>2. Activation(at, w, todo).at = at
  BY DEF Activation
<1> HIDE DEF s
<1>3. \A e : Has(e, s) <=> e = at \/ Has(e, k)
  BY <1>1, <1>2 DEF Has
<1> QED BY <1>3 DEF s

LEMMA HasRest ==
  ASSUME TypeOK, stack # <<>>
  PROVE  \A e : Has(e, stack) <=> e = Top.at \/ Has(e, Rest)
  BY RestFacts DEF Has

LEMMA HasEmpty == \A e : ~Has(e, <<>>)
  BY NoElements DEF Has

\* Returning from an activation of none of these events leaves them all.
LEMMA SameRest ==
  ASSUME TypeOK, stack # <<>>, Top.at \notin LifeEvents
  PROVE  SameEvents(Rest)
  BY HasRest DEF SameEvents

\* Calling anything else adds none of them.
LEMMA SamePush ==
  ASSUME NEW at \in (Listeners \cup Loops \cup {"~BaseWindow"}) \ LifeEvents,
         NEW w \in Window \cup {NoWindow},
         NEW todo \in SUBSET Window, NEW k \in Seq(Frame), SameEvents(k)
  PROVE  SameEvents(Push(at, w, todo, k))
  BY HasPush DEF SameEvents

\* Stage and Asked in terms of the activations.
LEMMA StageIs ==
  /\ Asked <=> Alive /\ Has("before-quit", stack)
  /\ Stage = IF ~Alive THEN "gone" ELSE IF is_shutdown THEN "down"
             ELSE IF Has("will-quit", stack) THEN "last call"
             ELSE IF is_quitting \/ is_exiting THEN "stopping" ELSE "up"
<1>1. \A e : OnStack({e}) <=> Has(e, stack)
  BY DEF OnStack, Has
<1> QED BY <1>1 DEF Stage, Asked

LEMMA StageWas ==
  /\ Asked' <=> Alive' /\ Has("before-quit", stack')
  /\ Stage' = IF ~Alive' THEN "gone" ELSE IF is_shutdown' THEN "down"
              ELSE IF Has("will-quit", stack') THEN "last call"
              ELSE IF is_quitting' \/ is_exiting' THEN "stopping" ELSE "up"
<1>1. \A e : OnStack({e})' <=> Has(e, stack')
  BY DEF OnStack, Has
<1> QED BY <1>1 DEF Stage, Asked

\* A window is seen open exactly if it is.
LEMMA SeenOpen ==
  ASSUME IInv, loop # "aborted"
  PROVE  \A w \in Window : /\ Seen[w] = "open" <=> native[w] = "open"
                           /\ Seen[w] = "none" <=> native[w] = "none"
  BY DEF IInv, WindowInv, Seen, TypeOK

\* What a call of a window means to the life: the process ends, or one window at most
\* is closed, and the call returns to k or runs a listener of that window on top of k.
WindowEffect(k) ==
  \/ loop' = "aborted" /\ stack' = <<>> /\ Seen' = Seen
  \/ /\ loop' = loop
     /\ \A e \in LifeEvents : Has(e, stack') <=> Has(e, k)
     /\ \/ Seen' = Seen
        \/ \E w \in Window : Seen[w] = "open" /\ Seen' = [Seen EXCEPT ![w] = "closed"]

OpensNone == \A v \in Window : native'[v] = "open" => native[v] = "open"

\* A notification adds an event of a window.
LEMMA NotifyEffect ==
  ASSUME NEW w \in Window, NEW event \in WindowEvents, NEW k \in Seq(Frame),
         NotifyObserver(event, w, k)
  PROVE  \/ api[w] = "freed" /\ loop' = "aborted" /\ stack' = <<>>
         \/ /\ api[w] # "freed" /\ loop' = loop
            /\ \A e \in LifeEvents : Has(e, stack') <=> Has(e, k)
<1>1. event \in Listeners \cup Loops \cup {"~BaseWindow"} /\ event \notin LifeEvents
  BY DEF Listeners, WindowEvents, LifeEvents
<1>2. \A e : Has(e, Push(event, w, {}, k)) <=> e = event \/ Has(e, k)
  BY <1>1, HasPush
<1> QED BY <1>1, <1>2 DEF NotifyObserver, EmitOn

\* The close of a window is seen once, or the process ends.
LEMMA NotifyClosedEffect ==
  ASSUME IInv, loop # "aborted", NEW w \in Window, native[w] # "none",
         NEW base, base = api[w] \/ (base = "deleting" /\ api[w] = "live"),
         NEW k \in Seq(Frame), NotifyWindowClosed(w, base, k)
  PROVE  WindowEffect(k) /\ OpensNone
<1>1. TypeOK /\ WindowInv
  BY DEF IInv
<1>2. CASE native[w] # "open" /\ stack' = k /\ UNCHANGED <<loop, native, closed_events>>
  BY <1>2 DEF WindowEffect, OpensNone, Seen
<1>3. CASE /\ native[w] = "open"
           /\ native' = [native EXCEPT ![w] = "closed"]
           /\ NotifyObserver("closed", w, k)
           /\ closed_events' = [closed_events EXCEPT ![w] = IF base = "freed" THEN @ ELSE @ + 1]
  <2>1. OpensNone /\ closed_events[w] = 0 /\ closed_events \in [Window -> {0, 1}]
    BY <1>1, <1>3 DEF OpensNone, TypeOK, WindowInv
  <2>2. \/ api[w] = "freed" /\ loop' = "aborted" /\ stack' = <<>>
        \/ /\ api[w] # "freed" /\ loop' = loop
           /\ \A e \in LifeEvents : Has(e, stack') <=> Has(e, k)
    BY <1>3, NotifyEffect DEF WindowEvents
  <2>3. CASE base = "freed"
    <3>1. closed_events' = closed_events
      BY <1>3, <2>1, <2>3
    <3>2. Seen' = Seen
      BY <1>1, <1>3, <3>1 DEF Seen, TypeOK
    <3> QED BY <2>1, <2>2, <2>3, <3>2 DEF WindowEffect
  <2>4. CASE base # "freed"
    <3>1. closed_events' = [closed_events EXCEPT ![w] = 1]
      BY <1>3, <2>1, <2>4
    <3>2. Seen' = [Seen EXCEPT ![w] = "closed"] /\ Seen[w] = "open"
      <4>1. native' = [native EXCEPT ![w] = "closed"] /\ native \in [Window -> {"none", "open", "closed", "freed"}]
        BY <1>1, <1>3 DEF TypeOK
      <4>2. Seen[w] = "open"
        BY <1>3, <2>1 DEF Seen
      <4>3. \A v \in Window : Seen'[v] = IF v = w THEN "closed" ELSE Seen[v]
        BY <2>1, <3>1, <4>1 DEF Seen
      <4>4. Seen' = [v \in Window |-> Seen'[v]]
        BY DEF Seen
      <4>5. [Seen EXCEPT ![w] = "closed"] = [v \in Window |-> IF v = w THEN "closed" ELSE Seen[v]]
        BY DEF Seen
      <4> QED BY <4>2, <4>3, <4>4, <4>5
    <3>3. api[w] # "freed"
      BY <2>4
    <3> QED BY <2>1, <2>2, <3>2, <3>3 DEF WindowEffect
  <2> QED BY <2>3, <2>4
<1> QED BY <1>2, <1>3 DEF NotifyWindowClosed

\* So is a close without asking, which may be put off,
LEMMA CloseImmediatelyEffect ==
  ASSUME IInv, loop # "aborted", NEW w \in Window, native[w] # "none",
         NEW base, base = api[w] \/ (base = "deleting" /\ api[w] = "live"),
         NEW k \in Seq(Frame), CloseImmediately(w, base, k)
  PROVE  WindowEffect(k) /\ OpensNone
<1>1. CASE stack' = k /\ UNCHANGED <<loop, native, closed_events>>
  BY <1>1 DEF WindowEffect, OpensNone, Seen
<1>2. CASE NotifyWindowClosed(w, base, k)
  BY <1>2, NotifyClosedEffect
<1> QED BY <1>1, <1>2 DEF CloseImmediately

\* and a polite close, which may cancel a quit instead.
LEMMA CloseEffect ==
  ASSUME IInv, loop # "aborted", NEW w \in Window, native[w] # "none",
         NEW k \in Seq(Frame), Close(w, k)
  PROVE  /\ WindowEffect(k) /\ OpensNone
         /\ is_quitting' = is_quitting \/ (is_quitting' = FALSE /\ Seen' = Seen)
<1>1. CASE is_quitting' = FALSE /\ stack' = k /\ UNCHANGED <<loop, native, closed_events>>
  BY <1>1 DEF WindowEffect, OpensNone, Seen
<1>2. CASE NotifyObserver("close", w, k) /\ UNCHANGED <<is_quitting, native, closed_events>>
  <2>1. Seen' = Seen /\ OpensNone
    BY <1>2 DEF Seen, OpensNone
  <2> QED BY <1>2, <2>1, NotifyEffect DEF WindowEffect, WindowEvents
<1>3. CASE CloseImmediately(w, api[w], k) /\ UNCHANGED is_quitting
  BY <1>3, CloseImmediatelyEffect
<1> QED BY <1>1, <1>2, <1>3 DEF Close

\* Such a call is a step of the life: a window closes, a quit is vetoed, or nothing
\* that the listeners can tell happens.
LEMMA WindowLife ==
  ASSUME IInv, LifeInv, Alive, NEW k, SameEvents(k), WindowEffect(k), OpensNone,
         is_quitting' = is_quitting \/ (is_quitting' = FALSE /\ Seen' = Seen),
         UNCHANGED <<is_ready, is_exiting, is_shutdown, quit_events, windows, quit_when_idle, tasks>>,
         loop' = "aborted" => Fullscreen
  PROVE  LifeStep
<1>1. loop # "aborted" /\ Stage # "gone" /\ (Looping <=> loop = "running")
  BY StageIs DEF Alive, Looping
<1>2. CASE loop' = "aborted" /\ stack' = <<>> /\ Seen' = Seen
  <2>1. Stage' = "gone" /\ Asked' = FALSE /\ Looping' = FALSE
    BY <1>2, StageWas DEF Alive, Asked, Looping
  <2>2. Life!Ends
    BY <1>2, <2>1 DEF Life!Ends
  <2>3. LifeInv'
    BY <1>2, HasEmpty DEF LifeInv
  <2> QED BY <1>1, <2>2, <2>3 DEF LifeStep, Life!LifeNext
<1>3. CASE /\ loop' = loop
           /\ \A e \in LifeEvents : Has(e, stack') <=> Has(e, k)
           /\ \/ Seen' = Seen
              \/ \E w \in Window : Seen[w] = "open" /\ Seen' = [Seen EXCEPT ![w] = "closed"]
  <2>1. \A e \in {"before-quit", "will-quit", "quit"} : Has(e, stack') <=> Has(e, stack)
    BY <1>3 DEF SameEvents, LifeEvents
  <2>2. LifeInv'
    BY <1>1, <1>3, <2>1 DEF LifeInv, OpensNone
  <2>3. Asked' = Asked /\ Looping' = Looping
    BY <1>3, <2>1, StageIs, StageWas DEF Alive, Looping, Asked
  <2>4. CASE is_quitting' = is_quitting
    <3>1. Stage' = Stage
      BY <1>3, <2>1, <2>4, StageIs, StageWas DEF Alive
    <3>2. CASE Seen' = Seen
      BY <2>2, <2>3, <3>1, <3>2 DEF LifeStep, lifeVars
    <3>3. ASSUME NEW w \in Window, Seen[w] = "open", Seen' = [Seen EXCEPT ![w] = "closed"]
          PROVE  LifeStep
      <4>1. Life!Closes(w)
        BY <2>3, <3>1, <3>3 DEF Life!Closes
      <4> QED BY <1>1, <2>2, <4>1 DEF LifeStep, Life!LifeNext
    <3> QED BY <1>3, <3>2, <3>3
  <2>5. CASE is_quitting' = FALSE /\ Seen' = Seen
    <3>1. \/ Stage' = Stage
          \/ Stage = "stopping" /\ Stage' = IF is_exiting THEN "stopping" ELSE "up"
      BY <1>3, <2>1, <2>5, StageIs, StageWas DEF Alive
    <3>2. CASE Stage' = Stage
      BY <2>2, <2>3, <2>5, <3>2 DEF LifeStep, lifeVars
    <3>3. CASE Stage = "stopping" /\ Stage' = IF is_exiting THEN "stopping" ELSE "up"
      <4>1. Life!Vetoed
        BY <2>3, <2>5, <3>3 DEF Life!Vetoed
      <4> QED BY <1>1, <2>2, <4>1 DEF LifeStep, Life!LifeNext
    <3> QED BY <3>1, <3>2, <3>3
  <2> QED BY <2>4, <2>5
<1> QED BY <1>2, <1>3 DEF WindowEffect

\* A step that the listeners cannot tell: no window opens or closes, and the events
\* of the life that are being told stay, but for "quit" that may have returned.
LEMMA SilentStep ==
  ASSUME LifeInv, Alive, loop' = loop,
         \A e \in {"before-quit", "will-quit"} : Has(e, stack') <=> Has(e, stack),
         Has("quit", stack') => Has("quit", stack),
         Seen' = Seen, OpensNone,
         UNCHANGED <<is_ready, is_quitting, is_exiting, is_shutdown, quit_events, windows>>,
         quit_when_idle' => is_shutdown,
         \A t \in ToSet(tasks') : t.do = "QuitWhenIdle" => is_shutdown
  PROVE  LifeStep
<1>1. LifeInv'
  BY DEF LifeInv, OpensNone
<1>2. Asked' = Asked /\ Looping' = Looping /\ Stage' = Stage
  BY StageIs, StageWas DEF Alive, Looping, Asked
<1> QED BY <1>1, <1>2 DEF LifeStep, lifeVars

\* The same of a step that touches no window and no task.
LEMMA SilentCall ==
  ASSUME IInv, LifeInv, Alive, loop' = loop, SameEvents(stack'),
         UNCHANGED <<flags, quit_when_idle, windows, native, tasks, history>>
  PROVE  LifeStep
<1>1. Seen' = Seen /\ OpensNone
  BY DEF Seen, OpensNone, history
<1>2. \A e \in {"before-quit", "will-quit", "quit"} : Has(e, stack') <=> Has(e, stack)
  BY DEF SameEvents, LifeEvents
<1>3. /\ UNCHANGED <<is_ready, is_quitting, is_exiting, is_shutdown, quit_events, windows>>
      /\ quit_when_idle' => is_shutdown
      /\ \A t \in ToSet(tasks') : t.do = "QuitWhenIdle" => is_shutdown
  BY DEF flags, history, LifeInv
<1> QED BY <1>1, <1>2, <1>3, SilentStep

\* Asking for a quit.
LEMMA QuitLife ==
  ASSUME IInv, LifeInv, Alive, loop' = loop, NEW k \in Seq(Frame), SameEvents(k), Quit(k),
         UNCHANGED <<flags, quit_when_idle, windows, native, tasks, history>>
  PROVE  LifeStep
<1>1. CASE is_quitting
  <2>1. stack' = k
    BY <1>1 DEF Quit
  <2> QED BY <2>1, SilentCall
<1>2. CASE ~is_quitting
  <2>1. \A e : Has(e, stack') <=> e = "before-quit" \/ Has(e, k)
    BY <1>2, HasPush DEF Quit, Emit, Listeners, AppEvents
  <2>2. /\ Has("will-quit", stack') <=> Has("will-quit", stack)
        /\ Has("quit", stack') <=> Has("quit", stack)
        /\ Has("before-quit", stack')
    BY <2>1 DEF SameEvents, LifeEvents
  <2>3. Seen' = Seen /\ UNCHANGED <<is_ready, is_quitting, is_exiting, is_shutdown, quit_events>>
    BY DEF Seen, history, flags
  <2>4. LifeInv'
    BY <2>2, <2>3 DEF LifeInv
  <2>5. /\ Asked' = TRUE /\ Looping' = Looping /\ Stage' = Stage /\ Stage # "gone"
        /\ Stage = "stopping" => is_exiting
    BY <1>2, <2>2, <2>3, StageIs, StageWas DEF Alive, Looping, Asked
  <2>6. Life!Asks
    BY <2>3, <2>5 DEF Life!Asks
  <2> QED BY <2>4, <2>5, <2>6 DEF LifeStep, Life!LifeNext
<1> QED BY <1>1, <1>2

\* What Shutdown and NotifyAndShutdown do to the events that are being told.
LEMMA ShutdownEffect ==
  ASSUME NEW quitting, NEW k \in Seq(Frame), Shutdown(quitting, k)
  PROVE  /\ is_shutdown'
         /\ \A e \in {"before-quit", "will-quit"} : Has(e, stack') <=> Has(e, k)
         /\ quit_events' = IF is_shutdown THEN quit_events ELSE quit_events + 1
<1>1. CASE is_shutdown
  BY <1>1 DEF Shutdown
<1>2. CASE ~is_shutdown
  <2>1. stack' = Push("quit", NoWindow, {}, k) /\ "quit" \in Listeners
    BY <1>2 DEF Shutdown, Emit, Listeners, AppEvents
  <2>2. \A e : Has(e, stack') <=> e = "quit" \/ Has(e, k)
    BY <2>1, HasPush
  <2> QED BY <1>2, <2>2 DEF Shutdown
<1> QED BY <1>1, <1>2

LEMMA NotifyAndShutdownEffect ==
  ASSUME NEW k \in Seq(Frame), NotifyAndShutdown(k)
  PROVE  /\ \A e \in {"before-quit", "quit"} : Has(e, stack') <=> Has(e, k)
         /\ Has("will-quit", stack') <=> ~is_shutdown \/ Has("will-quit", k)
<1>1. CASE is_shutdown
  BY <1>1 DEF NotifyAndShutdown
<1>2. CASE ~is_shutdown
  <2>1. \A e : Has(e, stack') <=> e = "will-quit" \/ Has(e, k)
    BY <1>2, HasPush DEF NotifyAndShutdown, Emit, Listeners, AppEvents
  <2> QED BY <1>2, <2>1
<1> QED BY <1>1, <1>2

\* No window is open when the list is empty.
LEMMA NoneIsOpen ==
  ASSUME IInv, LifeInv, loop # "aborted", windows = {}
  PROVE  Life!NoneOpen
  BY SeenOpen DEF LifeInv, Life!NoneOpen

-----------------------------------------------------------------------------
\* The steps of the system and of its users.
LEMMA LifeSystem ==
  ASSUME IInv, LifeInv, loop' = "aborted" => Fullscreen, System \/ Environment
  PROVE  LifeStep
<1>1. Alive /\ loop # "aborted"
  BY DEF System, Environment, DidFinishLaunching, WillRunMainMessageLoop, RunTask, LoopEnds,
     FinishTransition, RunScript, QuitFromSystem, UserCloses, StartTransition, Unwound, Alive
<1>2. stack = <<>> => <<>> \in Seq(Frame) /\ SameEvents(<<>>)
  BY DEF SameEvents
<1>3. CASE RunScript
  <2>1. SameEvents(stack')
    <3>1. stack = <<>> /\ stack' = Push("script", NoWindow, {}, <<>>)
      BY <1>3 DEF RunScript, Unwound, Idle, Emit
    <3> QED BY <1>2, <3>1, SamePush DEF Listeners, Scripts, LifeEvents
  <2> QED BY <1>1, <1>3, <2>1, SilentCall DEF RunScript, wins, closing
<1>4. CASE DidFinishLaunching
  <2>1. stack = <<>> /\ stack' = Push("ready", NoWindow, {}, <<>>)
    BY <1>4 DEF DidFinishLaunching, Unwound, Idle, Emit
  <2>2. SameEvents(stack')
    BY <1>2, <2>1, SamePush DEF Listeners, AppEvents, LifeEvents
  <2>3. \A e \in {"before-quit", "will-quit", "quit"} : Has(e, stack') <=> Has(e, stack)
    BY <2>2 DEF SameEvents, LifeEvents
  <2>4. ~is_ready /\ is_ready' = TRUE
        /\ UNCHANGED <<loop, is_quitting, is_exiting, is_shutdown, quit_events, quit_when_idle,
                       windows, native, closed_events, tasks>>
    BY <1>4 DEF DidFinishLaunching, wins, closing, history
  <2>5. LifeInv'
    BY <2>3, <2>4 DEF LifeInv
  <2>6. Seen' = Seen /\ Asked' = Asked /\ Stage' = Stage /\ Looping' = Looping /\ Stage # "gone"
    BY <1>1, <2>3, <2>4, StageIs, StageWas DEF Alive, Asked, Seen, Looping
  <2>7. Life!BecomesReady
    BY <2>4, <2>6 DEF Life!BecomesReady
  <2> QED BY <2>5, <2>6, <2>7 DEF LifeStep, Life!LifeNext
<1>5. CASE WillRunMainMessageLoop
  <2>1. loop = "boot" /\ loop' = "running"
        /\ UNCHANGED <<is_ready, is_quitting, is_exiting, is_shutdown, quit_events,
                       quit_when_idle, windows, native, closed_events, stack>>
    BY <1>5 DEF WillRunMainMessageLoop, flags, wins, history
  <2>2. \A t \in ToSet(tasks') : t.do = "QuitWhenIdle" => is_shutdown
    <3>1. CASE ~is_shutdown
      BY <1>5, <3>1 DEF WillRunMainMessageLoop, LifeInv
    <3>2. CASE is_shutdown
      BY <3>2
    <3> QED BY <3>1, <3>2
  <2>3. LifeInv'
    BY <2>1, <2>2 DEF LifeInv
  <2>4. /\ Seen' = Seen /\ Asked' = Asked /\ Stage' = Stage /\ Stage # "gone"
        /\ ~Looping /\ Looping' = TRUE
    BY <1>1, <2>1, StageIs, StageWas DEF Alive, Asked, Seen, Looping
  <2>5. Life!Runs
    BY <2>1, <2>4 DEF Life!Runs
  <2> QED BY <2>3, <2>4, <2>5 DEF LifeStep, Life!LifeNext
<1>6. CASE QuitFromSystem
  BY <1>1, <1>2, <1>6, QuitLife DEF QuitFromSystem, Unwound, Idle, closing, wins
<1>7. CASE LoopEnds
  <2>1. /\ is_shutdown /\ loop' = "ended"
        /\ UNCHANGED <<is_ready, is_exiting, is_shutdown, quit_events, quit_when_idle,
                       windows, native, closed_events, stack, tasks>>
    BY <1>7 DEF LoopEnds, LifeInv, flags, closing, wins, history
  <2>2. LifeInv'
    BY <1>1, <2>1 DEF LifeInv
  <2>3. /\ Seen' = Seen /\ Asked' = FALSE /\ Stage' = "gone" /\ Looping' = FALSE
        /\ Stage = "down"
    BY <1>1, <2>1, StageIs, StageWas DEF Alive, Asked, Seen, Looping
  <2>4. Life!Ends
    BY <2>1, <2>3 DEF Life!Ends
  <2> QED BY <2>2, <2>3, <2>4 DEF LifeStep, Life!LifeNext
<1>8. CASE RunTask
  <2> DEFINE task == Head(tasks)
  <2>1. TypeOK /\ WindowInv /\ TaskInv
    BY <1>1 DEF IInv
  <2>2. task \in Task /\ task \in ToSet(tasks) /\ \A t \in ToSet(Tail(tasks)) : t \in ToSet(tasks)
    BY <1>8, <2>1, PopElements DEF RunTask, TypeOK
  <2>3. /\ UNCHANGED <<is_ready, is_quitting, is_exiting, is_shutdown, quit_events, windows,
                       closed_events, stack>>
        /\ stack = <<>>
    BY <1>8 DEF RunTask, flags, history, Unwound, Idle
  <2> HIDE DEF task
  <2>4. Seen' = Seen /\ OpensNone
    <3>1. CASE UNCHANGED native
      BY <2>3, <3>1 DEF Seen, OpensNone
    <3>2. CASE task.do = "DeleteNativeWindow" /\ native' = [native EXCEPT ![task.w] = "freed"]
      <4>1. task.w \in Window /\ native[task.w] # "none"
        BY <2>1, <2>2, <3>2 DEF TaskInv, Task, WindowInv
      <4> QED BY <2>1, <2>3, <3>2, <4>1 DEF Seen, OpensNone, TypeOK
    <3> QED BY <1>8, <3>1, <3>2 DEF RunTask, task
  <2>5. quit_when_idle' => is_shutdown
    BY <1>8, <2>2 DEF RunTask, LifeInv, task
  <2>6. \A t \in ToSet(tasks') : t.do = "QuitWhenIdle" => is_shutdown
    <3>1. CASE tasks' = Tail(tasks)
      BY <2>2, <3>1 DEF LifeInv
    <3>2. CASE tasks' = Append(Tail(tasks), Post("DeleteNativeWindow", task.w))
      <4>1. Tail(tasks) \in Seq(Task) /\ task.w \in Window \cup {NoWindow}
        BY <1>8, <2>1, <2>2 DEF RunTask, TypeOK, Task
      <4>2. \A t \in ToSet(tasks') : t \in ToSet(Tail(tasks)) \/ t.do = "DeleteNativeWindow"
        <5>1. /\ Post("DeleteNativeWindow", task.w) \in Task
              /\ Post("DeleteNativeWindow", task.w).do = "DeleteNativeWindow"
          BY <4>1 DEF Post, Task
        <5>2. \A u \in ToSet(tasks') : u \in ToSet(Tail(tasks)) \/ u = Post("DeleteNativeWindow", task.w)
          BY <3>2, <4>1, <5>1, AppendTask
        <5> QED BY <3>2, <5>1, <5>2
      <4> QED BY <2>2, <4>2 DEF LifeInv
    <3> QED BY <1>8, <3>1, <3>2 DEF RunTask, task
  <2>7. CASE loop' = loop
    BY <1>1, <2>3, <2>4, <2>5, <2>6, <2>7, SilentStep
  <2>8. CASE loop' = "aborted"
    <3>1. LifeInv'
      BY <2>3, <2>5, <2>6, <2>8 DEF LifeInv
    <3>2. Asked' = FALSE /\ Stage' = "gone" /\ Looping' = FALSE /\ Stage # "gone"
      BY <1>1, <2>8, StageIs, StageWas DEF Alive, Asked, Looping
    <3>3. Life!Ends
      BY <2>3, <2>4, <2>8, <3>2 DEF Life!Ends
    <3> QED BY <3>1, <3>2, <3>3 DEF LifeStep, Life!LifeNext
  <2> QED BY <1>8, <2>7, <2>8 DEF RunTask
<1>9. ASSUME NEW w \in Window, StartTransition(w) PROVE LifeStep
  BY <1>1, <1>9, SilentCall DEF StartTransition, closing, SameEvents
<1>10. ASSUME NEW w \in Window, FinishTransition(w) PROVE LifeStep
  <2>1. stack = <<>> /\ NotifyObserver("fullscreen-changed", w, <<>>)
    BY <1>10 DEF FinishTransition, Unwound, Idle
  <2>2. Seen' = Seen /\ OpensNone
    BY <1>10 DEF FinishTransition, Seen, OpensNone, history
  <2>3. WindowEffect(<<>>)
    BY <1>2, <2>1, <2>2, NotifyEffect DEF WindowEffect, WindowEvents
  <2> QED BY <1>1, <1>2, <1>10, <2>1, <2>2, <2>3, WindowLife DEF FinishTransition, flags, closing, history
<1>11. ASSUME NEW w \in Window, UserCloses(w) PROVE LifeStep
  <2>1. stack = <<>> /\ Close(w, <<>>) /\ native[w] # "none"
    BY <1>11 DEF UserCloses, Unwound, Idle
  <2> QED BY <1>1, <1>2, <1>11, <2>1, CloseEffect, WindowLife DEF UserCloses, closing
<1> QED BY <1>3, <1>4, <1>5, <1>6, <1>7, <1>8, <1>9, <1>10, <1>11 DEF System, Environment

\* The calls of a script.
LEMMA LifeJavaScript ==
  ASSUME IInv, LifeInv, loop' = "aborted" => Fullscreen, JavaScript
  PROVE  LifeStep
<1>1. Alive /\ loop # "aborted" /\ loop \in {"boot", "running"}
  BY DEF JavaScript, JsQuit, JsExit, JsNew, JsClose, JsDestroy, InJavaScript, Alive
<1>2. TypeOK /\ WindowInv /\ stack \in Seq(Frame) /\ SameEvents(stack)
  BY <1>1 DEF IInv, TypeOK, SameEvents
<1>3. CASE JsQuit
  BY <1>1, <1>2, <1>3, QuitLife DEF JsQuit, closing, wins
<1>4. CASE JsExit /\ loop = "boot"
  <2>1. /\ loop' = "exited" /\ UNCHANGED stack
        /\ UNCHANGED <<is_ready, is_exiting, is_shutdown, quit_events, quit_when_idle, windows,
                       native, closed_events, tasks>>
    BY <1>4 DEF JsExit, wins, closing
  <2>2. LifeInv'
    BY <1>1, <2>1 DEF LifeInv
  <2>3. /\ Seen' = Seen /\ Asked' = FALSE /\ Stage' = "gone" /\ Looping' = FALSE
        /\ ~Looping /\ Stage # "gone"
    BY <1>1, <1>4, <2>1, StageIs, StageWas DEF Alive, Asked, Seen, Looping
  <2>4. Life!Ends
    BY <2>1, <2>3 DEF Life!Ends
  <2> QED BY <2>2, <2>3, <2>4 DEF LifeStep, Life!LifeNext
<1>5. CASE JsExit /\ loop # "boot"
  <2>1. /\ UNCHANGED <<is_ready, loop, quit_when_idle, windows, native, closed_events, tasks>>
        /\ is_exiting' = TRUE /\ Looping /\ Looping' /\ Seen' = Seen
    BY <1>1, <1>5 DEF JsExit, wins, closing, Looping, Seen
  <2>2. CASE windows = {} /\ Shutdown(TRUE, stack)
    <3>1. Life!NoneOpen
      BY <1>1, <2>2, NoneIsOpen
    <3>2. /\ is_shutdown' /\ quit_events' = IF is_shutdown THEN quit_events ELSE quit_events + 1
          /\ \A e \in {"before-quit", "will-quit"} : Has(e, stack') <=> Has(e, stack)
      BY <1>2, <2>2, ShutdownEffect
    <3>3. LifeInv'
      BY <1>1, <2>1, <2>2, <3>2 DEF LifeInv
    <3>4. /\ Asked' = Asked /\ Stage # "gone" /\ Stage' = "down"
          /\ is_shutdown <=> Stage = "down"
      BY <1>1, <2>1, <3>2, StageIs, StageWas DEF Alive, Asked
    <3>5. Life!Exits
      BY <2>1, <3>1, <3>2, <3>4 DEF Life!Exits
    <3> QED BY <3>3, <3>4, <3>5 DEF LifeStep, Life!LifeNext
  <2>3. CASE /\ is_quitting' = TRUE
             /\ stack' = Iterate("DestroyAllWindows", windows, stack)
             /\ UNCHANGED <<is_shutdown, quit_events>>
    <3>1. SameEvents(stack')
      BY <1>2, <2>3, SamePush DEF Iterate, Loops, LifeEvents, TypeOK
    <3>2. \A e \in {"before-quit", "will-quit", "quit"} : Has(e, stack') <=> Has(e, stack)
      BY <3>1 DEF SameEvents, LifeEvents
    <3>3. LifeInv'
      BY <1>1, <2>1, <2>3, <3>2 DEF LifeInv
    <3>4. /\ Asked' = Asked /\ Stage # "gone"
          /\ Stage' = IF Stage = "up" THEN "stopping" ELSE Stage
      BY <1>1, <2>1, <2>3, <3>2, StageIs, StageWas DEF Alive, Asked
    <3>5. Life!Exits
      BY <2>1, <2>3, <3>4 DEF Life!Exits
    <3> QED BY <3>3, <3>4, <3>5 DEF LifeStep, Life!LifeNext
  <2> QED BY <1>5, <2>2, <2>3 DEF JsExit
<1>6. ASSUME NEW w \in Window, NEW can_close \in BOOLEAN, JsNew(w, can_close) PROVE LifeStep
  <2>1. /\ is_ready /\ native[w] = "none" /\ native' = [native EXCEPT ![w] = "open"]
        /\ windows' = windows \cup {w}
        /\ LateWindows \/ ~Quitting
    BY <1>6 DEF JsNew
  <2>2. UNCHANGED <<loop, is_ready, is_quitting, is_exiting, is_shutdown, quit_events,
                    quit_when_idle, closed_events, tasks, stack>>
    BY <1>6 DEF JsNew, flags, closing, history
  <2>3. ~Quitting => /\ ~is_quitting /\ ~is_exiting /\ ~is_shutdown
                     /\ ~Has("before-quit", stack) /\ ~Has("will-quit", stack)
    BY DEF Quitting, OnStack, Has
  <2>4. LifeInv'
    <3>1. \A v \in Window : native'[v] = "open" => v \in windows'
      BY <1>1, <1>2, <2>1 DEF LifeInv, TypeOK
    <3>2. ~(~LateWindows /\ Has("will-quit", stack'))
      BY <2>1, <2>2, <2>3
    <3>3. /\ Has("quit", stack') \/ quit_when_idle' => is_shutdown'
          /\ \A t \in ToSet(tasks') : t.do = "QuitWhenIdle" => is_shutdown'
      BY <2>2 DEF LifeInv
    <3> QED BY <3>1, <3>2, <3>3 DEF LifeInv
  <2>5. /\ Asked' = Asked /\ Stage' = Stage /\ Looping' = Looping /\ Stage # "gone"
        /\ LateWindows \/ (Stage = "up" /\ ~Asked)
    BY <1>1, <2>1, <2>2, <2>3, StageIs, StageWas DEF Alive, Asked, Looping
  <2>6. Seen[w] = "none" /\ Seen' = [Seen EXCEPT ![w] = "open"]
    <3>1. closed_events[w] = 0 /\ native \in [Window -> {"none", "open", "closed", "freed"}]
      BY <1>2, <2>1 DEF WindowInv, TypeOK
    <3>2. Seen[w] = "none"
      BY <2>1, <3>1 DEF Seen
    <3>3. \A v \in Window : Seen'[v] = IF v = w THEN "open" ELSE Seen[v]
      BY <2>1, <2>2, <3>1 DEF Seen
    <3>4. Seen' = [v \in Window |-> Seen'[v]]
      BY DEF Seen
    <3>5. [Seen EXCEPT ![w] = "open"] = [v \in Window |-> IF v = w THEN "open" ELSE Seen[v]]
      BY DEF Seen
    <3> QED BY <3>2, <3>3, <3>4, <3>5
  <2>7. Life!Opens(w)
    BY <2>1, <2>2, <2>5, <2>6 DEF Life!Opens
  <2> QED BY <2>4, <2>5, <2>7 DEF LifeStep, Life!LifeNext
<1>7. ASSUME NEW w \in Window, JsClose(w) PROVE LifeStep
  <2>1. Close(w, stack) /\ native[w] # "none"
    BY <1>2, <1>7 DEF JsClose, WindowInv
  <2> QED BY <1>1, <1>2, <1>7, <2>1, CloseEffect, WindowLife DEF JsClose, closing
<1>8. ASSUME NEW w \in Window, JsDestroy(w) PROVE LifeStep
  <2>1. Destructor(w, stack) \in Seq(Frame)
    BY <1>2, PushFacts DEF Destructor
  <2>2. SameEvents(Destructor(w, stack))
    BY <1>2, SamePush DEF Destructor, LifeEvents
  <2>3. native[w] # "none" /\ api[w] = "live" /\ CloseImmediately(w, "deleting", Destructor(w, stack))
    BY <1>2, <1>8 DEF JsDestroy, WindowInv
  <2>4. WindowEffect(Destructor(w, stack)) /\ OpensNone
    BY <1>1, <2>1, <2>3, CloseImmediatelyEffect
  <2> QED BY <1>1, <1>8, <2>2, <2>4, WindowLife DEF JsDestroy, flags, closing
<1> QED BY <1>3, <1>4, <1>5, <1>6, <1>7, <1>8 DEF JavaScript

\* The returns of the listeners that are asked or told something by the Application,
LEMMA LifeReturnFromBeforeQuit ==
  ASSUME IInv, LifeInv, NEW prevented \in BOOLEAN, ReturnFromBeforeQuit(prevented)
  PROVE  LifeStep
<1>1. /\ Alive /\ loop # "aborted" /\ stack # <<>> /\ Top.at = "before-quit"
      /\ UNCHANGED <<loop, is_ready, is_exiting, is_shutdown, quit_events, quit_when_idle, windows,
                     native, closed_events, tasks>>
      /\ is_quitting' = ~prevented
  BY DEF ReturnFromBeforeQuit, Running, Alive, closing, wins, history
<1>2. TypeOK /\ ExitCompletes /\ Rest \in Seq(Frame)
  BY <1>1, RestFacts DEF IInv
<1>3. /\ Has("before-quit", stack)
      /\ \A e \in {"will-quit", "quit"} : Has(e, Rest) <=> Has(e, stack)
  BY <1>1, <1>2, HasRest
<1>4. Seen' = Seen /\ Asked /\ Asked' \in BOOLEAN /\ Looping' = Looping /\ Stage # "gone"
  BY <1>1, <1>3, StageIs DEF Seen, Asked, Looping, Alive
<1>5. CASE \/ prevented /\ stack' = Rest
           \/ stack' = Iterate("CloseAllWindows", windows, Rest) /\ ~prevented
  <2>1. \A e \in {"will-quit", "quit"} : Has(e, stack') <=> Has(e, stack)
    <3>1. CASE stack' = Rest
      BY <1>3, <3>1
    <3>2. CASE stack' = Iterate("CloseAllWindows", windows, Rest)
      <4>1. \A e : Has(e, stack') <=> e = "CloseAllWindows" \/ Has(e, Rest)
        BY <1>2, <3>2, HasPush DEF Iterate, Loops, TypeOK
      <4> QED BY <1>3, <4>1
    <3> QED BY <1>5, <3>1, <3>2
  <2>2. LifeInv'
    BY <1>1, <2>1 DEF LifeInv
  <2>3. \/ Stage' = Stage
        \/ Stage \in {"up", "stopping"} /\ ~is_exiting /\ Stage' \in {"up", "stopping"}
    BY <1>1, <2>1, StageIs, StageWas DEF Alive
  <2>4. Life!Answers
    BY <1>1, <1>4, <2>3 DEF Life!Answers
  <2> QED BY <1>4, <2>2, <2>4 DEF LifeStep, Life!LifeNext
<1>6. CASE ~prevented /\ windows = {} /\ NotifyAndShutdown(Rest)
  <2>1. /\ Has("quit", stack') <=> Has("quit", stack)
        /\ Has("will-quit", stack') <=> ~is_shutdown \/ Has("will-quit", stack)
    BY <1>2, <1>3, <1>6, NotifyAndShutdownEffect
  <2>2. LifeInv'
    BY <1>1, <1>6, <2>1 DEF LifeInv
  <2>3. Life!NoneOpen
    BY <1>1, <1>6, NoneIsOpen
  <2>4. \/ Stage' = Stage
        \/ Stage \in {"up", "stopping"} /\ ~is_exiting /\ Stage' = "last call"
    BY <1>1, <1>2, <1>6, <2>1, StageIs, StageWas DEF Alive, ExitCompletes
  <2>5. Life!Answers
    BY <1>1, <1>4, <2>3, <2>4 DEF Life!Answers
  <2> QED BY <1>4, <2>2, <2>5 DEF LifeStep, Life!LifeNext
<1> QED BY <1>5, <1>6 DEF ReturnFromBeforeQuit

LEMMA LifeReturnFromWillQuit ==
  ASSUME IInv, LifeInv, NEW prevented \in BOOLEAN, ReturnFromWillQuit(prevented)
  PROVE  LifeStep
<1>1. /\ Alive /\ loop # "aborted" /\ stack # <<>> /\ Top.at = "will-quit"
      /\ UNCHANGED <<loop, is_ready, is_exiting, quit_when_idle, windows, native, closed_events,
                     tasks>>
  BY DEF ReturnFromWillQuit, Running, Alive, closing, wins
<1>2. TypeOK /\ Rest \in Seq(Frame)
  BY <1>1, RestFacts DEF IInv
<1>3. /\ Has("will-quit", stack)
      /\ \A e \in {"before-quit", "quit"} : Has(e, Rest) <=> Has(e, stack)
      /\ Has("will-quit", Rest) => windows = {} \/ LateWindows
  BY <1>1, <1>2, HasRest DEF LifeInv
<1>4. /\ Seen' = Seen /\ Looping' = Looping /\ Stage # "gone"
      /\ Stage = IF is_shutdown THEN "down" ELSE "last call"
  BY <1>1, <1>3, StageIs DEF Seen, Looping, Alive
<1>5. CASE prevented /\ is_quitting' = FALSE /\ stack' = Rest /\ UNCHANGED <<is_shutdown, quit_events>>
  <2>1. LifeInv'
    BY <1>1, <1>3, <1>5 DEF LifeInv
  <2>2. /\ Asked' = Asked
        /\ \/ Stage' = Stage
           \/ Stage = "last call" /\ Stage' = IF is_exiting THEN "stopping" ELSE "up"
    BY <1>1, <1>3, <1>4, <1>5, StageIs, StageWas DEF Alive, Asked
  <2>3. CASE Stage' = Stage
    BY <1>1, <1>4, <1>5, <2>1, <2>2, <2>3 DEF LifeStep, lifeVars
  <2>4. CASE Stage = "last call" /\ Stage' = IF is_exiting THEN "stopping" ELSE "up"
    <3>1. Life!Vetoed
      BY <1>1, <1>4, <1>5, <2>2, <2>4 DEF Life!Vetoed
    <3> QED BY <1>4, <2>1, <3>1 DEF LifeStep, Life!LifeNext
  <2> QED BY <2>2, <2>3, <2>4
<1>6. CASE Shutdown(is_quitting, Rest)
  <2>1. /\ is_shutdown' /\ quit_events' = IF is_shutdown THEN quit_events ELSE quit_events + 1
        /\ \A e \in {"before-quit", "will-quit"} : Has(e, stack') <=> Has(e, Rest)
    BY <1>2, <1>6, ShutdownEffect
  <2>2. LifeInv'
    BY <1>1, <1>3, <2>1 DEF LifeInv
  <2>3. Asked' = Asked /\ Stage' = "down"
    BY <1>1, <1>3, <2>1, StageIs, StageWas DEF Alive, Asked
  <2>4. CASE is_shutdown
    BY <1>1, <1>4, <2>1, <2>2, <2>3, <2>4 DEF LifeStep, lifeVars
  <2>5. CASE ~is_shutdown
    <3>1. LateWindows \/ Life!NoneOpen
      BY <1>1, <1>3, NoneIsOpen DEF LifeInv
    <3>2. Life!Quits
      BY <1>1, <1>4, <2>1, <2>3, <2>5, <3>1 DEF Life!Quits
    <3> QED BY <1>4, <2>2, <3>2 DEF LifeStep, Life!LifeNext
  <2> QED BY <2>4, <2>5
<1> QED BY <1>5, <1>6 DEF ReturnFromWillQuit

\* and of "closed", after which the window leaves the list: the last one gone, an
\* exit is over, a quit makes its last call, or "window-all-closed" is told.
LEMMA LifeReturnFromClosed ==
  ASSUME IInv, LifeInv, ReturnFromClosed
  PROVE  LifeStep
<1> DEFINE w == Top.w
<1>1. /\ Alive /\ loop # "aborted" /\ stack # <<>> /\ Top.at = "closed"
      /\ UNCHANGED <<loop, is_ready, is_exiting, quit_when_idle, native, closed_events>>
      /\ tasks' = Append(tasks, Post("DestroyBaseWindow", w)) /\ windows' = windows \ {w}
  BY DEF ReturnFromClosed, Running, Alive, closing
<1>2. TypeOK /\ WindowInv /\ StackInv /\ Rest \in Seq(Frame) /\ Top \in ToSet(stack) /\ Top \in Frame
  BY <1>1, RestFacts DEF IInv
<1>3. w \in Window /\ native[w] = "closed"
  BY <1>1, <1>2 DEF StackInv, Frame, WindowEvents
<1>4. \A e \in {"before-quit", "will-quit", "quit"} : Has(e, Rest) <=> Has(e, stack)
  BY <1>1, <1>2, HasRest
<1> HIDE DEF w
<1>5. /\ \A v \in Window : native'[v] = "open" => v \in windows'
      /\ windows = {} => windows' = {}
  BY <1>1, <1>3 DEF LifeInv
<1>6. \A t \in ToSet(tasks') : t.do = "QuitWhenIdle" => is_shutdown
  <2>1. Post("DestroyBaseWindow", w) \in Task /\ Post("DestroyBaseWindow", w).do = "DestroyBaseWindow"
    BY <1>3 DEF Post, Task
  <2>2. \A u \in ToSet(tasks') : u \in ToSet(tasks) \/ u = Post("DestroyBaseWindow", w)
    BY <1>1, <1>2, <2>1, AppendTask DEF TypeOK
  <2> QED BY <2>1, <2>2 DEF LifeInv
<1>7. Seen' = Seen /\ Looping' = Looping /\ Stage # "gone"
  BY <1>1, StageIs DEF Seen, Looping, Alive
<1>8. windows' = {} => Life!NoneOpen
  BY <1>1, <1>2, <1>5, SeenOpen DEF Life!NoneOpen, IInv
<1>9. ASSUME UNCHANGED <<is_quitting, is_shutdown, quit_events>>,
             \A e \in {"before-quit", "will-quit", "quit"} : Has(e, stack') <=> Has(e, stack)
      PROVE  LifeStep
  <2>1. LifeInv'
    BY <1>1, <1>5, <1>6, <1>9 DEF LifeInv
  <2>2. Stage' = Stage /\ Asked' = Asked
    BY <1>1, <1>9, StageIs, StageWas DEF Alive, Asked
  <2> QED BY <1>1, <1>7, <1>9, <2>1, <2>2 DEF LifeStep, lifeVars
<1>10. CASE windows' # {}
  BY <1>1, <1>4, <1>9, <1>10 DEF ReturnFromClosed
<1>11. CASE windows' = {} /\ is_exiting /\ Shutdown(is_quitting, Rest)
  <2>1. /\ is_shutdown' /\ quit_events' = IF is_shutdown THEN quit_events ELSE quit_events + 1
        /\ \A e \in {"before-quit", "will-quit"} : Has(e, stack') <=> Has(e, stack)
    BY <1>2, <1>4, <1>11, ShutdownEffect
  <2>2. LifeInv'
    BY <1>1, <1>5, <1>6, <1>11, <2>1 DEF LifeInv
  <2>3. Asked' = Asked /\ Stage' = "down" /\ (is_shutdown <=> Stage = "down")
    BY <1>1, <2>1, StageIs, StageWas DEF Alive, Asked
  <2>4. CASE is_shutdown
    BY <1>1, <1>7, <2>1, <2>2, <2>3, <2>4 DEF LifeStep, lifeVars
  <2>5. CASE ~is_shutdown
    <3>1. Life!Quits
      BY <1>1, <1>7, <1>8, <1>11, <2>1, <2>3, <2>5 DEF Life!Quits
    <3> QED BY <1>7, <2>2, <3>1 DEF LifeStep, Life!LifeNext
  <2> QED BY <2>4, <2>5
<1>12. CASE /\ windows' = {} /\ ~is_exiting /\ is_quitting /\ NotifyAndShutdown(Rest)
            /\ UNCHANGED <<is_quitting, is_shutdown, quit_events>>
  <2>1. /\ \A e \in {"before-quit", "quit"} : Has(e, stack') <=> Has(e, stack)
        /\ Has("will-quit", stack') <=> ~is_shutdown \/ Has("will-quit", stack)
    BY <1>2, <1>4, <1>12, NotifyAndShutdownEffect
  <2>2. LifeInv'
    BY <1>1, <1>5, <1>6, <1>12, <2>1 DEF LifeInv
  <2>3. Asked' = Asked /\ \/ Stage' = Stage
                          \/ Stage = "stopping" /\ Stage' = "last call"
    BY <1>1, <1>12, <2>1, StageIs, StageWas DEF Alive, Asked
  <2>4. CASE Stage' = Stage
    BY <1>1, <1>7, <1>12, <2>2, <2>3, <2>4 DEF LifeStep, lifeVars
  <2>5. CASE Stage = "stopping" /\ Stage' = "last call"
    <3>1. Life!AllClosed
      BY <1>1, <1>7, <1>8, <1>12, <2>3, <2>5 DEF Life!AllClosed
    <3> QED BY <1>7, <2>2, <3>1 DEF LifeStep, Life!LifeNext
  <2> QED BY <2>3, <2>4, <2>5
<1>13. CASE /\ stack' = Emit("window-all-closed", Rest)
            /\ UNCHANGED <<is_quitting, is_shutdown, quit_events>>
  <2>1. \A e : Has(e, stack') <=> e = "window-all-closed" \/ Has(e, Rest)
    BY <1>2, <1>13, HasPush DEF Emit, Listeners, AppEvents
  <2> QED BY <1>4, <1>9, <1>13, <2>1
<1> QED BY <1>10, <1>11, <1>12, <1>13 DEF ReturnFromClosed, OnWindowAllClosed

\* The other returns of listeners, walks and destructors.
LEMMA LifeReturn ==
  ASSUME IInv, LifeInv, loop' = "aborted" => Fullscreen, Return
  PROVE  LifeStep
<1>1. Alive /\ loop # "aborted" /\ stack # <<>>
  BY DEF Return, Running, Alive, ReturnFromNotification, ReturnFromQuit, ReturnFromClosed,
     ReturnFromFullscreenChanged, IterateWindows, FinishDestructor, ReturnFromBeforeQuit,
     ReturnFromWillQuit, ReturnFromClose
<1>2. /\ TypeOK /\ WindowInv /\ StackInv /\ Rest \in Seq(Frame) /\ Top \in ToSet(stack)
      /\ Top \in Frame
  BY <1>1, RestFacts DEF IInv
<1>3. Top.at \notin LifeEvents => SameEvents(Rest)
  BY <1>1, <1>2, SameRest
<1>4. CASE ReturnFromNotification
  <2>1. Top.at \notin LifeEvents /\ stack' = Rest
    BY <1>4 DEF ReturnFromNotification, Running, LifeEvents
  <2> QED BY <1>1, <1>3, <1>4, <2>1, SilentCall DEF ReturnFromNotification, closing, wins
<1>5. CASE ReturnFromQuit
  <2>1. /\ \A e \in {"before-quit", "will-quit"} : Has(e, stack') <=> Has(e, stack)
        /\ Has("quit", stack)
    BY <1>1, <1>2, <1>5, HasRest DEF ReturnFromQuit, Running
  <2>2. is_shutdown
    BY <2>1 DEF LifeInv
  <2>3. /\ loop' = loop /\ Seen' = Seen /\ OpensNone
        /\ UNCHANGED <<is_ready, is_quitting, is_exiting, is_shutdown, quit_events, windows>>
    BY <1>5 DEF ReturnFromQuit, Seen, OpensNone, flags, wins, history
  <2> QED BY <1>1, <2>1, <2>2, <2>3, SilentStep
<1>6. CASE ReturnFromClosed
  BY <1>6, LifeReturnFromClosed
<1>7. CASE ReturnFromFullscreenChanged
  <2> DEFINE w == Top.w
  <2>1. Top.at = "fullscreen-changed" /\ w \in Window /\ native[w] # "none" /\ SameEvents(Rest)
    BY <1>2, <1>3, <1>7 DEF ReturnFromFullscreenChanged, Running, StackInv, Frame, WindowEvents,
       LifeEvents
  <2>2. UNCHANGED <<is_ready, is_quitting, is_exiting, is_shutdown, quit_events, windows,
                    quit_when_idle, tasks>>
    BY <1>7 DEF ReturnFromFullscreenChanged, flags, closing
  <2>3. CASE loop' = "aborted" /\ stack' = <<>> /\ UNCHANGED <<native, closed_events>>
    <3>1. WindowEffect(Rest) /\ OpensNone
      BY <2>3 DEF WindowEffect, OpensNone, Seen
    <3> QED BY <1>1, <2>1, <2>2, <3>1, WindowLife
  <2>4. CASE NotifyWindowClosed(w, api[w], Rest)
    <3>1. WindowEffect(Rest) /\ OpensNone
      BY <1>1, <1>2, <2>1, <2>4, NotifyClosedEffect
    <3> QED BY <1>1, <2>1, <2>2, <3>1, WindowLife
  <2>5. CASE stack' = Rest /\ UNCHANGED <<loop, native, closed_events>>
    <3>1. WindowEffect(Rest) /\ OpensNone
      BY <2>5 DEF WindowEffect, OpensNone, Seen
    <3> QED BY <1>1, <2>1, <2>2, <3>1, WindowLife
  <2> QED BY <1>7, <2>3, <2>4, <2>5 DEF ReturnFromFullscreenChanged
<1>8. CASE IterateWindows
  <2>1. Top.at \in Loops /\ Top.todo \in SUBSET Window /\ SameEvents(Rest)
    BY <1>2, <1>3, <1>8 DEF IterateWindows, Running, Frame, Loops, LifeEvents
  <2>2. UNCHANGED <<is_ready, is_exiting, is_shutdown, quit_events, windows, quit_when_idle, tasks>>
    BY <1>8 DEF IterateWindows, closing
  <2>3. ASSUME NEW k, SameEvents(k), stack' = k, UNCHANGED <<loop, is_quitting, native, closed_events>>
        PROVE  LifeStep
    <3>1. WindowEffect(k) /\ OpensNone
      BY <2>3 DEF WindowEffect, OpensNone, Seen
    <3> QED BY <1>1, <2>2, <2>3, <3>1, WindowLife
  <2>4. CASE stack' = Rest /\ UNCHANGED <<loop, is_quitting, native, closed_events>>
    BY <2>1, <2>3, <2>4
  <2>5. ASSUME NEW w \in Top.todo,
               LET k == Iterate(Top.at, Top.todo \ {w}, Rest)
               IN  \/ stack' = k /\ UNCHANGED <<loop, is_quitting, native, closed_events>>
                   \/ native[w] = "open" /\ Close(w, k)
                   \/ native[w] = "open" /\ CloseImmediately(w, api[w], k) /\ UNCHANGED is_quitting
        PROVE  LifeStep
    <3> DEFINE k == Iterate(Top.at, Top.todo \ {w}, Rest)
    <3>1. w \in Window /\ Top.todo \ {w} \in SUBSET Window
      BY <2>1
    <3>2. k \in Seq(Frame)
      BY <1>2, <2>1, <3>1, IterateElements
    <3>3. SameEvents(k)
      BY <1>2, <2>1, <3>1, SamePush DEF Iterate, Loops, LifeEvents
    <3>4. \/ stack' = k /\ UNCHANGED <<loop, is_quitting, native, closed_events>>
          \/ native[w] = "open" /\ Close(w, k)
          \/ native[w] = "open" /\ CloseImmediately(w, api[w], k) /\ UNCHANGED is_quitting
      BY <2>5
    <3> HIDE DEF k
    <3>5. CASE stack' = k /\ UNCHANGED <<loop, is_quitting, native, closed_events>>
      BY <2>3, <3>3, <3>5
    <3>6. CASE native[w] = "open" /\ Close(w, k)
      <4>1. /\ WindowEffect(k) /\ OpensNone
            /\ is_quitting' = is_quitting \/ (is_quitting' = FALSE /\ Seen' = Seen)
        BY <1>1, <3>1, <3>2, <3>6, CloseEffect
      <4> QED BY <1>1, <2>2, <3>3, <4>1, WindowLife
    <3>7. CASE native[w] = "open" /\ CloseImmediately(w, api[w], k) /\ UNCHANGED is_quitting
      <4>1. WindowEffect(k) /\ OpensNone
        BY <1>1, <3>1, <3>2, <3>7, CloseImmediatelyEffect
      <4> QED BY <1>1, <2>2, <3>3, <3>7, <4>1, WindowLife
    <3> QED BY <3>4, <3>5, <3>6, <3>7
  <2> QED BY <1>8, <2>4, <2>5 DEF IterateWindows
<1>9. CASE FinishDestructor
  <2>1. Top.at = "~BaseWindow" /\ stack' = Rest /\ Top.w \in Window
        /\ tasks' = Append(tasks, Post("DeleteNativeWindow", Top.w))
    BY <1>2, <1>9 DEF FinishDestructor, Running, StackInv, Frame
  <2>2. \A e \in {"before-quit", "will-quit", "quit"} : Has(e, stack') <=> Has(e, stack)
    BY <1>3, <2>1 DEF SameEvents, LifeEvents
  <2>3. /\ loop' = loop /\ Seen' = Seen /\ OpensNone
        /\ UNCHANGED <<is_ready, is_quitting, is_exiting, is_shutdown, quit_events, windows,
                       quit_when_idle>>
    BY <1>9 DEF FinishDestructor, Seen, OpensNone, flags, closing, history
  <2>4. \A t \in ToSet(tasks') : t.do = "QuitWhenIdle" => is_shutdown
    <3>1. /\ Post("DeleteNativeWindow", Top.w) \in Task
          /\ Post("DeleteNativeWindow", Top.w).do = "DeleteNativeWindow"
      BY <2>1 DEF Post, Task
    <3>2. \A u \in ToSet(tasks') : u \in ToSet(tasks) \/ u = Post("DeleteNativeWindow", Top.w)
      BY <1>2, <2>1, <3>1, AppendTask DEF TypeOK
    <3> QED BY <3>1, <3>2 DEF LifeInv
  <2>5. quit_when_idle' => is_shutdown
    BY <2>3 DEF LifeInv
  <2> QED BY <1>1, <2>2, <2>3, <2>4, <2>5, SilentStep
<1>10. ASSUME NEW prevented \in BOOLEAN, ReturnFromBeforeQuit(prevented) PROVE LifeStep
  BY <1>10, LifeReturnFromBeforeQuit
<1>11. ASSUME NEW prevented \in BOOLEAN, ReturnFromWillQuit(prevented) PROVE LifeStep
  BY <1>11, LifeReturnFromWillQuit
<1>12. ASSUME NEW prevented \in BOOLEAN, ReturnFromClose(prevented) PROVE LifeStep
  <2> DEFINE w == Top.w
  <2>1. Top.at = "close" /\ w \in Window /\ native[w] # "none" /\ SameEvents(Rest)
    BY <1>2, <1>3, <1>12 DEF ReturnFromClose, Running, StackInv, Frame, WindowEvents, LifeEvents
  <2>2. UNCHANGED <<is_ready, is_exiting, is_shutdown, quit_events, windows, quit_when_idle, tasks>>
    BY <1>12 DEF ReturnFromClose, closing
  <2>3. CASE is_quitting' = FALSE /\ stack' = Rest /\ UNCHANGED <<loop, native, closed_events>>
    <3>1. WindowEffect(Rest) /\ OpensNone /\ Seen' = Seen
      BY <2>3 DEF WindowEffect, OpensNone, Seen
    <3> QED BY <1>1, <2>1, <2>2, <2>3, <3>1, WindowLife
  <2>4. CASE CloseImmediately(w, api[w], Rest) /\ UNCHANGED is_quitting
    <3>1. WindowEffect(Rest) /\ OpensNone
      BY <1>1, <1>2, <2>1, <2>4, CloseImmediatelyEffect
    <3> QED BY <1>1, <2>1, <2>2, <2>4, <3>1, WindowLife
  <2> QED BY <1>12, <2>3, <2>4 DEF ReturnFromClose
<1> QED BY <1>4, <1>5, <1>6, <1>7, <1>8, <1>9, <1>10, <1>11, <1>12 DEF Return

\* Without transitions nothing aborts, so the life ends as ApplicationLife says.
LEMMA LifeSteps ==
  ASSUME IInv, LifeInv, ~Fullscreen => CalmInv', [Next]_vars
  PROVE  LifeStep
<1>1. loop' = "aborted" => Fullscreen
  BY DEF CalmInv
<1>2. CASE Next
  BY <1>1, <1>2, LifeSystem, LifeJavaScript, LifeReturn DEF Next
<1>3. CASE UNCHANGED vars
  <2>1. UNCHANGED <<loop, is_ready, is_quitting, is_exiting, is_shutdown, quit_events,
                    quit_when_idle, windows, native, closed_events, tasks, stack>>
    BY <1>3 DEF vars, flags, closing, wins, history
  <2>2. LifeInv'
    BY <2>1 DEF LifeInv
  <2>3. Seen' = Seen /\ Asked' = Asked /\ Stage' = Stage /\ Looping' = Looping
    BY <2>1, StageIs, StageWas DEF Seen, Alive, Asked, Looping
  <2> QED BY <2>1, <2>2, <2>3 DEF LifeStep, lifeVars
<1> QED BY <1>2, <1>3

LEMMA LifeInit ==
  ASSUME Init
  PROVE  LifeInv /\ Life!LifeInit
<1>1. LifeInv
  BY HasEmpty, NoElements DEF Init, LifeInv
<1>2. ~Has("before-quit", stack) /\ ~Has("will-quit", stack)
  BY HasEmpty DEF Init
<1>3. Stage = "up" /\ Asked = FALSE /\ Looping = FALSE
  BY <1>2, StageIs DEF Init, Alive, Asked, Looping
<1>4. Seen = [w \in Window |-> "none"]
  BY DEF Init, Seen
<1> QED BY <1>1, <1>3, <1>4 DEF Init, Life!LifeInit

\* Whatever its listeners call and however the calls nest, on every platform and with
\* any number of windows, the application lives as ApplicationLife says; only with
\* fullscreen transitions may its process end before "quit".
THEOREM LivesAsPromised == Spec => LifeImplements
<1>1. Init => LifeInv /\ Life!LifeInit /\ (~Fullscreen => CalmInv)
  BY LifeInit, CalmInit
<1>2. /\ IInv /\ (~Fullscreen => CalmInv) /\ [Next]_vars => (~Fullscreen => CalmInv)'
      /\ IInv /\ LifeInv /\ (~Fullscreen => CalmInv)' /\ [Next]_vars =>
           LifeInv' /\ [Life!LifeNext]_lifeVars
  <2>1. Fullscreen' = Fullscreen
    OBVIOUS
  <2> QED BY <2>1, CalmNext, LifeSteps DEF LifeStep
<1> QED BY <1>1, <1>2, Invariance, PTL
     DEF Spec, LifeImplements, Life!LifeSpec, Life!life, lifeVars
=============================================================================
