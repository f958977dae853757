------------------------ MODULE NativeFullscreen_proofs ------------------------
(***************************************************************************)
(* Theorems about NativeFullscreen, for any number of calls: as long as    *)
(* the listeners of a transition make no requests and simple fullscreen is *)
(* not used, AppKit is asked for one transition at a time, and if every    *)
(* request differs from the one before it the last one wins.               *)
(*                                                                         *)
(* The window is under way to Target; the invariant says that the queue    *)
(* continues from there, each request asking for a change, to the last.    *)
(***************************************************************************)
EXTENDS NativeFullscreen, TLAPS

Target == IF state = "NONE" THEN fullscreen ELSE ~fullscreen

\* A transition that is scheduled or under way is recorded, and recorded as
\* the one that it is.
Recorded ==
    /\ state = "NONE" => toggles = 0 /\ ~animating
    /\ state = "ENTERING" => ~fullscreen
    /\ state = "EXITING" => fullscreen
    /\ listening => state = "NONE"

\* Every request in the queue asks for a change to the one before it.
Alternates(q) ==
    \A i \in 1 .. Len(q) : i + 1 <= Len(q) => q[i] # q[i + 1]

\* A queue that goes on from "from" ends with "to".
Leads(from, q, to) ==
    /\ q = <<>> => to = from
    /\ q # <<>> => to = q[Len(q)] /\ q[1] # from

\* The queue waits for the end of a transition and goes on from its target.
Ordered ==
    /\ Leads(Target, pending, last)
    /\ pending # <<>> => state # "NONE" \/ listening

IInv ==
    /\ TypeOK
    /\ ~simple
    /\ Recorded
    /\ Alternates(pending)
    /\ ~Repeats /\ open => Ordered

-------------------------------------------------------------------------------
\* The empty queue.
LEMMA EmptyQueue ==
  ASSUME NEW S
  PROVE  <<>> \in Seq(S) /\ Len(<<>>) = 0
  OBVIOUS

\* A request that differs from the last one is appended to the queue.
LEMMA AppendKeeps ==
  ASSUME NEW S, NEW q \in Seq(S), NEW target \in S, Alternates(q),
         q = <<>> \/ q[Len(q)] # target
  PROVE  /\ Append(q, target) \in Seq(S)
         /\ Alternates(Append(q, target))
         /\ \A from : q # <<>> /\ q[1] # from => Leads(from, Append(q, target), target)
         /\ \A from : q = <<>> /\ target # from => Leads(from, Append(q, target), target)
         /\ Append(q, target) # <<>>
<1> DEFINE r == Append(q, target)
<1>1. r \in Seq(S) /\ Len(r) = Len(q) + 1 /\ r # <<>> /\ Len(q) \in Nat
  <2>1. r \in Seq(S) /\ Len(r) = Len(q) + 1 /\ Len(q) \in Nat
    OBVIOUS
  <2>2. Len(<<>>) = 0
    BY EmptyQueue
  <2>3. r # <<>>
    <3> HIDE DEF r
    <3> QED BY <2>1, <2>2
  <2>4. QED
    BY <2>1, <2>3
<1>2. r[Len(r)] = target /\ \A i \in 1 .. Len(q) : r[i] = q[i]
  OBVIOUS
<1>3. Alternates(r)
  BY <1>1, <1>2 DEF Alternates
<1>4. q # <<>> => 1 \in 1 .. Len(q)
  OBVIOUS
<1>5. q = <<>> => Len(r) = 1
  OBVIOUS
<1>6. QED
  BY <1>1, <1>2, <1>3, <1>4, <1>5 DEF Leads

\* The first request of the queue is taken: the rest goes on from there.
LEMMA TailKeeps ==
  ASSUME NEW S, NEW q \in Seq(S), q # <<>>, Alternates(q)
  PROVE  /\ Head(q) \in S /\ Head(q) = q[1]
         /\ Tail(q) \in Seq(S)
         /\ Alternates(Tail(q))
         /\ Leads(q[1], Tail(q), q[Len(q)])
<1> DEFINE r == Tail(q)
<1>1. r \in Seq(S) /\ Len(r) = Len(q) - 1 /\ Len(q) \in Nat \ {0}
  OBVIOUS
<1>2. \A i \in 1 .. Len(r) : r[i] = q[i + 1]
  OBVIOUS
<1>3. Head(q) \in S /\ Head(q) = q[1]
  OBVIOUS
<1>4. Alternates(r)
  BY <1>1, <1>2 DEF Alternates
<1>5. r = <<>> => Len(q) = 1
  <2>1. r = <<>> => Len(r) = 0
    <3> HIDE DEF r
    <3> QED BY EmptyQueue
  <2>2. QED
    BY <1>1, <2>1
<1>6. r # <<>> => r[1] = q[2] /\ r[Len(r)] = q[Len(q)] /\ q[2] # q[1]
  BY <1>1, <1>2 DEF Alternates
<1>7. QED
  BY <1>1, <1>3, <1>4, <1>5, <1>6 DEF Leads

-------------------------------------------------------------------------------
\* Initially nothing has been asked for.
LEMMA InitInvariant == Init => IInv
<1> SUFFICES ASSUME Init PROVE IInv
  OBVIOUS
<1>1. <<>> \in Seq(BOOLEAN) /\ Len(<<>>) = 0
  BY EmptyQueue
<1>2. TypeOK
  <2>1. pending \in Seq(BOOLEAN)
    BY <1>1 DEF Init
  <2>2. /\ state \in {"NONE", "ENTERING", "EXITING"}
        /\ toggles \in Nat
        /\ calls \in 0 .. MaxCalls
    BY ConstantsAssumption DEF Init
  <2>3. /\ deferred_close \in BOOLEAN /\ simple \in BOOLEAN /\ open \in BOOLEAN
        /\ animating \in BOOLEAN /\ fullscreen \in BOOLEAN
        /\ listening \in BOOLEAN /\ last \in BOOLEAN
    BY DEF Init
  <2>4. QED
    BY <2>1, <2>2, <2>3 DEF TypeOK
<1>3. Recorded /\ ~simple
  BY DEF Init, Recorded
<1>4. Alternates(pending)
  BY <1>1 DEF Init, Alternates
<1>5. pending = <<>> /\ Leads(Target, pending, last)
  BY DEF Init, Leads, Target
<1>6. QED
  BY <1>2, <1>3, <1>4, <1>5 DEF IInv, Ordered

\* What Request does when simple fullscreen is not used: it starts a
\* transition, appends the request to the queue, or leaves it.
LEMMA RequestCases ==
  ASSUME NEW target \in BOOLEAN, NEW queue \in Seq(BOOLEAN), TypeOK, ~simple,
         Request(target, queue)
  PROVE  /\ ~simple' /\ simple' = simple
         /\ state # "NONE" /\ (queue = <<>> \/ queue[Len(queue)] # target)
              => pending' = Append(queue, target)
         /\ state = "NONE" \/ (queue # <<>> /\ queue[Len(queue)] = target)
              => pending' = queue
         /\ state = "NONE" /\ target # fullscreen
              => state' = Toward(target) /\ toggles' = toggles + 1
         /\ ~(state = "NONE" /\ target # fullscreen)
              => state' = state /\ toggles' = toggles
<1>1. ~simple' /\ simple' = simple
  BY DEF Request
<1>2. state # "NONE" /\ (queue = <<>> \/ queue[Len(queue)] # target)
        => pending' = Append(queue, target)
  BY DEF Request, Last
<1>3. state = "NONE" \/ (queue # <<>> /\ queue[Len(queue)] = target)
        => pending' = queue
  BY DEF Request, Last
<1>4. /\ state = "NONE" /\ target # fullscreen
           => state' = Toward(target) /\ toggles' = toggles + 1
      /\ ~(state = "NONE" /\ target # fullscreen)
           => state' = state /\ toggles' = toggles
  BY DEF Request
<1>5. QED
  BY <1>1, <1>2, <1>3, <1>4

-------------------------------------------------------------------------------
\* The assumption of the theorems.
Outside == ~InListeners /\ ~Simple

(* Each action preserves the invariant.                                    *)

\* A request by JavaScript.
LEMMA SetFullScreenStep ==
  ASSUME IInv, Outside, NEW target \in BOOLEAN, SetFullScreen(target)
  PROVE  IInv'
<1>1. /\ TypeOK /\ ~simple /\ Recorded /\ Alternates(pending)
      /\ ~Repeats => Ordered
      /\ open /\ ~listening
  BY DEF IInv, SetFullScreen, InJs, Outside
<1>2. pending \in Seq(BOOLEAN) /\ fullscreen \in BOOLEAN /\ Request(target, pending)
  BY <1>1 DEF TypeOK, SetFullScreen
<1>3. /\ deferred_close' = deferred_close /\ open' = open
      /\ animating' = animating /\ fullscreen' = fullscreen
      /\ listening' = listening
      /\ last' = target /\ (~Repeats => target # last)
  BY DEF SetFullScreen, close
<1>4. calls' \in 0 .. MaxCalls
  BY <1>1, ConstantsAssumption DEF TypeOK, SetFullScreen, Spend
<1> DEFINE Differs == pending = <<>> \/ pending[Len(pending)] # target
<1>5. CASE state = "NONE" /\ target # fullscreen
  <2>1. ~simple' /\ simple' = simple /\ pending' = pending /\ state' = Toward(target) /\ toggles' = toggles + 1
    BY <1>1, <1>2, <1>5, RequestCases
  <2>2. Recorded' /\ state' \in {"NONE", "ENTERING", "EXITING"} /\ toggles' \in Nat
    BY <1>1, <1>2, <1>3, <1>5, <2>1 DEF Recorded, Toward, TypeOK
  <2>3. TypeOK'
    BY <1>1, <1>2, <1>3, <1>4, <2>1, <2>2 DEF TypeOK
  <2>4. Alternates(pending)'
    BY <1>1, <2>1 DEF Alternates
  <2>5. Target' = target
    BY <1>2, <1>3, <1>5, <2>1 DEF Target, Toward
  <2>6. ~Repeats => Ordered'
    BY <1>1, <1>3, <1>5, <2>1, <2>5 DEF Ordered, Leads, Toward
  <2>7. QED
    BY <2>1, <2>2, <2>3, <2>4, <2>6 DEF IInv
<1>6. CASE state # "NONE" /\ Differs
  <2>1. ~simple' /\ simple' = simple /\ pending' = Append(pending, target) /\ state' = state /\ toggles' = toggles
    BY <1>1, <1>2, <1>6, RequestCases
  <2>2. /\ Append(pending, target) \in Seq(BOOLEAN)
        /\ Alternates(Append(pending, target))
        /\ pending # <<>> /\ pending[1] # Target => Leads(Target, Append(pending, target), target)
        /\ pending = <<>> /\ target # Target => Leads(Target, Append(pending, target), target)
    BY <1>1, <1>2, <1>6, AppendKeeps
  <2>3. TypeOK'
    BY <1>1, <1>2, <1>3, <1>4, <2>1, <2>2 DEF TypeOK
  <2>4. Target' = Target /\ Recorded' /\ Alternates(pending')
    BY <1>1, <1>3, <2>1, <2>2 DEF Target, Recorded
  <2>5. ~Repeats => Leads(Target, pending', last')
    BY <1>1, <1>3, <2>1, <2>2 DEF Ordered, Leads
  <2>6. ~Repeats => Ordered'
    BY <1>6, <2>1, <2>4, <2>5 DEF Ordered
  <2>7. QED
    BY <2>1, <2>3, <2>4, <2>6 DEF IInv
<1>7. CASE ~(state = "NONE" /\ target # fullscreen) /\ ~(state # "NONE" /\ Differs)
  <2>1. ~simple' /\ simple' = simple /\ pending' = pending /\ state' = state /\ toggles' = toggles
    BY <1>1, <1>2, <1>7, RequestCases
  <2>2. TypeOK'
    BY <1>1, <1>2, <1>3, <1>4, <2>1 DEF TypeOK
  <2>3. Target' = Target /\ Recorded' /\ Alternates(pending')
    BY <1>1, <1>3, <2>1 DEF Target, Recorded
  <2>4. ~Repeats => FALSE
    BY <1>1, <1>2, <1>3, <1>7 DEF Ordered, Leads, Target
  <2>5. QED
    BY <2>1, <2>2, <2>3, <2>4 DEF IInv
<1>8. QED
  BY <1>5, <1>6, <1>7

\* A close, at once or put off.
LEMMA CloseStep ==
  ASSUME IInv, Outside, Close
  PROVE  IInv'
<1>1. /\ TypeOK /\ ~simple /\ Recorded /\ Alternates(pending)
      /\ ~Repeats => Ordered
  BY DEF IInv, Close, InJs
<1>2. /\ state' = state /\ pending' = pending /\ simple' = simple
      /\ toggles' = toggles /\ animating' = animating /\ fullscreen' = fullscreen
      /\ listening' = listening /\ last' = last
  BY DEF Close, requests, appkit
<1>3. calls' \in 0 .. MaxCalls
  BY <1>1, ConstantsAssumption DEF TypeOK, Close, Spend
<1>4. open' \in BOOLEAN /\ deferred_close' \in BOOLEAN
  BY DEF Close, CloseImmediately
<1>5. TypeOK'
  BY <1>1, <1>2, <1>3, <1>4 DEF TypeOK
<1>6. Recorded' /\ Alternates(pending') /\ (~Repeats => Ordered')
  BY <1>1, <1>2 DEF Recorded, Ordered, Target
<1>7. QED
  BY <1>1, <1>2, <1>5, <1>6 DEF IInv

\* A click on the green button.
LEMMA UserTogglesStep ==
  ASSUME IInv, UserToggles
  PROVE  IInv'
<1>1. /\ TypeOK /\ ~simple /\ Recorded /\ Alternates(pending)
      /\ ~Repeats => Ordered
      /\ ~listening
  BY DEF IInv, UserToggles
<1>2. /\ state' = Toward(~fullscreen) /\ pending' = pending /\ simple' = simple
      /\ toggles' = toggles /\ animating' = TRUE /\ fullscreen' = fullscreen
      /\ listening' = listening /\ open' = open /\ deferred_close' = deferred_close
      /\ last' = IF state = "NONE" THEN ~fullscreen ELSE last
  BY DEF UserToggles, close
<1>3. calls' \in 0 .. MaxCalls
  BY <1>1, ConstantsAssumption DEF TypeOK, UserToggles, Spend
<1>4. state' \in {"ENTERING", "EXITING"} /\ last' \in BOOLEAN
  BY <1>1, <1>2 DEF TypeOK, Toward
<1>5. TypeOK'
  BY <1>1, <1>2, <1>3, <1>4 DEF TypeOK
<1>6. Recorded' /\ Alternates(pending')
  BY <1>1, <1>2, <1>4 DEF Recorded, Toward, TypeOK
<1>7. Target' = ~fullscreen
  BY <1>2, <1>4 DEF Target
<1>8. ~Repeats => Ordered'
  <2> SUFFICES ASSUME ~Repeats PROVE Ordered'
    OBVIOUS
  <2>1. CASE state = "NONE"
    <3>1. pending' = <<>> /\ last' = ~fullscreen
      BY <1>1, <1>2, <2>1 DEF Ordered
    <3>2. QED
      BY <3>1, <1>7 DEF Ordered, Leads
  <2>2. CASE state # "NONE"
    <3>1. Target' = Target /\ last' = last /\ state' # "NONE"
      BY <1>2, <1>4, <1>7, <2>2 DEF Target
    <3>2. QED
      BY <1>1, <1>2, <3>1 DEF Ordered, Leads
  <2>3. QED
    BY <2>1, <2>2
<1>9. QED
  BY <1>1, <1>2, <1>5, <1>6, <1>8 DEF IInv

\* The scheduled call to AppKit.
LEMMA ToggleStep ==
  ASSUME IInv, Toggle
  PROVE  IInv'
<1>1. /\ TypeOK /\ ~simple /\ Recorded /\ Alternates(pending)
      /\ ~Repeats => Ordered
      /\ ~listening /\ toggles > 0
  BY DEF IInv, Toggle
<1>2. /\ pending' = pending /\ simple' = simple
      /\ toggles' = toggles - 1 /\ animating' = TRUE /\ fullscreen' = fullscreen
      /\ listening' = listening /\ open' = open /\ deferred_close' = deferred_close
      /\ last' = last /\ calls' = calls
  BY DEF Toggle, close
<1>3. state # "NONE" /\ state' = state
  BY <1>1 DEF Toggle, Recorded, TypeOK, Toward
<1>4. toggles' \in Nat
  BY <1>1, <1>2 DEF TypeOK
<1>5. TypeOK'
  BY <1>1, <1>2, <1>3, <1>4 DEF TypeOK
<1>6. Recorded' /\ Alternates(pending') /\ (~Repeats => Ordered')
  BY <1>1, <1>2, <1>3 DEF Recorded, Ordered, Leads, Target
<1>7. QED
  BY <1>1, <1>2, <1>5, <1>6 DEF IInv

\* The end of a transition.
LEMMA TransitionEndsStep ==
  ASSUME IInv, TransitionEnds
  PROVE  IInv'
<1>1. /\ TypeOK /\ ~simple /\ Recorded /\ Alternates(pending)
      /\ ~Repeats => Ordered
      /\ animating /\ toggles = 0
  BY DEF IInv, TransitionEnds
<1>2. /\ pending' = pending /\ simple' = simple /\ state' = "NONE"
      /\ toggles' = toggles /\ animating' = FALSE /\ fullscreen' = ~fullscreen
      /\ listening' = TRUE /\ open' = open /\ deferred_close' = deferred_close
      /\ last' = last /\ calls' = calls
  BY DEF TransitionEnds, close
<1>3. TypeOK'
  BY <1>1, <1>2 DEF TypeOK
<1>4. Recorded' /\ Alternates(pending')
  BY <1>1, <1>2 DEF Recorded
<1>5. Target' = Target
  BY <1>1, <1>2 DEF Target, Recorded
<1>6. ~Repeats => Ordered'
  BY <1>1, <1>2, <1>5 DEF Ordered, Leads
<1>7. QED
  BY <1>1, <1>2, <1>3, <1>4, <1>6 DEF IInv


\* What follows its listeners: the close that was put off, or the next request.
LEMMA ListenersReturnStep ==
  ASSUME IInv, ListenersReturn
  PROVE  IInv'
<1>1. /\ TypeOK /\ ~simple /\ Recorded /\ Alternates(pending)
      /\ ~Repeats => Ordered
      /\ open /\ state = "NONE" /\ toggles = 0 /\ ~animating /\ ~listening'
      /\ listening' = FALSE
  BY DEF IInv, ListenersReturn, Recorded
<1>2. /\ animating' = animating /\ fullscreen' = fullscreen
      /\ last' = last /\ calls' = calls
  BY DEF ListenersReturn
<1>3. CASE deferred_close
  <2>1. /\ state' = state /\ pending' = pending /\ simple' = simple /\ toggles' = toggles
        /\ open' = FALSE /\ deferred_close' = FALSE
    BY <1>1, <1>3 DEF ListenersReturn, CloseImmediately, requests
  <2>2. TypeOK'
    BY <1>1, <1>2, <2>1 DEF TypeOK
  <2>3. Recorded' /\ Alternates(pending')
    BY <1>1, <1>2, <2>1 DEF Recorded
  <2>4. QED
    BY <1>1, <2>1, <2>2, <2>3 DEF IInv
<1>4. CASE ~deferred_close /\ pending = <<>>
  <2>1. /\ state' = state /\ pending' = pending /\ simple' = simple /\ toggles' = toggles
        /\ open' = open /\ deferred_close' = deferred_close
    BY <1>1, <1>4 DEF ListenersReturn, HandlePendingFullscreenTransitions, close
  <2>2. TypeOK'
    BY <1>1, <1>2, <2>1 DEF TypeOK
  <2>3. Recorded' /\ Alternates(pending') /\ Target' = Target
    BY <1>1, <1>2, <2>1 DEF Recorded, Target
  <2>4. ~Repeats => Ordered'
    BY <1>1, <1>2, <1>4, <2>1, <2>3 DEF Ordered
  <2>5. QED
    BY <1>1, <2>1, <2>2, <2>3, <2>4 DEF IInv
<1>5. CASE ~deferred_close /\ pending # <<>>
  <2>1. Request(Head(pending), Tail(pending)) /\ open' = open /\ deferred_close' = deferred_close
    BY <1>5 DEF ListenersReturn, HandlePendingFullscreenTransitions, close
  <2>2. /\ Head(pending) \in BOOLEAN /\ Head(pending) = pending[1]
        /\ Tail(pending) \in Seq(BOOLEAN) /\ Alternates(Tail(pending))
        /\ Leads(pending[1], Tail(pending), pending[Len(pending)])
    BY <1>1, <1>5, TailKeeps DEF TypeOK
  <2>3. ~simple' /\ simple' = simple /\ pending' = Tail(pending)
    BY <1>1, <2>1, <2>2, RequestCases
  <2>4. CASE Head(pending) # fullscreen
    <3>1. state' = Toward(Head(pending)) /\ toggles' = toggles + 1
      BY <1>1, <2>1, <2>2, <2>4, RequestCases
    <3>0. fullscreen \in BOOLEAN /\ toggles' \in Nat
      BY <1>1, <3>1 DEF TypeOK
    <3>1a. \/ Head(pending) = TRUE /\ fullscreen = FALSE /\ state' = "ENTERING"
           \/ Head(pending) = FALSE /\ fullscreen = TRUE /\ state' = "EXITING"
      <4>1. Head(pending) = TRUE \/ Head(pending) = FALSE
        BY <2>2
      <4>2. QED
        BY <3>0, <3>1, <2>4, <4>1 DEF Toward
    <3>2. Recorded' /\ state' \in {"NONE", "ENTERING", "EXITING"} /\ toggles' \in Nat
      BY <1>1, <1>2, <3>0, <3>1a DEF Recorded
    <3>3. TypeOK'
      BY <1>1, <1>2, <2>1, <2>2, <2>3, <3>2 DEF TypeOK
    <3>4. Target' = Head(pending) /\ state' # "NONE"
      BY <1>1, <1>2, <2>2, <2>4, <3>1 DEF Target, Toward, TypeOK
    <3>5. ~Repeats => Ordered'
      BY <1>1, <1>2, <1>5, <2>2, <2>3, <3>4 DEF Ordered, Leads
    <3>6. QED
      BY <2>2, <2>3, <3>2, <3>3, <3>5 DEF IInv
  <2>5. CASE Head(pending) = fullscreen
    <3>1. state' = state /\ toggles' = toggles
      BY <1>1, <2>1, <2>2, <2>5, RequestCases
    <3>2. TypeOK'
      BY <1>1, <1>2, <2>1, <2>2, <2>3, <3>1 DEF TypeOK
    <3>3. Recorded'
      BY <1>1, <1>2, <3>1 DEF Recorded
    <3>4. ~Repeats => FALSE
      BY <1>1, <1>5, <2>2, <2>5 DEF Ordered, Leads, Target
    <3>5. QED
      BY <2>2, <2>3, <3>2, <3>3, <3>4 DEF IInv
  <2>6. QED
    BY <2>4, <2>5
<1>6. QED
  BY <1>3, <1>4, <1>5

\* Every step preserves it, if only these actions can be taken.
LEMMA NextInvariant ==
  ASSUME IInv, Outside, [Next]_vars
  PROVE  IInv'
<1>1. CASE UNCHANGED vars
  BY <1>1 DEF IInv, TypeOK, Recorded, Ordered, Target, vars, requests, appkit, close
<1>2. ASSUME NEW target \in BOOLEAN, SetSimpleFullScreen(target) PROVE FALSE
  BY <1>2 DEF SetSimpleFullScreen, Outside
<1>3. QED
  BY <1>1, <1>2, SetFullScreenStep, CloseStep, UserTogglesStep, ToggleStep,
     TransitionEndsStep, ListenersReturnStep DEF Next

-------------------------------------------------------------------------------
\* The invariant holds, when the listeners of a transition make no request and
\* simple fullscreen is not used.
THEOREM Invariance == Outside => (Spec => []IInv)
<1> SUFFICES ASSUME Outside PROVE Spec => []IInv
  OBVIOUS
<1>1. QED
  BY InitInvariant, NextInvariant, PTL DEF Spec

\* SetFullScreen never asks AppKit for a transition while another is scheduled
\* or under way: what native_window_mac.mm wants the queue for.
THEOREM OneAtATime == Outside => (Spec => OneTransition)
<1> SUFFICES ASSUME Outside PROVE Spec => OneTransition
  OBVIOUS
<1>1. Spec => []IInv
  BY Invariance
<1>2. ASSUME IInv, [Next]_vars
      PROVE  [toggles' > toggles => toggles = 0 /\ ~animating]_vars
  <2> SUFFICES ASSUME toggles' > toggles
               PROVE  toggles = 0 /\ ~animating
    OBVIOUS
  <2>1. /\ TypeOK /\ ~simple
        /\ state = "NONE" => toggles = 0 /\ ~animating
    BY <1>2 DEF IInv, Recorded
  <2>2. toggles \in Nat /\ toggles' # toggles /\ toggles' # toggles - 1
    BY <2>1 DEF TypeOK
  <2>3. ASSUME NEW target \in BOOLEAN, NEW queue \in Seq(BOOLEAN), Request(target, queue)
        PROVE  state = "NONE"
    BY <2>1, <2>2, <2>3, RequestCases
  <2>4. ASSUME NEW target \in BOOLEAN, SetFullScreen(target)
        PROVE  state = "NONE"
    BY <2>1, <2>3, <2>4 DEF SetFullScreen, TypeOK
  <2>5. CASE ListenersReturn
    BY <1>2, <2>5 DEF ListenersReturn, IInv, Recorded
  <2>6. ~Toggle /\ ~TransitionEnds /\ ~UserToggles /\ ~Close /\ ~UNCHANGED vars
        /\ \A target \in BOOLEAN : ~SetSimpleFullScreen(target)
    BY <2>2 DEF Toggle, TransitionEnds, UserToggles, Close, SetSimpleFullScreen,
                vars, appkit
  <2>7. QED
    BY <1>2, <2>1, <2>4, <2>5, <2>6 DEF Next
<1>3. QED
  BY <1>1, <1>2, PTL DEF Spec, OneTransition

\* If every request differs from the one before it, the window ends up in the
\* mode that was asked for last, however many requests the transitions meet.
THEOREM LastWins == Outside /\ ~Repeats => (Spec => []LastRequestWins)
<1> SUFFICES ASSUME Outside, ~Repeats PROVE Spec => []LastRequestWins
  OBVIOUS
<1>1. Spec => []IInv
  BY Invariance
<1>2. IInv => LastRequestWins
  <2> SUFFICES ASSUME IInv, Settled PROVE fullscreen = last
    BY DEF LastRequestWins
  <2>1. Ordered /\ state = "NONE" /\ ~listening
    BY DEF IInv, Settled
  <2>2. QED
    BY <2>1 DEF Ordered, Leads, Target
<1>3. QED
  BY <1>1, <1>2, PTL

===============================================================================
