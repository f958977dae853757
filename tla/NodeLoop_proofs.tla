--------------------------- MODULE NodeLoop_proofs ---------------------------
(***************************************************************************)
(* Proofs about NodeLoop: the semaphore, the posted task and the embed     *)
(* thread pass on one turn, so the loop never has two users and no wake-up *)
(* is lost, for any depth of nesting and on every platform.                *)
(***************************************************************************)
EXTENDS NodeLoop, TLAPS

One(p) == IF p THEN 1 ELSE 0

\* There is one turn, and it is in one place.
OneTurn == sem + posted + One(embed \in EmbedTurn) + One(InUv) = 1

\* From StartPolling on there is one turn, before it there is none.
TurnInv ==
    /\ phase \in {"loading", "prepared"} =>
         sem = 0 /\ posted = 0 /\ embed \notin EmbedTurn
    /\ phase \in Active \cup {"stopped", "freed"} => OneTurn

\* What the phases of the main function say of the threads.
StageInv ==
    /\ phase \in Stopped \cup {"prepared"} => ui = <<>>
    /\ embed = "none" <=> phase = "loading"
    /\ embed = "done" => phase \in Closing
    /\ starting => TopIn(UvFrames \cup {"task"})

\* The inductive invariant.
IInv ==
    /\ TypeOK
    /\ UvRunNotReentered
    /\ TurnInv
    /\ StageInv
    /\ NoLostWakeup

-------------------------------------------------------------------------------
(* The stack of the UI thread.                                             *)

\* Entering a task or a nested message loop leaves the loop's frame alone.
LEMMA EnterOther ==
  ASSUME ui \in Seq(Frames), NEW frame \in {"task", "modal"}, Enter(frame)
  PROVE  /\ ui' \in Seq(Frames)
         /\ InUv' <=> InUv
         /\ UvRunNotReentered => UvRunNotReentered'
<1>1. frame \in Frames \ UvFrames
  BY DEF Frames, UvFrames
<1>2. Len(ui) \in Nat /\ DOMAIN ui = 1 .. Len(ui) /\ ui' = Append(ui, frame)
  BY DEF Enter
<1>3. ui' \in Seq(Frames) /\ DOMAIN ui' = 1 .. Len(ui) + 1 /\ ui'[Len(ui) + 1] = frame
  BY <1>1, <1>2
<1>4. \A i \in 1 .. Len(ui) : i \in DOMAIN ui' /\ ui'[i] = ui[i]
  BY <1>1, <1>2
<1>5. \A i \in DOMAIN ui' : i \in DOMAIN ui \/ i = Len(ui) + 1
  BY <1>2, <1>3
<1>6. \A i \in DOMAIN ui' : ui'[i] \in UvFrames => i \in DOMAIN ui /\ ui[i] \in UvFrames
  BY <1>1, <1>2, <1>3, <1>4, <1>5
<1>7. InUv' <=> InUv
  BY <1>2, <1>4, <1>6 DEF InUv
<1>8. UvRunNotReentered => UvRunNotReentered'
  BY <1>6 DEF UvRunNotReentered
<1>9. QED
  BY <1>3, <1>7, <1>8

\* Entering uv_run when it is not running.
LEMMA EnterUv ==
  ASSUME ui \in Seq(Frames), ~InUv, Enter("poll")
  PROVE  /\ ui' \in Seq(Frames) /\ InUv' /\ UvRunNotReentered' /\ ui' # <<>>
         /\ ui'[Len(ui')] = "poll"
<1>1. "poll" \in Frames /\ "poll" \in UvFrames
  BY DEF Frames, UvFrames
<1>2. Len(ui) \in Nat /\ DOMAIN ui = 1 .. Len(ui) /\ ui' = Append(ui, "poll")
  BY DEF Enter
<1>3. /\ ui' \in Seq(Frames) /\ DOMAIN ui' = 1 .. Len(ui) + 1 /\ ui'[Len(ui) + 1] = "poll"
      /\ Len(ui') = Len(ui) + 1 /\ ui' # <<>>
  BY <1>1, <1>2
<1>4. \A i \in DOMAIN ui' : ui'[i] \in UvFrames => i = Len(ui) + 1
  <2>1. \A i \in 1 .. Len(ui) : ui'[i] = ui[i]
    BY <1>1, <1>2
  <2>2. \A i \in DOMAIN ui' : i \in 1 .. Len(ui) \/ i = Len(ui) + 1
    BY <1>2, <1>3
  <2>3. QED
    BY <2>1, <2>2, <1>2 DEF InUv
<1>5. UvRunNotReentered'
  BY <1>4 DEF UvRunNotReentered
<1>6. InUv'
  <2>1. Len(ui) + 1 \in DOMAIN ui'
    BY <1>2, <1>3
  <2>2. QED
    BY <2>1, <1>1, <1>3 DEF InUv
<1>7. QED
  BY <1>3, <1>5, <1>6

\* Leaving a frame: what is below it stays as it was.
LEMMA LeaveFacts ==
  ASSUME ui \in Seq(Frames), ui # <<>>, Leave
  PROVE  /\ ui' \in Seq(Frames) /\ Len(ui) \in Nat \ {0} /\ DOMAIN ui' = 1 .. Len(ui) - 1
         /\ \A i \in DOMAIN ui' : i \in DOMAIN ui /\ i # Len(ui) /\ ui'[i] = ui[i]
         /\ \A i \in DOMAIN ui : i = Len(ui) \/ i \in DOMAIN ui'
         /\ UvRunNotReentered => UvRunNotReentered'
<1>1. Len(ui) \in Nat \ {0} /\ DOMAIN ui = 1 .. Len(ui) /\ ui' = SubSeq(ui, 1, Len(ui) - 1)
  BY DEF Leave
<1>2. /\ ui' \in Seq(Frames) /\ DOMAIN ui' = 1 .. Len(ui) - 1
      /\ \A i \in 1 .. Len(ui) - 1 : ui'[i] = ui[i]
  BY <1>1
<1>3. \A i \in DOMAIN ui' : i \in DOMAIN ui /\ i # Len(ui) /\ ui'[i] = ui[i]
  BY <1>1, <1>2
<1>4. \A i \in DOMAIN ui : i = Len(ui) \/ i \in DOMAIN ui'
  BY <1>1, <1>2
<1>5. UvRunNotReentered => UvRunNotReentered'
  BY <1>3 DEF UvRunNotReentered
<1>6. QED
  BY <1>1, <1>2, <1>3, <1>4, <1>5

\* Leaving a frame that is not the loop's, or is.
LEMMA LeaveUv ==
  ASSUME ui \in Seq(Frames), ui # <<>>, Leave
  PROVE  /\ ui[Len(ui)] \notin UvFrames => (InUv' <=> InUv)
         /\ ui[Len(ui)] \in UvFrames /\ UvRunNotReentered => InUv /\ ~InUv'
<1>1. Len(ui) \in DOMAIN ui
  OBVIOUS
<1>2. CASE ui[Len(ui)] \notin UvFrames
  BY <1>2, LeaveFacts DEF InUv
<1>3. CASE ui[Len(ui)] \in UvFrames
  <2>1. InUv
    BY <1>1, <1>3 DEF InUv
  <2>2. UvRunNotReentered => ~InUv'
    BY <1>1, <1>3, LeaveFacts DEF InUv, UvRunNotReentered
  <2>3. QED
    BY <1>3, <2>1, <2>2
<1>4. QED
  BY <1>2, <1>3

\* Going from the callbacks of a poll to the timers.
LEMMA SwitchFacts ==
  ASSUME ui \in Seq(Frames), TopIn({"poll"}), ui' = [ui EXCEPT ![Len(ui)] = "timers"]
  PROVE  /\ ui' \in Seq(Frames) /\ ui' # <<>> /\ InUv /\ InUv'
         /\ UvRunNotReentered => UvRunNotReentered'
<1>1. Len(ui) \in DOMAIN ui /\ ui[Len(ui)] = "poll" /\ ui # <<>>
  BY DEF TopIn
<1>2. "timers" \in Frames /\ "timers" \in UvFrames /\ "poll" \in UvFrames
  BY DEF Frames, UvFrames
<1>3. ui' \in Seq(Frames) /\ DOMAIN ui' = DOMAIN ui /\ ui'[Len(ui)] = "timers" /\ ui' # <<>>
  BY <1>1, <1>2
<1>4. \A i \in DOMAIN ui : ui'[i] \in UvFrames <=> ui[i] \in UvFrames
  BY <1>1, <1>2
<1>5. InUv /\ InUv'
  BY <1>1, <1>2, <1>3 DEF InUv
<1>6. UvRunNotReentered => UvRunNotReentered'
  BY <1>3, <1>4 DEF UvRunNotReentered
<1>7. QED
  BY <1>3, <1>5, <1>6

\* The loop is not running when the stack is empty.
LEMMA EmptyStack ==
  ASSUME ui = <<>>
  PROVE  ~InUv
  BY DEF InUv

-------------------------------------------------------------------------------
(* The steps that leave the stack of the UI thread alone.                  *)

\* A timer is armed.
LEMMA JsStartsStep ==
  ASSUME IInv, JsStarts
  PROVE  IInv'
<1>1. ui' = ui /\ (InUv' <=> InUv)
  BY DEF JsStarts, InJs, TopIn, loop, embedThread, InUv
<1>2. TypeOK'
  BY DEF IInv, TypeOK, JsStarts, InJs, TopIn, loop, embedThread, Phases, Active, Stopped, Closing, EmbedTurn, Timeouts
<1>3. UvRunNotReentered'
  BY <1>1 DEF IInv, UvRunNotReentered
<1>4. TurnInv'
  BY <1>1, EmptyStack DEF IInv, TypeOK, TurnInv, StageInv, OneTurn, One, JsStarts, InJs, TopIn, loop, embedThread, Phases, Active, Stopped, Closing, EmbedTurn, Timeouts
<1>5. StageInv'
  BY <1>1 DEF IInv, TypeOK, StageInv, TopIn, JsStarts, InJs, TopIn, loop, embedThread, Phases, Active, Stopped, Closing, EmbedTurn, Timeouts
<1>6. NoLostWakeup'
  BY DEF IInv, TypeOK, NoLostWakeup, TurnInv, StageInv, JsStarts, InJs, TopIn, loop, embedThread, Phases, Active, Stopped, Closing, EmbedTurn, Timeouts
<1>7. QED
  BY <1>2, <1>3, <1>4, <1>5, <1>6 DEF IInv

\* The poll is interrupted.
LEMMA InterruptStep ==
  ASSUME IInv, Interrupt
  PROVE  IInv'
<1>1. ui' = ui /\ (InUv' <=> InUv)
  BY DEF Interrupt, embedThread, InUv
<1>2. TypeOK'
  BY DEF IInv, TypeOK, Interrupt, embedThread, Phases, Active, Stopped, Closing, EmbedTurn, Timeouts
<1>3. UvRunNotReentered'
  BY <1>1 DEF IInv, UvRunNotReentered
<1>4. TurnInv'
  BY <1>1, EmptyStack DEF IInv, TypeOK, TurnInv, StageInv, OneTurn, One, Interrupt, embedThread, Phases, Active, Stopped, Closing, EmbedTurn, Timeouts
<1>5. StageInv'
  BY <1>1 DEF IInv, TypeOK, StageInv, TopIn, Interrupt, embedThread, Phases, Active, Stopped, Closing, EmbedTurn, Timeouts
<1>6. NoLostWakeup'
  BY DEF IInv, TypeOK, NoLostWakeup, TurnInv, StageInv, Interrupt, embedThread, Phases, Active, Stopped, Closing, EmbedTurn, Timeouts
<1>7. QED
  BY <1>2, <1>3, <1>4, <1>5, <1>6 DEF IInv

\* The timer is stopped.
LEMMA JsStopsTimerStep ==
  ASSUME IInv, JsStopsTimer
  PROVE  IInv'
<1>1. ui' = ui /\ (InUv' <=> InUv)
  BY DEF JsStopsTimer, embedThread, InUv
<1>2. TypeOK'
  BY DEF IInv, TypeOK, JsStopsTimer, embedThread, Phases, Active, Stopped, Closing, EmbedTurn, Timeouts
<1>3. UvRunNotReentered'
  BY <1>1 DEF IInv, UvRunNotReentered
<1>4. TurnInv'
  BY <1>1, EmptyStack DEF IInv, TypeOK, TurnInv, StageInv, OneTurn, One, JsStopsTimer, embedThread, Phases, Active, Stopped, Closing, EmbedTurn, Timeouts
<1>5. StageInv'
  BY <1>1 DEF IInv, TypeOK, StageInv, TopIn, JsStopsTimer, embedThread, Phases, Active, Stopped, Closing, EmbedTurn, Timeouts
<1>6. NoLostWakeup'
  BY DEF IInv, TypeOK, NoLostWakeup, TurnInv, StageInv, JsStopsTimer, embedThread, Phases, Active, Stopped, Closing, EmbedTurn, Timeouts
<1>7. QED
  BY <1>2, <1>3, <1>4, <1>5, <1>6 DEF IInv

\* The embed thread is created.
LEMMA PrepareEmbedThreadStep ==
  ASSUME IInv, PrepareEmbedThread
  PROVE  IInv'
<1>1. ui' = ui /\ (InUv' <=> InUv)
  BY DEF PrepareEmbedThread, loop, InUv
<1>2. TypeOK'
  BY DEF IInv, TypeOK, PrepareEmbedThread, loop, Phases, Active, Stopped, Closing, EmbedTurn, Timeouts
<1>3. UvRunNotReentered'
  BY <1>1 DEF IInv, UvRunNotReentered
<1>4. TurnInv'
  BY <1>1, EmptyStack DEF IInv, TypeOK, TurnInv, StageInv, OneTurn, One, PrepareEmbedThread, loop, Phases, Active, Stopped, Closing, EmbedTurn, Timeouts
<1>5. StageInv'
  BY <1>1 DEF IInv, TypeOK, StageInv, TopIn, PrepareEmbedThread, loop, Phases, Active, Stopped, Closing, EmbedTurn, Timeouts
<1>6. NoLostWakeup'
  BY DEF IInv, TypeOK, NoLostWakeup, TurnInv, StageInv, PrepareEmbedThread, loop, Phases, Active, Stopped, Closing, EmbedTurn, Timeouts
<1>7. QED
  BY <1>2, <1>3, <1>4, <1>5, <1>6 DEF IInv

\* The run loop starts.
LEMMA RunLoopRunsStep ==
  ASSUME IInv, RunLoopRuns
  PROVE  IInv'
<1>1. ui' = ui /\ (InUv' <=> InUv)
  BY DEF RunLoopRuns, loop, embedThread, InUv
<1>2. TypeOK'
  BY DEF IInv, TypeOK, RunLoopRuns, loop, embedThread, Phases, Active, Stopped, Closing, EmbedTurn, Timeouts
<1>3. UvRunNotReentered'
  BY <1>1 DEF IInv, UvRunNotReentered
<1>4. TurnInv'
  BY <1>1, EmptyStack DEF IInv, TypeOK, TurnInv, StageInv, OneTurn, One, RunLoopRuns, loop, embedThread, Phases, Active, Stopped, Closing, EmbedTurn, Timeouts
<1>5. StageInv'
  BY <1>1 DEF IInv, TypeOK, StageInv, TopIn, RunLoopRuns, loop, embedThread, Phases, Active, Stopped, Closing, EmbedTurn, Timeouts
<1>6. NoLostWakeup'
  BY DEF IInv, TypeOK, NoLostWakeup, TurnInv, StageInv, RunLoopRuns, loop, embedThread, Phases, Active, Stopped, Closing, EmbedTurn, Timeouts
<1>7. QED
  BY <1>2, <1>3, <1>4, <1>5, <1>6 DEF IInv

\* The run loop returns.
LEMMA RunLoopReturnsStep ==
  ASSUME IInv, RunLoopReturns
  PROVE  IInv'
<1>1. ui' = ui /\ (InUv' <=> InUv)
  BY DEF RunLoopReturns, loop, embedThread, InUv
<1>2. TypeOK'
  BY DEF IInv, TypeOK, RunLoopReturns, loop, embedThread, Phases, Active, Stopped, Closing, EmbedTurn, Timeouts
<1>3. UvRunNotReentered'
  BY <1>1 DEF IInv, UvRunNotReentered
<1>4. TurnInv'
  BY <1>1, EmptyStack DEF IInv, TypeOK, TurnInv, StageInv, OneTurn, One, RunLoopReturns, loop, embedThread, Phases, Active, Stopped, Closing, EmbedTurn, Timeouts
<1>5. StageInv'
  BY <1>1 DEF IInv, TypeOK, StageInv, TopIn, RunLoopReturns, loop, embedThread, Phases, Active, Stopped, Closing, EmbedTurn, Timeouts
<1>6. NoLostWakeup'
  BY DEF IInv, TypeOK, NoLostWakeup, TurnInv, StageInv, RunLoopReturns, loop, embedThread, Phases, Active, Stopped, Closing, EmbedTurn, Timeouts
<1>7. QED
  BY <1>2, <1>3, <1>4, <1>5, <1>6 DEF IInv

\* The environment is freed.
LEMMA PostMainMessageLoopRunStep ==
  ASSUME IInv, PostMainMessageLoopRun
  PROVE  IInv'
<1>1. ui' = ui /\ (InUv' <=> InUv)
  BY DEF PostMainMessageLoopRun, embedThread, InUv
<1>2. TypeOK'
  BY DEF IInv, TypeOK, PostMainMessageLoopRun, embedThread, Phases, Active, Stopped, Closing, EmbedTurn, Timeouts
<1>3. UvRunNotReentered'
  BY <1>1 DEF IInv, UvRunNotReentered
<1>4. TurnInv'
  BY <1>1, EmptyStack DEF IInv, TypeOK, TurnInv, StageInv, OneTurn, One, PostMainMessageLoopRun, embedThread, Phases, Active, Stopped, Closing, EmbedTurn, Timeouts
<1>5. StageInv'
  BY <1>1 DEF IInv, TypeOK, StageInv, TopIn, PostMainMessageLoopRun, embedThread, Phases, Active, Stopped, Closing, EmbedTurn, Timeouts
<1>6. NoLostWakeup'
  BY DEF IInv, TypeOK, NoLostWakeup, TurnInv, StageInv, PostMainMessageLoopRun, embedThread, Phases, Active, Stopped, Closing, EmbedTurn, Timeouts
<1>7. QED
  BY <1>2, <1>3, <1>4, <1>5, <1>6 DEF IInv

\* The destructor sets embed_closed_.
LEMMA CloseEmbedStep ==
  ASSUME IInv, CloseEmbed
  PROVE  IInv'
<1>1. ui' = ui /\ (InUv' <=> InUv)
  BY DEF CloseEmbed, loop, embedThread, InUv
<1>2. TypeOK'
  BY DEF IInv, TypeOK, CloseEmbed, loop, embedThread, Phases, Active, Stopped, Closing, EmbedTurn, Timeouts
<1>3. UvRunNotReentered'
  BY <1>1 DEF IInv, UvRunNotReentered
<1>4. TurnInv'
  BY <1>1, EmptyStack DEF IInv, TypeOK, TurnInv, StageInv, OneTurn, One, CloseEmbed, loop, embedThread, Phases, Active, Stopped, Closing, EmbedTurn, Timeouts
<1>5. StageInv'
  BY <1>1 DEF IInv, TypeOK, StageInv, TopIn, CloseEmbed, loop, embedThread, Phases, Active, Stopped, Closing, EmbedTurn, Timeouts
<1>6. NoLostWakeup'
  BY DEF IInv, TypeOK, NoLostWakeup, TurnInv, StageInv, CloseEmbed, loop, embedThread, Phases, Active, Stopped, Closing, EmbedTurn, Timeouts
<1>7. QED
  BY <1>2, <1>3, <1>4, <1>5, <1>6 DEF IInv

\* The destructor posts the semaphore.
LEMMA SignalEmbedStep ==
  ASSUME IInv, SignalEmbed
  PROVE  IInv'
<1>1. ui' = ui /\ (InUv' <=> InUv)
  BY DEF SignalEmbed, loop, embedThread, InUv
<1>2. TypeOK'
  BY DEF IInv, TypeOK, SignalEmbed, loop, embedThread, Phases, Active, Stopped, Closing, EmbedTurn, Timeouts
<1>3. UvRunNotReentered'
  BY <1>1 DEF IInv, UvRunNotReentered
<1>4. TurnInv'
  BY <1>1, EmptyStack DEF IInv, TypeOK, TurnInv, StageInv, OneTurn, One, SignalEmbed, loop, embedThread, Phases, Active, Stopped, Closing, EmbedTurn, Timeouts
<1>5. StageInv'
  BY <1>1 DEF IInv, TypeOK, StageInv, TopIn, SignalEmbed, loop, embedThread, Phases, Active, Stopped, Closing, EmbedTurn, Timeouts
<1>6. NoLostWakeup'
  BY DEF IInv, TypeOK, NoLostWakeup, TurnInv, StageInv, SignalEmbed, loop, embedThread, Phases, Active, Stopped, Closing, EmbedTurn, Timeouts
<1>7. QED
  BY <1>2, <1>3, <1>4, <1>5, <1>6 DEF IInv

\* The destructor wakes the poll up.
LEMMA WakeupEmbedThreadStep ==
  ASSUME IInv, WakeupEmbedThread
  PROVE  IInv'
<1>1. ui' = ui /\ (InUv' <=> InUv)
  BY DEF WakeupEmbedThread, embedThread, InUv
<1>2. TypeOK'
  BY DEF IInv, TypeOK, WakeupEmbedThread, embedThread, Phases, Active, Stopped, Closing, EmbedTurn, Timeouts
<1>3. UvRunNotReentered'
  BY <1>1 DEF IInv, UvRunNotReentered
<1>4. TurnInv'
  BY <1>1, EmptyStack DEF IInv, TypeOK, TurnInv, StageInv, OneTurn, One, WakeupEmbedThread, embedThread, Phases, Active, Stopped, Closing, EmbedTurn, Timeouts
<1>5. StageInv'
  BY <1>1 DEF IInv, TypeOK, StageInv, TopIn, WakeupEmbedThread, embedThread, Phases, Active, Stopped, Closing, EmbedTurn, Timeouts
<1>6. NoLostWakeup'
  BY DEF IInv, TypeOK, NoLostWakeup, TurnInv, StageInv, WakeupEmbedThread, embedThread, Phases, Active, Stopped, Closing, EmbedTurn, Timeouts
<1>7. QED
  BY <1>2, <1>3, <1>4, <1>5, <1>6 DEF IInv

\* The destructor has joined the thread.
LEMMA JoinEmbedThreadStep ==
  ASSUME IInv, JoinEmbedThread
  PROVE  IInv'
<1>1. ui' = ui /\ (InUv' <=> InUv)
  BY DEF JoinEmbedThread, loop, embedThread, InUv
<1>2. TypeOK'
  BY DEF IInv, TypeOK, JoinEmbedThread, loop, embedThread, Phases, Active, Stopped, Closing, EmbedTurn, Timeouts
<1>3. UvRunNotReentered'
  BY <1>1 DEF IInv, UvRunNotReentered
<1>4. TurnInv'
  BY <1>1, EmptyStack DEF IInv, TypeOK, TurnInv, StageInv, OneTurn, One, JoinEmbedThread, loop, embedThread, Phases, Active, Stopped, Closing, EmbedTurn, Timeouts
<1>5. StageInv'
  BY <1>1 DEF IInv, TypeOK, StageInv, TopIn, JoinEmbedThread, loop, embedThread, Phases, Active, Stopped, Closing, EmbedTurn, Timeouts
<1>6. NoLostWakeup'
  BY DEF IInv, TypeOK, NoLostWakeup, TurnInv, StageInv, JoinEmbedThread, loop, embedThread, Phases, Active, Stopped, Closing, EmbedTurn, Timeouts
<1>7. QED
  BY <1>2, <1>3, <1>4, <1>5, <1>6 DEF IInv

\* The embed thread takes the turn.
LEMMA EmbedWaitsStep ==
  ASSUME IInv, EmbedWaits
  PROVE  IInv'
<1>1. ui' = ui /\ (InUv' <=> InUv)
  BY DEF EmbedWaits, loop, InUv
<1>2. TypeOK'
  BY DEF IInv, TypeOK, EmbedWaits, loop, Phases, Active, Stopped, Closing, EmbedTurn, Timeouts
<1>3. UvRunNotReentered'
  BY <1>1 DEF IInv, UvRunNotReentered
<1>4. TurnInv'
  BY <1>1, EmptyStack DEF IInv, TypeOK, TurnInv, StageInv, OneTurn, One, EmbedWaits, loop, Phases, Active, Stopped, Closing, EmbedTurn, Timeouts
<1>5. StageInv'
  BY <1>1 DEF IInv, TypeOK, StageInv, TopIn, EmbedWaits, loop, Phases, Active, Stopped, Closing, EmbedTurn, Timeouts
<1>6. NoLostWakeup'
  BY DEF IInv, TypeOK, NoLostWakeup, TurnInv, StageInv, EmbedWaits, loop, Phases, Active, Stopped, Closing, EmbedTurn, Timeouts
<1>7. QED
  BY <1>2, <1>3, <1>4, <1>5, <1>6 DEF IInv

\* It reads embed_closed_, before or after the poll.
LEMMA EmbedChecksStep ==
  ASSUME IInv, EmbedChecks("check", "read") \/ EmbedChecks("polled", "wake")
  PROVE  IInv'
<1>1. ui' = ui /\ (InUv' <=> InUv)
  BY DEF EmbedChecks, MayReadClosed, loop, InUv
<1>2. TypeOK'
  BY DEF IInv, TypeOK, EmbedChecks, MayReadClosed, loop, Phases, Active, Stopped, Closing, EmbedTurn, Timeouts
<1>3. UvRunNotReentered'
  BY <1>1 DEF IInv, UvRunNotReentered
<1>4. TurnInv'
  BY <1>1, EmptyStack DEF IInv, TypeOK, TurnInv, StageInv, OneTurn, One, EmbedChecks, MayReadClosed, loop, Phases, Active, Stopped, Closing, EmbedTurn, Timeouts
<1>5. StageInv'
  BY <1>1 DEF IInv, TypeOK, StageInv, TopIn, EmbedChecks, MayReadClosed, loop, Phases, Active, Stopped, Closing, EmbedTurn, Timeouts
<1>6. NoLostWakeup'
  BY DEF IInv, TypeOK, NoLostWakeup, TurnInv, StageInv, EmbedChecks, MayReadClosed, loop, Phases, Active, Stopped, Closing, EmbedTurn, Timeouts
<1>7. QED
  BY <1>2, <1>3, <1>4, <1>5, <1>6 DEF IInv

\* It asks how long it may block.
LEMMA ReadBackendTimeoutStep ==
  ASSUME IInv, ReadBackendTimeout
  PROVE  IInv'
<1>1. ui' = ui /\ (InUv' <=> InUv)
  BY DEF ReadBackendTimeout, BackendTimeout, loop, InUv
<1>2. TypeOK'
  BY DEF IInv, TypeOK, ReadBackendTimeout, BackendTimeout, loop, Phases, Active, Stopped, Closing, EmbedTurn, Timeouts
<1>3. UvRunNotReentered'
  BY <1>1 DEF IInv, UvRunNotReentered
<1>4. TurnInv'
  BY <1>1, EmptyStack DEF IInv, TypeOK, TurnInv, StageInv, OneTurn, One, ReadBackendTimeout, BackendTimeout, loop, Phases, Active, Stopped, Closing, EmbedTurn, Timeouts
<1>5. StageInv'
  BY <1>1 DEF IInv, TypeOK, StageInv, TopIn, ReadBackendTimeout, BackendTimeout, loop, Phases, Active, Stopped, Closing, EmbedTurn, Timeouts
<1>6. NoLostWakeup'
  BY DEF IInv, TypeOK, NoLostWakeup, TurnInv, StageInv, ReadBackendTimeout, BackendTimeout, loop, Phases, Active, Stopped, Closing, EmbedTurn, Timeouts
<1>7. QED
  BY <1>2, <1>3, <1>4, <1>5, <1>6 DEF IInv

\* Its poll returns.
LEMMA PollReturnsStep ==
  ASSUME IInv, PollReturns
  PROVE  IInv'
<1>1. ui' = ui /\ (InUv' <=> InUv)
  BY DEF PollReturns, InUv
<1>2. TypeOK'
  BY DEF IInv, TypeOK, PollReturns, Phases, Active, Stopped, Closing, EmbedTurn, Timeouts
<1>3. UvRunNotReentered'
  BY <1>1 DEF IInv, UvRunNotReentered
<1>4. TurnInv'
  BY <1>1, EmptyStack DEF IInv, TypeOK, TurnInv, StageInv, OneTurn, One, PollReturns, Phases, Active, Stopped, Closing, EmbedTurn, Timeouts
<1>5. StageInv'
  BY <1>1 DEF IInv, TypeOK, StageInv, TopIn, PollReturns, Phases, Active, Stopped, Closing, EmbedTurn, Timeouts
<1>6. NoLostWakeup'
  BY DEF IInv, TypeOK, NoLostWakeup, TurnInv, StageInv, PollReturns, Phases, Active, Stopped, Closing, EmbedTurn, Timeouts
<1>7. QED
  BY <1>2, <1>3, <1>4, <1>5, <1>6 DEF IInv

\* It passes the turn on as a task.
LEMMA WakeupMainThreadStep ==
  ASSUME IInv, WakeupMainThread
  PROVE  IInv'
<1>1. ui' = ui /\ (InUv' <=> InUv)
  BY DEF WakeupMainThread, loop, InUv
<1>2. TypeOK'
  BY DEF IInv, TypeOK, WakeupMainThread, loop, Phases, Active, Stopped, Closing, EmbedTurn, Timeouts
<1>3. UvRunNotReentered'
  BY <1>1 DEF IInv, UvRunNotReentered
<1>4. TurnInv'
  BY <1>1, EmptyStack DEF IInv, TypeOK, TurnInv, StageInv, OneTurn, One, WakeupMainThread, loop, Phases, Active, Stopped, Closing, EmbedTurn, Timeouts
<1>5. StageInv'
  BY <1>1 DEF IInv, TypeOK, StageInv, TopIn, WakeupMainThread, loop, Phases, Active, Stopped, Closing, EmbedTurn, Timeouts
<1>6. NoLostWakeup'
  BY DEF IInv, TypeOK, NoLostWakeup, TurnInv, StageInv, WakeupMainThread, loop, Phases, Active, Stopped, Closing, EmbedTurn, Timeouts
<1>7. QED
  BY <1>2, <1>3, <1>4, <1>5, <1>6 DEF IInv

\* The timer is due.
LEMMA TimerExpiresStep ==
  ASSUME IInv, TimerExpires
  PROVE  IInv'
<1>1. ui' = ui /\ (InUv' <=> InUv)
  BY DEF TimerExpires, embedThread, InUv
<1>2. TypeOK'
  BY DEF IInv, TypeOK, TimerExpires, embedThread, Phases, Active, Stopped, Closing, EmbedTurn, Timeouts
<1>3. UvRunNotReentered'
  BY <1>1 DEF IInv, UvRunNotReentered
<1>4. TurnInv'
  BY <1>1, EmptyStack DEF IInv, TypeOK, TurnInv, StageInv, OneTurn, One, TimerExpires, embedThread, Phases, Active, Stopped, Closing, EmbedTurn, Timeouts
<1>5. StageInv'
  BY <1>1 DEF IInv, TypeOK, StageInv, TopIn, TimerExpires, embedThread, Phases, Active, Stopped, Closing, EmbedTurn, Timeouts
<1>6. NoLostWakeup'
  BY DEF IInv, TypeOK, NoLostWakeup, TurnInv, StageInv, TimerExpires, embedThread, Phases, Active, Stopped, Closing, EmbedTurn, Timeouts
<1>7. QED
  BY <1>2, <1>3, <1>4, <1>5, <1>6 DEF IInv

\* An event arrives.
LEMMA EventArrivesStep ==
  ASSUME IInv, EventArrives
  PROVE  IInv'
<1>1. ui' = ui /\ (InUv' <=> InUv)
  BY DEF EventArrives, embedThread, InUv
<1>2. TypeOK'
  BY DEF IInv, TypeOK, EventArrives, embedThread, Phases, Active, Stopped, Closing, EmbedTurn, Timeouts
<1>3. UvRunNotReentered'
  BY <1>1 DEF IInv, UvRunNotReentered
<1>4. TurnInv'
  BY <1>1, EmptyStack DEF IInv, TypeOK, TurnInv, StageInv, OneTurn, One, EventArrives, embedThread, Phases, Active, Stopped, Closing, EmbedTurn, Timeouts
<1>5. StageInv'
  BY <1>1 DEF IInv, TypeOK, StageInv, TopIn, EventArrives, embedThread, Phases, Active, Stopped, Closing, EmbedTurn, Timeouts
<1>6. NoLostWakeup'
  BY DEF IInv, TypeOK, NoLostWakeup, TurnInv, StageInv, EventArrives, embedThread, Phases, Active, Stopped, Closing, EmbedTurn, Timeouts
<1>7. QED
  BY <1>2, <1>3, <1>4, <1>5, <1>6 DEF IInv

-------------------------------------------------------------------------------
(* The steps that enter or leave a frame.                                  *)

\* JavaScript opens a nested message loop.
LEMMA JsOpensModalStep ==
  ASSUME IInv, JsOpensModal
  PROVE  IInv'
<1>1. ui' \in Seq(Frames) /\ UvRunNotReentered'
  BY EnterOther DEF IInv, TypeOK, JsOpensModal
<1>2. ~starting /\ (InUv' <=> InUv)
  BY EnterOther DEF IInv, TypeOK, StageInv, TopIn, UvFrames, JsOpensModal, InJs
<1>3. TypeOK'
  BY <1>1 DEF IInv, TypeOK, JsOpensModal, InJs, loop, embedThread, Enter, Pumping
<1>4. TurnInv'
  BY <1>1, <1>2 DEF IInv, TypeOK, TurnInv, StageInv, OneTurn, One, JsOpensModal, InJs, loop, embedThread, Enter, Pumping, Phases, Active, Stopped, Closing, EmbedTurn
<1>5. StageInv'
  BY <1>1, <1>2 DEF IInv, TypeOK, StageInv, TopIn, UvFrames, JsOpensModal, InJs, loop, embedThread, Enter, Pumping, Phases, Active, Stopped, Closing, EmbedTurn
<1>6. NoLostWakeup'
  BY <1>2 DEF IInv, TypeOK, NoLostWakeup, TurnInv, StageInv, OneTurn, One, JsOpensModal, InJs, loop, embedThread, Enter, Pumping, Phases, Active, Stopped, Closing, EmbedTurn
<1>7. QED
  BY <1>1, <1>3, <1>4, <1>5, <1>6 DEF IInv

\* A message loop runs an ordinary task.
LEMMA RunOtherTaskStep ==
  ASSUME IInv, RunOtherTask
  PROVE  IInv'
<1>1. ui' \in Seq(Frames) /\ UvRunNotReentered'
  BY EnterOther DEF IInv, TypeOK, RunOtherTask
<1>2. ~starting /\ (InUv' <=> InUv)
  BY EnterOther DEF IInv, TypeOK, StageInv, TopIn, UvFrames, RunOtherTask, Pumping
<1>3. TypeOK'
  BY <1>1 DEF IInv, TypeOK, RunOtherTask, Pumping, loop, embedThread, Enter, Pumping
<1>4. TurnInv'
  BY <1>1, <1>2 DEF IInv, TypeOK, TurnInv, StageInv, OneTurn, One, RunOtherTask, Pumping, loop, embedThread, Enter, Pumping, Phases, Active, Stopped, Closing, EmbedTurn
<1>5. StageInv'
  BY <1>1, <1>2 DEF IInv, TypeOK, StageInv, TopIn, UvFrames, RunOtherTask, Pumping, loop, embedThread, Enter, Pumping, Phases, Active, Stopped, Closing, EmbedTurn
<1>6. NoLostWakeup'
  BY <1>2 DEF IInv, TypeOK, NoLostWakeup, TurnInv, StageInv, OneTurn, One, RunOtherTask, Pumping, loop, embedThread, Enter, Pumping, Phases, Active, Stopped, Closing, EmbedTurn
<1>7. QED
  BY <1>1, <1>3, <1>4, <1>5, <1>6 DEF IInv

\* The application is launched before the run loop.
LEMMA LaunchApplicationStep ==
  ASSUME IInv, LaunchApplication
  PROVE  IInv'
<1>1. ui' \in Seq(Frames) /\ UvRunNotReentered'
  BY EnterOther DEF IInv, TypeOK, LaunchApplication
<1>2. ~starting /\ (InUv' <=> InUv)
  BY EnterOther DEF IInv, TypeOK, StageInv, TopIn, UvFrames, LaunchApplication
<1>3. TypeOK'
  BY <1>1 DEF IInv, TypeOK, LaunchApplication, loop, embedThread, Phases, Active
<1>4. TurnInv'
  BY <1>1, <1>2 DEF IInv, TypeOK, TurnInv, StageInv, OneTurn, One, LaunchApplication, loop, embedThread, Phases, Active, Stopped, Closing, EmbedTurn
<1>5. StageInv'
  BY <1>1, <1>2 DEF IInv, TypeOK, StageInv, TopIn, UvFrames, LaunchApplication, loop, embedThread, Phases, Active, Stopped, Closing, EmbedTurn
<1>6. NoLostWakeup'
  BY <1>2 DEF IInv, TypeOK, NoLostWakeup, TurnInv, StageInv, OneTurn, One, LaunchApplication, loop, embedThread, Phases, Active, Stopped, Closing, EmbedTurn
<1>7. QED
  BY <1>1, <1>3, <1>4, <1>5, <1>6 DEF IInv

\* A nested message loop ends.
LEMMA ModalClosesStep ==
  ASSUME IInv, ModalCloses
  PROVE  IInv'
<1>1. ui' \in Seq(Frames) /\ UvRunNotReentered'
  BY LeaveFacts DEF IInv, TypeOK, TopIn, ModalCloses
<1>2. ~starting /\ ui # <<>> /\ (InUv' <=> InUv)
  BY LeaveUv DEF IInv, TypeOK, StageInv, TopIn, UvFrames, ModalCloses
<1>3. TypeOK'
  BY <1>1 DEF IInv, TypeOK, ModalCloses, loop, embedThread, Leave
<1>4. TurnInv'
  BY <1>1, <1>2 DEF IInv, TypeOK, TurnInv, StageInv, OneTurn, One, ModalCloses, loop, embedThread, Leave, Phases, Active, Stopped, Closing, EmbedTurn
<1>5. StageInv'
  BY <1>1, <1>2 DEF IInv, TypeOK, StageInv, TopIn, UvFrames, ModalCloses, loop, embedThread, Leave, Phases, Active, Stopped, Closing, EmbedTurn
<1>6. NoLostWakeup'
  BY <1>2 DEF IInv, TypeOK, NoLostWakeup, TurnInv, StageInv, OneTurn, One, ModalCloses, loop, embedThread, Leave, Phases, Active, Stopped, Closing, EmbedTurn
<1>7. QED
  BY <1>1, <1>3, <1>4, <1>5, <1>6 DEF IInv

\* An ordinary task returns.
LEMMA TaskReturnsStep ==
  ASSUME IInv, TaskReturns
  PROVE  IInv'
<1>1. ui' \in Seq(Frames) /\ UvRunNotReentered'
  BY LeaveFacts DEF IInv, TypeOK, TopIn, TaskReturns
<1>2. ~starting /\ ui # <<>> /\ (InUv' <=> InUv)
  BY LeaveUv DEF IInv, TypeOK, StageInv, TopIn, UvFrames, TaskReturns
<1>3. TypeOK'
  BY <1>1 DEF IInv, TypeOK, TaskReturns, loop, embedThread, Leave
<1>4. TurnInv'
  BY <1>1, <1>2 DEF IInv, TypeOK, TurnInv, StageInv, OneTurn, One, TaskReturns, loop, embedThread, Leave, Phases, Active, Stopped, Closing, EmbedTurn
<1>5. StageInv'
  BY <1>1, <1>2 DEF IInv, TypeOK, StageInv, TopIn, UvFrames, TaskReturns, loop, embedThread, Leave, Phases, Active, Stopped, Closing, EmbedTurn
<1>6. NoLostWakeup'
  BY <1>2 DEF IInv, TypeOK, NoLostWakeup, TurnInv, StageInv, OneTurn, One, TaskReturns, loop, embedThread, Leave, Phases, Active, Stopped, Closing, EmbedTurn
<1>7. QED
  BY <1>1, <1>3, <1>4, <1>5, <1>6 DEF IInv

\* The loop is run before there is an embed thread.
LEMMA JoinAppCodeStep ==
  ASSUME IInv, JoinAppCode
  PROVE  IInv'
<1>1. ui' \in Seq(Frames) /\ UvRunNotReentered'
  BY EnterUv, EmptyStack DEF IInv, TypeOK, TurnInv, StageInv, OneTurn, One, JoinAppCode, BeginUvRun, Phases, Active, Stopped, Closing, EmbedTurn
<1>2. ~starting /\ InUv' /\ ~InUv /\ (phase # "loading" => embed \notin EmbedTurn)
  BY EnterUv, EmptyStack DEF IInv, TypeOK, TurnInv, StageInv, TopIn, UvFrames, OneTurn, One, JoinAppCode, BeginUvRun, Phases, Active, Stopped, Closing, EmbedTurn
<1>3. TypeOK'
  BY <1>1 DEF IInv, TypeOK, JoinAppCode, BeginUvRun, embedThread, Enter
<1>4. TurnInv'
  BY <1>1, <1>2 DEF IInv, TypeOK, TurnInv, StageInv, OneTurn, One, JoinAppCode, BeginUvRun, embedThread, Enter, Phases, Active, Stopped, Closing, EmbedTurn
<1>5. StageInv'
  BY <1>1, <1>2 DEF IInv, TypeOK, StageInv, TopIn, UvFrames, JoinAppCode, BeginUvRun, embedThread, Enter, Phases, Active, Stopped, Closing, EmbedTurn
<1>6. NoLostWakeup'
  BY <1>2 DEF IInv, TypeOK, NoLostWakeup, TurnInv, StageInv, OneTurn, One, JoinAppCode, BeginUvRun, embedThread, Enter, Phases, Active, Stopped, Closing, EmbedTurn
<1>7. QED
  BY <1>1, <1>3, <1>4, <1>5, <1>6 DEF IInv

\* The loop is run for the first time with the embed thread.
LEMMA StartPollingStep ==
  ASSUME IInv, StartPolling
  PROVE  IInv'
<1>1. ui' \in Seq(Frames) /\ UvRunNotReentered'
  BY EnterUv, EmptyStack DEF IInv, TypeOK, TurnInv, StageInv, OneTurn, One, StartPolling, BeginUvRun, Phases, Active, Stopped, Closing, EmbedTurn
<1>2. ~starting /\ InUv' /\ ~InUv /\ (phase # "loading" => embed \notin EmbedTurn)
  BY EnterUv, EmptyStack DEF IInv, TypeOK, TurnInv, StageInv, TopIn, UvFrames, OneTurn, One, StartPolling, BeginUvRun, Phases, Active, Stopped, Closing, EmbedTurn
<1>3. TypeOK'
  BY <1>1 DEF IInv, TypeOK, StartPolling, BeginUvRun, embedThread, Phases, Active
<1>4. TurnInv'
  BY <1>1, <1>2 DEF IInv, TypeOK, TurnInv, StageInv, OneTurn, One, StartPolling, BeginUvRun, embedThread, Enter, Phases, Active, Stopped, Closing, EmbedTurn
<1>5. StageInv'
  BY <1>1, <1>2 DEF IInv, TypeOK, StageInv, TopIn, UvFrames, StartPolling, BeginUvRun, embedThread, Enter, Phases, Active, Stopped, Closing, EmbedTurn
<1>6. NoLostWakeup'
  BY <1>2 DEF IInv, TypeOK, NoLostWakeup, TurnInv, StageInv, OneTurn, One, StartPolling, BeginUvRun, embedThread, Enter, Phases, Active, Stopped, Closing, EmbedTurn
<1>7. QED
  BY <1>1, <1>3, <1>4, <1>5, <1>6 DEF IInv

\* The posted task runs the loop.
LEMMA UvRunOnceStep ==
  ASSUME IInv, UvRunOnce
  PROVE  IInv'
<1>1. ui' \in Seq(Frames) /\ UvRunNotReentered'
  BY EnterUv, EmptyStack DEF IInv, TypeOK, TurnInv, StageInv, OneTurn, One, UvRunOnce, Pumping, BeginUvRun, Phases, Active, Stopped, Closing, EmbedTurn
<1>2. ~starting /\ InUv' /\ ~InUv /\ (phase # "loading" => embed \notin EmbedTurn)
  BY EnterUv, EmptyStack DEF IInv, TypeOK, TurnInv, StageInv, TopIn, UvFrames, OneTurn, One, UvRunOnce, Pumping, BeginUvRun, Phases, Active, Stopped, Closing, EmbedTurn
<1>3. TypeOK'
  <2>1. posted \in Nat /\ posted > 0 /\ posted' = posted - 1
    BY DEF IInv, TypeOK, UvRunOnce
  <2>2. posted' \in Nat
    BY <2>1
  <2>3. QED
    BY <1>1, <2>2 DEF IInv, TypeOK, UvRunOnce, BeginUvRun, embedThread
<1>4. TurnInv'
  BY <1>1, <1>2 DEF IInv, TypeOK, TurnInv, StageInv, OneTurn, One, UvRunOnce, Pumping, BeginUvRun, embedThread, Enter, Phases, Active, Stopped, Closing, EmbedTurn
<1>5. StageInv'
  BY <1>1, <1>2 DEF IInv, TypeOK, StageInv, TopIn, UvFrames, UvRunOnce, Pumping, BeginUvRun, embedThread, Enter, Phases, Active, Stopped, Closing, EmbedTurn
<1>6. NoLostWakeup'
  BY <1>2 DEF IInv, TypeOK, NoLostWakeup, TurnInv, StageInv, OneTurn, One, UvRunOnce, Pumping, BeginUvRun, embedThread, Enter, Phases, Active, Stopped, Closing, EmbedTurn
<1>7. QED
  BY <1>1, <1>3, <1>4, <1>5, <1>6 DEF IInv

\* The callbacks of the poll have returned.
LEMMA UvRunsTimersStep ==
  ASSUME IInv, UvRunsTimers
  PROVE  IInv'
<1>1. ui' \in Seq(Frames) /\ UvRunNotReentered'
  BY SwitchFacts DEF IInv, TypeOK, UvRunsTimers
<1>2. ~starting /\ ui # <<>> /\ InUv /\ InUv'
  BY SwitchFacts DEF IInv, TypeOK, UvRunsTimers, TopIn
<1>3. TypeOK'
  BY <1>1 DEF IInv, TypeOK, UvRunsTimers, embedThread
<1>4. TurnInv'
  BY <1>1, <1>2 DEF IInv, TypeOK, TurnInv, StageInv, OneTurn, One, UvRunsTimers, embedThread, Phases, Active, Stopped, Closing, EmbedTurn
<1>5. StageInv'
  BY <1>1, <1>2 DEF IInv, TypeOK, StageInv, TopIn, UvFrames, UvRunsTimers, embedThread, Phases, Active, Stopped, Closing, EmbedTurn
<1>6. NoLostWakeup'
  BY <1>2 DEF IInv, TypeOK, NoLostWakeup, TurnInv, StageInv, OneTurn, One, UvRunsTimers, embedThread, Phases, Active, Stopped, Closing, EmbedTurn
<1>7. QED
  BY <1>1, <1>3, <1>4, <1>5, <1>6 DEF IInv

\* uv_run returns and the turn is passed on.
LEMMA UvRunReturnsStep ==
  ASSUME IInv, UvRunReturns
  PROVE  IInv'
<1>1. ui' \in Seq(Frames) /\ UvRunNotReentered'
  BY LeaveFacts DEF IInv, TypeOK, TopIn, UvRunReturns
<1>2. ~starting /\ ui # <<>> /\ InUv /\ ~InUv'
  BY LeaveUv DEF IInv, TypeOK, TopIn, UvFrames, UvRunReturns
<1>3. TypeOK'
  BY <1>1 DEF IInv, TypeOK, UvRunReturns, loop, embedThread
<1>4. TurnInv'
  BY <1>1, <1>2 DEF IInv, TypeOK, TurnInv, StageInv, OneTurn, One, UvRunReturns, loop, embedThread, Phases, Active, Stopped, Closing, EmbedTurn
<1>5. StageInv'
  BY <1>1, <1>2 DEF IInv, TypeOK, StageInv, TopIn, UvFrames, UvRunReturns, loop, embedThread, Phases, Active, Stopped, Closing, EmbedTurn
<1>6. NoLostWakeup'
  BY <1>2 DEF IInv, TypeOK, NoLostWakeup, TurnInv, StageInv, OneTurn, One, UvRunReturns, loop, embedThread, Phases, Active, Stopped, Closing, EmbedTurn
<1>7. QED
  BY <1>1, <1>3, <1>4, <1>5, <1>6 DEF IInv

-------------------------------------------------------------------------------
(* The theorems.                                                           *)

\* The invariant holds at the start.
LEMMA InitInv ==
  ASSUME Init
  PROVE  IInv
<1>1. ui \in Seq(Frames) /\ ui # <<>> /\ Len(ui) = 1 /\ DOMAIN ui = {1} /\ ui[1] = "task"
  BY DEF Init, Frames
<1>2. ~InUv
  BY <1>1 DEF InUv, UvFrames
<1>3. QED
  BY <1>1, <1>2 DEF Init, IInv, TypeOK, UvRunNotReentered, TurnInv, StageInv, NoLostWakeup, TopIn,
                    Phases, Active, Stopped, Closing, EmbedTurn, Timeouts, UvFrames

\* A step that changes nothing keeps the invariant.
LEMMA StutterStep ==
  ASSUME IInv, UNCHANGED vars
  PROVE  IInv'
<1>1. UNCHANGED <<phase, ui, starting, sem, embed, wait, posted, timer, ready, interrupted>>
  BY DEF vars
<1>2. (InUv' <=> InUv) /\ (TopIn(UvFrames \cup {"task"})' <=> TopIn(UvFrames \cup {"task"}))
  BY <1>1 DEF InUv, TopIn
<1>3. QED
  BY <1>1, <1>2 DEF IInv, TypeOK, UvRunNotReentered, TurnInv, OneTurn, One, StageInv, NoLostWakeup

\* Every step of the two threads keeps the invariant.
LEMMA NextInv ==
  ASSUME IInv, [Next]_vars
  PROVE  IInv'
<1>1. CASE Main
  BY <1>1, JsStartsStep, InterruptStep, JsStopsTimerStep, JsOpensModalStep, ModalClosesStep,
     RunOtherTaskStep, TaskReturnsStep, UvRunsTimersStep, UvRunReturnsStep, JoinAppCodeStep,
     UvRunOnceStep, PrepareEmbedThreadStep, StartPollingStep, LaunchApplicationStep,
     RunLoopRunsStep, RunLoopReturnsStep, PostMainMessageLoopRunStep, CloseEmbedStep,
     SignalEmbedStep, WakeupEmbedThreadStep, JoinEmbedThreadStep DEF Main
<1>2. CASE EmbedThreadRunner
  BY <1>2, EmbedWaitsStep, EmbedChecksStep, ReadBackendTimeoutStep, PollReturnsStep,
     WakeupMainThreadStep DEF EmbedThreadRunner
<1>3. CASE TimerExpires \/ EventArrives
  BY <1>3, TimerExpiresStep, EventArrivesStep
<1>4. CASE ProcessEnded \/ UNCHANGED vars
  BY <1>4, StutterStep DEF ProcessEnded
<1>5. QED
  BY <1>1, <1>2, <1>3, <1>4 DEF Next

\* IInv is an invariant: the threads pass on one turn, in every reachable state.
THEOREM Invariance == Spec => []IInv
<1>1. Init => IInv
  BY InitInv
<1>2. IInv /\ [Next]_vars => IInv'
  BY NextInv
<1>3. QED
  BY <1>1, <1>2, PTL DEF Spec

\* The variables keep their types; the semaphore is never waited below zero.
THEOREM TypeCorrect == Spec => []TypeOK
<1>1. IInv => TypeOK
  BY DEF IInv
<1>2. QED
  BY <1>1, Invariance, PTL

\* uv_run is never re-entered, however deep the message loops are nested.
THEOREM NotReentered == Spec => []UvRunNotReentered
<1>1. IInv => UvRunNotReentered
  BY DEF IInv
<1>2. QED
  BY <1>1, Invariance, PTL

\* The embed thread never polls the loop while the UI thread runs it.
THEOREM OneUser == Spec => []PollExcludesUvRun
<1>1. IInv => PollExcludesUvRun
  BY EmptyStack DEF IInv, TypeOK, TurnInv, StageInv, OneTurn, One, PollExcludesUvRun,
                    Phases, Active, Stopped, Closing
<1>2. QED
  BY <1>1, Invariance, PTL

\* uv's loop has one user, a uv_run or a poll, whatever is nested in it.
THEOREM LoopHasOneUser == Spec => []OneUserAtATime
BY NotReentered, OneUser, PTL DEF OneUserAtATime

\* No wake-up is lost: a timer armed during a poll interrupts that poll.
THEOREM WakeupsArrive == Spec => []NoLostWakeup
<1>1. IInv => NoLostWakeup
  BY DEF IInv
<1>2. QED
  BY <1>1, Invariance, PTL

-------------------------------------------------------------------------------
(* NodeLoop implements PollTurns: a step passes the turn on or keeps it.   *)

\* The steps of the main thread that leave its stack alone keep the turn.
LEMMA MainKeepsTurn ==
  ASSUME IInv,
         \/ JsStarts \/ Interrupt \/ JsStopsTimer \/ PrepareEmbedThread
         \/ RunLoopRuns \/ RunLoopReturns \/ PostMainMessageLoopRun
         \/ SignalEmbed \/ WakeupEmbedThread \/ JoinEmbedThread
  PROVE  turn' = turn
<1>1. InUv' <=> InUv
  BY DEF InUv, JsStarts, Interrupt, JsStopsTimer, PrepareEmbedThread, RunLoopRuns,
         RunLoopReturns, PostMainMessageLoopRun, SignalEmbed, WakeupEmbedThread, JoinEmbedThread
<1>2. CASE JsStarts \/ Interrupt \/ JsStopsTimer
  BY <1>1, <1>2 DEF turn, JsStarts, Interrupt, JsStopsTimer
<1>3. CASE RunLoopRuns \/ RunLoopReturns \/ PostMainMessageLoopRun
  BY <1>1, <1>3 DEF turn, RunLoopRuns, RunLoopReturns, PostMainMessageLoopRun, Closing
<1>4. CASE PrepareEmbedThread
  BY <1>4 DEF turn, PrepareEmbedThread
<1>5. CASE SignalEmbed \/ WakeupEmbedThread \/ JoinEmbedThread
  BY <1>5 DEF turn, SignalEmbed, WakeupEmbedThread, JoinEmbedThread, Closing
<1>6. QED
  BY <1>2, <1>3, <1>4, <1>5

\* So do the steps that enter or leave a frame that is not the loop's.
LEMMA FramesKeepTurn ==
  ASSUME IInv,
         \/ JsOpensModal \/ RunOtherTask \/ LaunchApplication
         \/ ModalCloses \/ TaskReturns \/ UvRunsTimers
  PROVE  turn' = turn
<1>1. CASE JsOpensModal \/ RunOtherTask \/ LaunchApplication
  <2>1. InUv' <=> InUv
    BY <1>1, EnterOther DEF IInv, TypeOK, JsOpensModal, RunOtherTask, LaunchApplication
  <2>2. QED
    BY <1>1, <2>1 DEF turn, JsOpensModal, RunOtherTask, LaunchApplication, Closing
<1>2. CASE ModalCloses \/ TaskReturns
  <2>1. InUv' <=> InUv
    BY <1>2, LeaveUv DEF IInv, TypeOK, TopIn, UvFrames, ModalCloses, TaskReturns
  <2>2. QED
    BY <1>2, <2>1 DEF turn, ModalCloses, TaskReturns
<1>3. CASE UvRunsTimers
  <2>1. InUv' <=> InUv
    BY <1>3, SwitchFacts DEF IInv, TypeOK, UvRunsTimers
  <2>2. QED
    BY <1>3, <2>1 DEF turn, UvRunsTimers
<1>4. QED
  BY <1>1, <1>2, <1>3

\* And the steps of the embed thread between taking the turn and passing it on.
LEMMA EmbedKeepsTurn ==
  ASSUME IInv,
         \/ EmbedChecks("check", "read") \/ EmbedChecks("polled", "wake")
         \/ ReadBackendTimeout \/ PollReturns \/ TimerExpires \/ EventArrives
  PROVE  turn' = turn
<1>1. UNCHANGED <<phase, ui, sem, posted>>
  BY DEF EmbedChecks, ReadBackendTimeout, PollReturns, TimerExpires, EventArrives
<1>2. QED
  BY <1>1 DEF turn, InUv

\* StartPolling is the first to have the turn.
LEMMA TurnStarts ==
  ASSUME IInv, StartPolling
  PROVE  Turns!Start
<1>1. InUv'
  BY EnterUv, EmptyStack DEF IInv, TypeOK, StageInv, StartPolling, BeginUvRun
<1>2. QED
  BY <1>1 DEF Turns!Start, Turns!Pass, turn, StartPolling, Closing

\* UvRunOnce leaves the turn on the semaphore.
LEMMA TurnFinishes ==
  ASSUME IInv, UvRunReturns
  PROVE  turn' = turn \/ Turns!Finish
<1>1. InUv /\ ~InUv'
  BY LeaveUv DEF IInv, TypeOK, TopIn, UvFrames, UvRunReturns
<1>2. CASE phase = "loading"
  BY <1>2 DEF turn, UvRunReturns
<1>3. CASE phase # "loading"
  <2>1. phase \in Active
    BY <1>1, <1>3, EmptyStack DEF IInv, TypeOK, StageInv, Phases
  <2>2. sem' > 0
    BY <1>3 DEF IInv, TypeOK, UvRunReturns
  <2>3. phase' = phase
    BY DEF UvRunReturns
  <2>4. QED
    BY <1>1, <2>1, <2>2, <2>3 DEF Turns!Finish, Turns!Pass, turn, Closing, Active
<1>4. QED
  BY <1>2, <1>3

\* The embed thread takes it.
LEMMA TurnTaken ==
  ASSUME IInv, EmbedWaits
  PROVE  turn' = turn \/ Turns!Take
<1>1. (InUv' <=> InUv) /\ UNCHANGED <<phase, posted>>
  BY DEF EmbedWaits, InUv
<1>2. CASE phase \in Closing
  BY <1>1, <1>2 DEF turn
<1>3. CASE phase \notin Closing
  <2>1. phase \in Active \cup {"stopped", "freed"}
    BY <1>3 DEF IInv, TypeOK, TurnInv, EmbedWaits, Phases, Stopped
  <2>2. ~InUv /\ sem > 0 /\ sem' = 0 /\ posted = 0
    BY <2>1 DEF IInv, TypeOK, TurnInv, OneTurn, One, EmbedWaits, EmbedTurn
  <2>3. QED
    BY <1>1, <1>3, <2>1, <2>2 DEF Turns!Take, Turns!Pass, turn, Active
<1>4. QED
  BY <1>2, <1>3

\* It posts the task.
LEMMA TurnPosted ==
  ASSUME IInv, WakeupMainThread
  PROVE  turn' = turn \/ Turns!Wake
<1>1. (InUv' <=> InUv) /\ UNCHANGED <<phase, sem>>
  BY DEF WakeupMainThread, InUv
<1>2. CASE phase \in Closing
  BY <1>1, <1>2 DEF turn
<1>3. CASE phase \notin Closing
  <2>1. phase \in Active \cup {"stopped", "freed"}
    BY <1>3 DEF IInv, TypeOK, TurnInv, WakeupMainThread, Phases, Stopped, EmbedTurn
  <2>2. ~InUv /\ sem = 0 /\ posted = 0 /\ posted' = 1
    BY <2>1 DEF IInv, TypeOK, TurnInv, OneTurn, One, WakeupMainThread, EmbedTurn
  <2>3. QED
    BY <1>1, <1>3, <2>1, <2>2 DEF Turns!Wake, Turns!Pass, turn, Active
<1>4. QED
  BY <1>2, <1>3

\* The task runs the loop.
LEMMA TurnRuns ==
  ASSUME IInv, UvRunOnce
  PROVE  Turns!Run
<1>1. phase \in Active
  BY EmptyStack DEF IInv, TypeOK, TurnInv, StageInv, UvRunOnce, Pumping, TopIn, Phases, Active
<1>2. ~InUv /\ sem = 0 /\ posted = 1
  BY <1>1 DEF IInv, TypeOK, TurnInv, OneTurn, One, UvRunOnce
<1>3. InUv' /\ phase' = phase
  BY <1>2, EnterUv DEF IInv, TypeOK, UvRunOnce, BeginUvRun
<1>4. QED
  BY <1>1, <1>2, <1>3 DEF Turns!Run, Turns!Pass, turn, Active, Closing

\* The turns end when the embed thread is told to stop, outside of uv_run.
LEMMA TurnStops ==
  ASSUME IInv, CloseEmbed
  PROVE  Turns!Stop
<1>1. turn \in {"semaphore", "embed", "task"}
  BY EmptyStack DEF IInv, StageInv, CloseEmbed, turn, Closing, Stopped
<1>2. turn' = "stopped"
  BY DEF CloseEmbed, turn, Closing
<1>3. QED
  BY <1>1, <1>2 DEF Turns!Stop, Turns!Pass

\* The semaphore, the task queue and the two threads implement the taking of
\* turns: the loop's users follow each other in one order for ever.
THEOREM Refinement == Spec => TakesTurns
<1>1. Init => Turns!Init
  BY DEF Init, Turns!Init, turn
<1>2. IInv /\ [Next]_vars => [Turns!Next]_turn
  <2> SUFFICES ASSUME IInv, [Next]_vars
               PROVE  turn' = turn \/ Turns!Next
    OBVIOUS
  <2>1. CASE JoinAppCode
    BY <2>1 DEF JoinAppCode, turn
  <2>2. CASE Main
    BY <2>1, <2>2, MainKeepsTurn, FramesKeepTurn, TurnStarts, TurnFinishes, TurnRuns, TurnStops
       DEF Main, Turns!Next
  <2>3. CASE EmbedThreadRunner
    BY <2>3, EmbedKeepsTurn, TurnTaken, TurnPosted DEF EmbedThreadRunner, Turns!Next
  <2>4. CASE TimerExpires \/ EventArrives
    BY <2>4, EmbedKeepsTurn
  <2>5. CASE ProcessEnded \/ UNCHANGED vars
    BY <2>5 DEF ProcessEnded, vars, turn, InUv
  <2>6. QED
    BY <2>2, <2>3, <2>4, <2>5 DEF Next
<1>3. QED
  BY <1>1, <1>2, Invariance, PTL DEF Spec, TakesTurns, Turns!Spec

===============================================================================
