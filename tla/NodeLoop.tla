------------------------------- MODULE NodeLoop -------------------------------
(***************************************************************************)
(* How Node's libuv loop is driven from the message loop of the UI thread: *)
(* shell/common/node_bindings.cc and the PollEvents of each platform.      *)
(*                                                                         *)
(* Two threads.  The embed thread waits on a semaphore, polls the loop's   *)
(* backend until it has something to do, and posts a task; the UI thread   *)
(* runs that task, UvRunOnce, which runs the loop without blocking and     *)
(* posts the semaphore.  Meanwhile the UI thread also runs ordinary tasks  *)
(* whose JavaScript arms timers while the embed thread is polling, and     *)
(* JavaScript, wherever it runs, may open a nested message loop (a modal   *)
(* dialog, a menu) that runs tasks in its turn.                            *)
(*                                                                         *)
(* ui is the stack of what the UI thread is in, innermost last: "task" an  *)
(* ordinary task, "poll" and "timers" the two parts of a uv_run (its       *)
(* callbacks included), "modal" a nested message loop.  Of the loop's own  *)
(* state the model keeps what decides how long a poll may block: its       *)
(* timer, the events the kernel holds for it, and the wake-up that         *)
(* uv__loop_interrupt leaves in the backend.                               *)
(*                                                                         *)
(* A definition named Faulty... is a wrong version of the one after it,    *)
(* kept to show that the properties tell the two apart.                    *)
(***************************************************************************)
EXTENDS Integers, Sequences

CONSTANTS
    Iocp,       \* TRUE on Windows, whose poll takes the packet it returns for
    MaxDepth    \* bound on the nesting of ui

ASSUME IocpAssumption == Iocp \in BOOLEAN
ASSUME MaxDepthAssumption == MaxDepth \in Nat \ {0}

VARIABLES
    phase,        \* where the main function is
    ui,           \* the stack of the UI thread
    starting,     \* it has armed a timer and not yet interrupted the poll
    sem,          \* embed_sem_
    embed,        \* where the embed thread is
    wait,         \* the timeout its poll was given
    posted,       \* UvRunOnce tasks in the queue of the UI thread
    timer,        \* the earliest timer of the loop
    ready,        \* the kernel holds an event for the loop
    interrupted   \* the backend holds a wake-up

vars == <<phase, ui, starting, sem, embed, wait, posted, timer, ready,
          interrupted>>
loop == <<timer, ready, interrupted>>
embedThread == <<embed, wait>>

Closing == {"closed", "signalled", "joining", "gone"}
Stopped == Closing \cup {"stopped", "freed"}
Active == {"polling", "launched", "running"}
Phases == {"loading", "prepared"} \cup Active \cup Stopped
UvFrames == {"poll", "timers"}
Frames == UvFrames \cup {"task", "modal"}
Timeouts == {"zero", "timed", "forever"}
EmbedTurn == {"check", "read", "select", "polled", "wake"}

TypeOK ==
    /\ phase \in Phases
    /\ ui \in Seq(Frames)
    /\ starting \in BOOLEAN
    /\ sem \in Nat
    /\ embed \in {"none", "wait", "done"} \cup EmbedTurn
    /\ wait \in Timeouts
    /\ posted \in Nat
    /\ timer \in {"off", "armed", "due"}
    /\ ready \in BOOLEAN
    /\ interrupted \in BOOLEAN

\* LoadEnvironment is running the main script; the loop is new.
Init ==
    /\ phase = "loading"
    /\ ui = <<"task">>
    /\ starting = FALSE
    /\ sem = 0
    /\ embed = "none"
    /\ wait = "zero"
    /\ posted = 0
    /\ timer = "off"
    /\ ready = FALSE
    /\ interrupted = FALSE

-------------------------------------------------------------------------------
(* The stack of the UI thread.                                             *)

TopIn(kinds) == ui # <<>> /\ ui[Len(ui)] \in kinds
Enter(frame) == Len(ui) < MaxDepth /\ ui' = Append(ui, frame)
Leave == ui' = SubSeq(ui, 1, Len(ui) - 1)

InUv == \E i \in DOMAIN ui : ui[i] \in UvFrames
Nested == \E i \in DOMAIN ui : ui[i] = "modal"

\* JavaScript can take a step: in a task or in a callback of the loop.
InJs == TopIn(UvFrames \cup {"task"}) /\ ~starting

\* A message loop is waiting for the next task: the main one, or a nested one.
Pumping == (ui = <<>> /\ phase = "running") \/ TopIn({"modal"})

(* What JavaScript does on the UI thread.                                  *)

\* A timer or an idle handle is started or restarted; its handle is in the
\* loop before uv__handle_start interrupts the poll.
JsStarts ==
    /\ InJs
    /\ timer' \in {"armed", "due"}
    /\ starting' = TRUE
    /\ UNCHANGED <<phase, ui, sem, embedThread, posted, ready, interrupted>>

\* UV_LOOP_INTERRUPT_ON_IO_CHANGE, which InitEventLoop configures.
FaultyInterrupt ==
    /\ starting
    /\ starting' = FALSE
    /\ UNCHANGED <<phase, ui, sem, embedThread, posted, loop>>

Interrupt ==
    /\ starting
    /\ starting' = FALSE
    /\ interrupted' = TRUE
    /\ UNCHANGED <<phase, ui, sem, embedThread, posted, timer, ready>>

JsStopsTimer ==
    /\ InJs
    /\ timer' = "off"
    /\ UNCHANGED <<phase, ui, starting, sem, embedThread, posted, ready,
                   interrupted>>

JsOpensModal ==
    /\ InJs
    /\ Enter("modal")
    /\ UNCHANGED <<phase, starting, sem, embedThread, posted, loop>>

ModalCloses ==
    /\ TopIn({"modal"})
    /\ Leave
    /\ UNCHANGED <<phase, starting, sem, embedThread, posted, loop>>

RunOtherTask ==
    /\ Pumping
    /\ Enter("task")
    /\ UNCHANGED <<phase, starting, sem, embedThread, posted, loop>>

TaskReturns ==
    /\ TopIn({"task"}) /\ ~starting
    /\ Leave
    /\ UNCHANGED <<phase, starting, sem, embedThread, posted, loop>>

-------------------------------------------------------------------------------
(* uv_run, and the function it is called from.                             *)

\* uv_run looks for events without blocking: it takes what the backend holds,
\* wake-ups included, and calls their callbacks.
BeginUvRun ==
    /\ Enter("poll")
    /\ ready' = FALSE
    /\ interrupted' = FALSE
    /\ UNCHANGED timer

\* The timers that are due are run next.
UvRunsTimers ==
    /\ TopIn({"poll"}) /\ ~starting
    /\ ui' = [ui EXCEPT ![Len(ui)] = "timers"]
    /\ timer' = IF timer = "due" THEN "off" ELSE timer
    /\ UNCHANGED <<phase, starting, sem, embedThread, posted, ready,
                   interrupted>>

\* UvRunOnce ends by posting the semaphore; JoinAppCode has no semaphore yet.
UvRunReturns ==
    /\ TopIn({"timers"}) /\ ~starting
    /\ Leave
    /\ sem' = IF phase = "loading" THEN sem ELSE sem + 1
    /\ UNCHANGED <<phase, starting, embedThread, posted, loop>>

\* JoinAppCode runs the loop itself until the application has been loaded.
JoinAppCode ==
    /\ phase = "loading" /\ ui = <<>>
    /\ BeginUvRun
    /\ UNCHANGED <<phase, starting, sem, embedThread, posted>>

\* The task the embed thread posted.
FaultyUvRunOnce ==
    /\ Pumping /\ posted > 0
    /\ posted' = posted - 1
    /\ sem' = sem + 1
    /\ BeginUvRun
    /\ UNCHANGED <<phase, starting, embedThread>>

UvRunOnce ==
    /\ Pumping /\ posted > 0
    /\ posted' = posted - 1
    /\ BeginUvRun
    /\ UNCHANGED <<phase, starting, sem, embedThread>>

-------------------------------------------------------------------------------
(* The main function: MainParts::Initialize, the run loop, the teardown.   *)

FaultyPrepareEmbedThread ==
    /\ phase = "loading" /\ ui = <<>>
    /\ phase' = "prepared"
    /\ embed' = "wait"
    /\ sem' = 1
    /\ UNCHANGED <<ui, starting, wait, posted, loop>>

PrepareEmbedThread ==
    /\ phase = "loading" /\ ui = <<>>
    /\ phase' = "prepared"
    /\ embed' = "wait"
    /\ UNCHANGED <<ui, starting, sem, wait, posted, loop>>

\* StartPolling calls UvRunOnce directly.
StartPolling ==
    /\ phase = "prepared"
    /\ phase' = "polling"
    /\ BeginUvRun
    /\ UNCHANGED <<starting, sem, embedThread, posted>>

\* On Windows and Linux the application is told to launch before the loop runs.
LaunchApplication ==
    /\ phase = "polling" /\ ui = <<>>
    /\ phase' = "launched"
    /\ Enter("task")
    /\ UNCHANGED <<starting, sem, embedThread, posted, loop>>

RunLoopRuns ==
    /\ phase \in {"polling", "launched"} /\ ui = <<>>
    /\ phase' = "running"
    /\ UNCHANGED <<ui, starting, sem, embedThread, posted, loop>>

RunLoopReturns ==
    /\ phase = "running" /\ ui = <<>>
    /\ phase' = "stopped"
    /\ UNCHANGED <<ui, starting, sem, embedThread, posted, loop>>

\* The environment is freed: Node closes its handles, running the loop to do
\* so while the embed thread may be polling it.
PostMainMessageLoopRun ==
    /\ phase = "stopped"
    /\ phase' = "freed"
    /\ timer' = "off"
    /\ ready' \in {ready, FALSE}
    /\ interrupted' \in BOOLEAN
    /\ UNCHANGED <<ui, starting, sem, embedThread, posted>>

\* ~NodeBindings: embed_closed_ is set, ...
CloseEmbed ==
    /\ phase = "freed"
    /\ phase' = "closed"
    /\ UNCHANGED <<ui, starting, sem, embedThread, posted, loop>>

\* ... the semaphore is posted, ...
SignalEmbed ==
    /\ phase = "closed"
    /\ phase' = "signalled"
    /\ sem' = sem + 1
    /\ UNCHANGED <<ui, starting, embedThread, posted, loop>>

\* ... the poll is woken up, ...
FaultyWakeupEmbedThread ==
    /\ phase = "signalled"
    /\ phase' = "joining"
    /\ UNCHANGED <<ui, starting, sem, embedThread, posted, loop>>

WakeupEmbedThread ==
    /\ phase = "signalled"
    /\ phase' = "joining"
    /\ interrupted' = TRUE
    /\ UNCHANGED <<ui, starting, sem, embedThread, posted, timer, ready>>

\* ... and the thread is joined.
JoinEmbedThread ==
    /\ phase = "joining" /\ embed = "done"
    /\ phase' = "gone"
    /\ UNCHANGED <<ui, starting, sem, embedThread, posted, loop>>

-------------------------------------------------------------------------------
(* The embed thread: EmbedThreadRunner and PollEvents.                     *)

EmbedWaits ==
    /\ embed = "wait" /\ sem > 0
    /\ sem' = sem - 1
    /\ embed' = "check"
    /\ UNCHANGED <<phase, ui, starting, wait, posted, loop>>

\* embed_closed_ is a plain bool written by the other thread: until the embed
\* thread has taken the semaphore posted after that write, it may read either
\* value.
MayReadClosed == phase \in Closing
MayReadOpen == phase \in Closing => phase = "closed" \/ sem > 0

EmbedChecks(from, to) ==
    /\ embed = from
    /\ \/ MayReadClosed /\ embed' = "done"
       \/ MayReadOpen /\ embed' = to
    /\ UNCHANGED <<phase, ui, starting, sem, wait, posted, loop>>

\* uv_backend_timeout
BackendTimeout == [due |-> "zero", armed |-> "timed", off |-> "forever"][timer]

\* PollEvents first asks how long it may block.  The timer heap is not guarded:
\* a read that meets the insertion of a timer may miss it.
ReadBackendTimeout ==
    /\ embed = "read"
    /\ wait' \in IF starting THEN Timeouts ELSE {BackendTimeout}
    /\ embed' = "select"
    /\ UNCHANGED <<phase, ui, starting, sem, posted, loop>>

\* Then it blocks, until the timeout, an event or a wake-up.  A completion port
\* gives the packet away: the one of an event is posted back, a wake-up's is
\* not (there may be others).
PollReturns ==
    /\ embed = "select"
    /\ wait # "forever" \/ ready \/ interrupted
    /\ embed' = "polled"
    /\ interrupted' \in IF Iocp THEN {interrupted, FALSE} ELSE {interrupted}
    /\ UNCHANGED <<phase, ui, starting, sem, wait, posted, timer, ready>>

WakeupMainThread ==
    /\ embed = "wake"
    /\ posted' = posted + 1
    /\ embed' = "wait"
    /\ UNCHANGED <<phase, ui, starting, sem, wait, loop>>

-------------------------------------------------------------------------------
(* The world: the clock and the kernel.                                    *)

TimerExpires ==
    /\ timer = "armed"
    /\ timer' = "due"
    /\ UNCHANGED <<phase, ui, starting, sem, embedThread, posted, ready,
                   interrupted>>

EventArrives ==
    /\ phase # "gone"
    /\ ready' = TRUE
    /\ UNCHANGED <<phase, ui, starting, sem, embedThread, posted, timer,
                   interrupted>>

ProcessEnded == phase = "gone" /\ UNCHANGED vars

Main ==
    \/ JsStarts \/ Interrupt \/ JsStopsTimer \/ JsOpensModal \/ ModalCloses
    \/ RunOtherTask \/ TaskReturns
    \/ UvRunsTimers \/ UvRunReturns \/ JoinAppCode \/ UvRunOnce
    \/ PrepareEmbedThread \/ StartPolling \/ LaunchApplication
    \/ RunLoopRuns \/ RunLoopReturns \/ PostMainMessageLoopRun
    \/ CloseEmbed \/ SignalEmbed \/ WakeupEmbedThread \/ JoinEmbedThread

EmbedThreadRunner ==
    \/ EmbedWaits
    \/ EmbedChecks("check", "read")
    \/ ReadBackendTimeout
    \/ PollReturns
    \/ EmbedChecks("polled", "wake")
    \/ WakeupMainThread

Next ==
    \/ Main
    \/ EmbedThreadRunner
    \/ TimerExpires
    \/ EventArrives
    \/ ProcessEnded

Spec == Init /\ [][Next]_vars

\* The embed thread and the clock run; so does the UI thread, whose JavaScript
\* returns and whose queue is served in order.  Nothing makes a modal loop
\* close, a task arrive or the application quit; once the run loop has
\* returned, the teardown goes on.
Fairness ==
    /\ WF_vars(EmbedThreadRunner)
    /\ WF_vars(TimerExpires)
    /\ WF_vars(Interrupt)
    /\ SF_vars(TaskReturns) /\ SF_vars(UvRunsTimers) /\ SF_vars(UvRunReturns)
    /\ SF_vars(UvRunOnce)
    /\ WF_vars(JoinAppCode \/ PrepareEmbedThread)
    /\ WF_vars(StartPolling) /\ WF_vars(RunLoopRuns)
    /\ WF_vars(PostMainMessageLoopRun) /\ WF_vars(CloseEmbed)
    /\ WF_vars(SignalEmbed) /\ WF_vars(WakeupEmbedThread)
    /\ WF_vars(JoinEmbedThread)

FairSpec == Spec /\ Fairness

-------------------------------------------------------------------------------
(* Properties.                                                             *)

\* uv_run is never entered while it is running, however deep the nesting of
\* message loops: a task posted by the embed thread is never pending then.
UvRunNotReentered ==
    \A i, j \in DOMAIN ui : ui[i] \in UvFrames /\ ui[j] \in UvFrames => i = j

\* While the application runs, the loop is used by one thread at a time:
\* PollEvents never overlaps a uv_run.
PollExcludesUvRun == embed \in EmbedTurn => ~InUv

\* uv's loop has one user: no uv_run inside another, and none beside a poll.
OneUserAtATime == UvRunNotReentered /\ PollExcludesUvRun

\* No wake-up is lost.  While the application runs, a poll that may block for
\* ever although a timer is armed has been interrupted, or is about to be.
NoLostWakeup ==
    phase \in Active /\ embed = "select" /\ wait = "forever"
    /\ timer # "off"
        => interrupted \/ starting

\* An event or a timer that is due is handled, unless a nested message loop
\* stays open or the run loop returns.
WorkIsDone ==
    /\ ready ~> ~ready \/ Nested \/ phase \in Stopped
    /\ timer = "due" ~> timer # "due" \/ Nested \/ phase \in Stopped

\* The destructor of NodeBindings returns, wherever it finds the embed thread
\* and whichever value that thread reads of embed_closed_.
DestructorReturns == phase = "stopped" ~> phase = "gone"

\* The turns of the loop's users.
turn ==
    IF phase \in {"loading", "prepared"} THEN "nobody"
    ELSE IF phase \in Closing THEN "stopped"
    ELSE IF InUv THEN "uv"
    ELSE IF sem > 0 THEN "semaphore"
    ELSE IF posted > 0 THEN "task"
    ELSE "embed"

\* NodeLoop implements PollTurns.
Turns == INSTANCE PollTurns WITH turn <- turn
TakesTurns == Turns!Spec

===============================================================================
