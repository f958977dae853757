--------------------------- MODULE ApplicationLife ---------------------------
(***************************************************************************)
(* What an application may count on in its own life, whatever its          *)
(* listeners call and however those calls nest: each window is opened at   *)
(* most once and, once closed, stays closed; a quit is asked for, may be   *)
(* vetoed up to "will-quit", and is told "quit" once; an exit is not       *)
(* vetoed; and the process goes on until it was told.                      *)
(***************************************************************************)
EXTENDS Naturals

CONSTANTS
  Window,
  Late,      \* whether windows are opened while the application stops
  Crashes    \* whether the process may end at any point

VARIABLES
  ready,     \* "ready" was emitted
  seen,      \* per window: "none", "open", or "closed" once "closed" was emitted
  asked,     \* the listeners of "before-quit" are being asked
  exiting,   \* exit() was called while the message loop ran
  stage,     \* "up" | "stopping" | "last call" ("will-quit") | "down" | "gone"
  quits,     \* how many times "quit" was emitted
  running    \* the message loop is running

life == <<ready, seen, asked, exiting, stage, quits, running>>

NoneOpen == \A w \in Window : seen[w] # "open"

LifeInit ==
  /\ ready = FALSE /\ asked = FALSE /\ exiting = FALSE /\ running = FALSE
  /\ seen = [w \in Window |-> "none"]
  /\ stage = "up" /\ quits = 0

BecomesReady ==
  /\ ~ready /\ ready' = TRUE
  /\ UNCHANGED <<seen, asked, exiting, stage, quits, running>>

Runs ==
  /\ ~running /\ running' = TRUE
  /\ UNCHANGED <<ready, seen, asked, exiting, stage, quits>>

Opens(w) ==
  /\ ready /\ seen[w] = "none"
  /\ Late \/ (stage = "up" /\ ~asked)
  /\ seen' = [seen EXCEPT ![w] = "open"]
  /\ UNCHANGED <<ready, asked, exiting, stage, quits, running>>

Closes(w) ==
  /\ seen[w] = "open"
  /\ seen' = [seen EXCEPT ![w] = "closed"]
  /\ UNCHANGED <<ready, asked, exiting, stage, quits, running>>

\* quit() asks the listeners, unless an earlier quit is under way.
Asks ==
  /\ stage = "stopping" => exiting
  /\ asked' = TRUE
  /\ UNCHANGED <<ready, seen, exiting, stage, quits, running>>

\* They answered; with no window open the last call follows at once.
Answers ==
  /\ asked /\ asked' \in BOOLEAN
  /\ \/ UNCHANGED stage
     \/ /\ stage \in {"up", "stopping"} /\ ~exiting
        /\ stage' \in {"up", "stopping", "last call"}
        /\ stage' = "last call" => NoneOpen
  /\ UNCHANGED <<ready, seen, exiting, quits, running>>

\* A quit that was agreed to comes to its last call when every window is closed.
AllClosed ==
  /\ stage = "stopping" /\ ~exiting /\ NoneOpen
  /\ stage' = "last call"
  /\ UNCHANGED <<ready, seen, asked, exiting, quits, running>>

\* A window or a listener says no: that ends a quit and never an exit.
Vetoed ==
  /\ stage \in {"stopping", "last call"}
  /\ stage' = IF exiting THEN "stopping" ELSE "up"
  /\ UNCHANGED <<ready, seen, asked, exiting, quits, running>>

\* exit() while the loop runs: with no window open it is told "quit" at once.
Exits ==
  /\ running /\ exiting' = TRUE
  /\ \/ stage' = (IF stage = "up" THEN "stopping" ELSE stage) /\ quits' = quits
     \/ stage # "down" /\ NoneOpen /\ stage' = "down" /\ quits' = quits + 1
  /\ UNCHANGED <<ready, seen, asked, running>>

\* "quit": nobody vetoed the last call, or the last window of an exit is closed.
Quits ==
  /\ \/ stage = "last call" /\ (Late \/ NoneOpen)
     \/ stage # "down" /\ exiting /\ NoneOpen
  /\ stage' = "down" /\ quits' = quits + 1
  /\ UNCHANGED <<ready, seen, asked, exiting, running>>

\* The process ends: exit() before there is a loop, the loop that is left after
\* "quit", or a crash.
Ends ==
  /\ ~running \/ stage = "down" \/ Crashes
  /\ stage' = "gone" /\ asked' = FALSE /\ running' = FALSE
  /\ UNCHANGED <<ready, seen, exiting, quits>>

LifeNext ==
  /\ stage # "gone"
  /\ \/ BecomesReady \/ Runs \/ Asks \/ Answers \/ AllClosed \/ Vetoed \/ Exits \/ Quits \/ Ends
     \/ \E w \in Window : Opens(w) \/ Closes(w)

LifeSpec == LifeInit /\ [][LifeNext]_life
=============================================================================
