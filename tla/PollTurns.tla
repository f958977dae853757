------------------------------ MODULE PollTurns ------------------------------
(***************************************************************************)
(* What the integration of the libuv loop with the message loop promises:  *)
(* the loop has one user at a time, and its users take turns.  The UI      *)
(* thread runs it once ("uv"), leaves the turn on the semaphore            *)
(* ("semaphore"), the embed thread takes it and waits for the next event   *)
(* ("embed"), posts a task to the UI thread ("task"), and that task runs   *)
(* the loop once more.  Stopping ends the turns, never while the loop runs.*)
(* NodeLoop implements this specification.                                 *)
(***************************************************************************)

VARIABLE turn

Turns == {"nobody", "uv", "semaphore", "embed", "task", "stopped"}

Init == turn = "nobody"

Pass(from, to) == turn = from /\ turn' = to

Start  == Pass("nobody", "uv")
Finish == Pass("uv", "semaphore")
Take   == Pass("semaphore", "embed")
Wake   == Pass("embed", "task")
Run    == Pass("task", "uv")
Stop   == \E from \in {"semaphore", "embed", "task"} : Pass(from, "stopped")

Next == Start \/ Finish \/ Take \/ Wake \/ Run \/ Stop

Spec == Init /\ [][Next]_turn

==============================================================================
