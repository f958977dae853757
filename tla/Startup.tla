------------------------------- MODULE Startup -------------------------------
(***************************************************************************)
(* From the end of the environment's construction to the main loop:        *)
(* init.ts searches the application's package and loads its main script,   *)
(* a CommonJS module at once, an ES module while JoinAppCode turns the     *)
(* loop until the script says that it is loaded.  The script may already   *)
(* quit or exit; there are no windows yet.                                 *)
(***************************************************************************)
EXTENDS Naturals, Sequences

CONSTANTS
  SearchPaths   \* how many places are searched

ASSUME StartupAssumption == SearchPaths \in Nat

VARIABLES
  place,       \* what is at each place: "app" (in an archive), "folder", "broken", "none"
  onlyAsar,    \* the fuse that takes applications from archives only
  main,        \* the main script: [esm, does]
  handles,     \* the script leaves something alive in the loop
  looked,      \* the places looked at
  phase,       \* "search", "load", "join", "running", "exited"
  loaded,      \* how often appCodeLoaded was called
  is_shutdown, \* app.quit() went through: neither before-quit nor will-quit stopped it
  exitTick     \* process.exit(1) waits for the next tick

startupVars == <<place, onlyAsar, main, handles, looked, phase, loaded,
                 is_shutdown, exitTick>>
startupGiven == <<place, onlyAsar, main, handles>>

StartupInit ==
  /\ place \in [1..SearchPaths -> {"app", "folder", "broken", "none"}]
  /\ onlyAsar \in BOOLEAN /\ handles \in BOOLEAN
  /\ main \in [esm : BOOLEAN, does : {"returns", "throws", "waits"}]
  /\ ~main.esm => main.does # "waits"
  /\ looked = 0 /\ phase = "search" /\ loaded = 0
  /\ is_shutdown = FALSE /\ exitTick = FALSE
-----------------------------------------------------------------------------
Loadable(k) == place[k] = "app" \/ (place[k] = "folder" /\ ~onlyAsar)

(* The loop over searchPaths; what throws is the next one's turn, and      *)
(* after the last one the process exits as soon as a tick runs.            *)
Search ==
  /\ phase = "search"
  /\ IF looked = SearchPaths
     THEN phase' = "join" /\ exitTick' = TRUE /\ UNCHANGED looked
     ELSE /\ looked' = looked + 1 /\ UNCHANGED exitTick
          /\ phase' = IF Loadable(looked + 1) THEN "load" ELSE "search"
  /\ UNCHANGED <<startupGiven, loaded, is_shutdown>>

(* A CommonJS script: appCodeLoaded, then the script, which may quit, and  *)
(* which ends the process if it exits before there is a message loop.      *)
LoadMain ==
  /\ phase = "load"
  /\ loaded' = IF main.esm THEN loaded ELSE loaded + 1
  /\ is_shutdown' \in IF main.esm THEN {is_shutdown} ELSE BOOLEAN
  /\ phase' \in IF main.esm THEN {"join"} ELSE {"join", "exited"}
  /\ UNCHANGED <<startupGiven, looked, exitTick>>

(* What an ES module, or what it started, does while the loop turns; one   *)
(* turn of the loop runs all that is due, also after a quit.               *)
ScriptQuits ==
  /\ phase = "join" /\ main.esm /\ ~exitTick /\ is_shutdown' = TRUE
  /\ UNCHANGED <<startupGiven, looked, phase, loaded, exitTick>>
ScriptExits ==
  /\ phase = "join" /\ main.esm /\ ~exitTick /\ phase' = "exited"
  /\ UNCHANGED <<startupGiven, looked, loaded, is_shutdown, exitTick>>

(* An import settles when the script has returned or thrown; one that      *)
(* waits for nothing in the loop does not.                                 *)
Importing == looked > 0 /\ ~exitTick /\ main.esm /\ loaded = 0
UvIsEmpty == ~exitTick /\ ~handles /\ ~(Importing /\ main.does # "waits")

ImportSettles ==
  /\ phase = "join" /\ Importing /\ main.does # "waits"
  /\ loaded' = loaded + 1
  /\ UNCHANGED <<startupGiven, looked, phase, is_shutdown, exitTick>>

(* process.exit before there is a message loop ends the process.           *)
ExitTick ==
  /\ phase = "join" /\ exitTick /\ phase' = "exited"
  /\ UNCHANGED <<startupGiven, looked, loaded, is_shutdown, exitTick>>

FaultyJoinAppCode ==  \* one turn of the loop, whether the code is loaded or not
  /\ phase = "join" /\ ~exitTick /\ phase' = "running"
  /\ UNCHANGED <<startupGiven, looked, loaded, is_shutdown, exitTick>>

(* JoinAppCode returns when the code is loaded, the application is shut    *)
(* down or the loop is empty; then, in each case, the application becomes  *)
(* ready and the main loop starts.                                         *)
JoinAppCode ==
  /\ phase = "join" /\ ~exitTick /\ (loaded > 0 \/ is_shutdown \/ UvIsEmpty)
  /\ phase' = "running"
  /\ UNCHANGED <<startupGiven, looked, loaded, is_shutdown, exitTick>>

StartupNext ==
  Search \/ LoadMain \/ ScriptQuits \/ ScriptExits \/ ImportSettles \/ ExitTick \/ JoinAppCode
StartupSpec == StartupInit /\ [][StartupNext]_startupVars /\ WF_startupVars(StartupNext)
-----------------------------------------------------------------------------
(* init.ts:228: when the application becomes ready, the code that listens  *)
(* for ready is loaded, once, and it is that of the first place that has a *)
(* valid application.  Overtaken are only a script that waits for what     *)
(* nothing in the loop will bring, and one in whose time the application   *)
(* was quit: then it becomes ready all the same.                           *)
ReadyAfterCode ==
  phase = "running" =>
    /\ Loadable(looked) /\ \A k \in 1..(looked - 1) : ~Loadable(k)
    /\ \/ loaded = 1
       \/ loaded = 0 /\ main.esm /\ (is_shutdown \/ (main.does = "waits" /\ ~handles))

(* node_bindings.cc:648: the process starts its main loop or exits, unless *)
(* the script waits for ever and something else keeps the loop alive.      *)
StartupEnds ==
  ~(main.does = "waits" /\ handles) => <>(phase \in {"running", "exited"})
=============================================================================
