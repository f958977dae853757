--------------------------- MODULE RuntimeInstall ---------------------------
(***************************************************************************)
(* ensureRuntime of packages/lynxtron/runtime-manager.js: processes that   *)
(* run at the same time (npm's postinstall, the lynxtron command, the      *)
(* builder) make sure that one runtime variant is in the package's dist    *)
(* directory.  A process may fail at every step that touches the network   *)
(* or the disk, and may be killed at any step.                             *)
(*                                                                         *)
(* The lock is proper-lockfile's: a process that lives refreshes it every  *)
(* ten seconds, so only the lock of a killed process becomes stale.        *)
(***************************************************************************)
EXTENDS Integers, FiniteSets

CONSTANTS
  Installer,   \* the processes
  Files,       \* what a whole runtime consists of
  Exe,         \* the executable among it
  Forcing,       \* the processes started with npm_config_force_download
  MaxRuns      \* bound: how often one process slot is started

ASSUME RuntimeAssumption ==
  /\ Exe \in Files /\ Forcing \subseteq Installer /\ MaxRuns \in Nat \ {0}
  /\ "nobody" \notin Installer /\ "dead" \notin Installer

VARIABLES
  runtimeDir,  \* the files in dist/<variant>
  lockHolder,  \* who has the lock; "dead": a killed process had it
  step,        \* what each process does next
  archive,     \* the archive each process fetched
  temporary,   \* the files in its temporary directory
  outcome,     \* what it returns, once decided
  runs

runtimeVars == <<runtimeDir, lockHolder, step, archive, temporary, outcome, runs>>

Steps == {"check", "lock", "recheck", "fetch", "body", "extract", "verify", "remove",
          "rename", "cleanup", "release", "returned", "failed", "killed"}
Working == Steps \ {"returned", "failed", "killed"}
Installing == {"fetch", "body", "extract", "verify", "remove", "rename"}
Holding == Installing \cup {"recheck", "cleanup", "release"}

RuntimeInit ==
  /\ runtimeDir \in (SUBSET (Files \ {Exe})) \cup {Files}
  /\ lockHolder = "nobody"
  /\ step = [p \in Installer |-> "check"]
  /\ archive = [p \in Installer |-> {}]
  /\ temporary = [p \in Installer |-> {}]
  /\ outcome = [p \in Installer |-> "failed"]
  /\ runs = [p \in Installer |-> 1]
-----------------------------------------------------------------------------
Goto(p, s) == step' = [step EXCEPT ![p] = s]

(* fs.existsSync(executablePath) is all that is asked of the directory. *)
Usable(p) == p \notin Forcing /\ Exe \in runtimeDir

Check(p) ==
  /\ step[p] = "check"
  /\ Goto(p, IF Usable(p) THEN "returned" ELSE "lock")
  /\ UNCHANGED <<runtimeDir, lockHolder, archive, temporary, outcome, runs>>

Acquire(p) ==
  /\ step[p] = "lock" /\ lockHolder \in {"nobody", "dead"}
  /\ lockHolder' = p
  /\ Goto(p, "recheck")
  /\ UNCHANGED <<runtimeDir, archive, temporary, outcome, runs>>

FaultyGiveUp(p) ==  \* nothing bounds the retries
  /\ step[p] = "lock" /\ lockHolder = "held"
  /\ Goto(p, "failed")
  /\ UNCHANGED <<runtimeDir, lockHolder, archive, temporary, outcome, runs>>

(* The retries are used up, or the lock of a killed process is not yet     *)
(* older than the stale time.                                              *)
GiveUp(p) ==
  /\ step[p] = "lock" /\ lockHolder # "nobody"
  /\ Goto(p, "failed")
  /\ UNCHANGED <<runtimeDir, lockHolder, archive, temporary, outcome, runs>>

FaultyRecheck(p) ==  \* the lock is taken, but the directory not looked at again
  /\ step[p] = "recheck"
  /\ Goto(p, "fetch")
  /\ outcome' = [outcome EXCEPT ![p] = "failed"]
  /\ temporary' = [temporary EXCEPT ![p] = {}]
  /\ UNCHANGED <<runtimeDir, lockHolder, archive, runs>>

Recheck(p) ==
  /\ step[p] = "recheck"
  /\ Goto(p, IF Usable(p) THEN "release" ELSE "fetch")
  /\ outcome' = [outcome EXCEPT ![p] = IF Usable(p) THEN "returned" ELSE "failed"]
  /\ temporary' = [temporary EXCEPT ![p] = {}]
  /\ UNCHANGED <<runtimeDir, lockHolder, archive, runs>>

(* downloadBinary: the response's headers, under the timeout.  The timer   *)
(* is cleared when they are there.                                         *)
Headers(p) ==
  /\ step[p] = "fetch"
  /\ Goto(p, "body")
  /\ UNCHANGED <<runtimeDir, lockHolder, archive, temporary, outcome, runs>>

(* The archive is there, from the response's body or from an npm package   *)
(* (packageArchive): with all the files, or without the executable.        *)
Fetch(p, from, files) ==
  /\ step[p] = from
  /\ archive' = [archive EXCEPT ![p] = files]
  /\ Goto(p, "extract")
  /\ UNCHANGED <<runtimeDir, lockHolder, temporary, outcome, runs>>

Extract(p) ==
  /\ step[p] = "extract"
  /\ \/ \E f \in archive[p] \ temporary[p] :
          /\ temporary' = [temporary EXCEPT ![p] = @ \cup {f}]
          /\ UNCHANGED step
     \/ /\ archive[p] \subseteq temporary[p]
        /\ Goto(p, "verify")
        /\ UNCHANGED temporary
  /\ UNCHANGED <<runtimeDir, lockHolder, archive, outcome, runs>>

Verify(p) ==
  /\ step[p] = "verify"
  /\ Goto(p, IF Exe \in temporary[p] THEN "remove" ELSE "cleanup")
  /\ UNCHANGED <<runtimeDir, lockHolder, archive, temporary, outcome, runs>>

(* fs.promises.rm with recursive removes one entry after the other. *)
RemoveOld(p) ==
  /\ step[p] = "remove"
  /\ \/ \E f \in runtimeDir :
          /\ runtimeDir' = runtimeDir \ {f}
          /\ UNCHANGED step
     \/ /\ runtimeDir = {}
        /\ Goto(p, "rename")
        /\ UNCHANGED runtimeDir
  /\ UNCHANGED <<lockHolder, archive, temporary, outcome, runs>>

Rename(p) ==
  /\ step[p] = "rename"
  /\ runtimeDir' = temporary[p]
  /\ temporary' = [temporary EXCEPT ![p] = {}]
  /\ outcome' = [outcome EXCEPT ![p] = "returned"]
  /\ Goto(p, "cleanup")
  /\ UNCHANGED <<lockHolder, archive, runs>>

(* Any of the awaited calls may reject: the inner finally runs. *)
Throw(p) ==
  /\ step[p] \in {"fetch", "body", "extract", "remove", "rename"}
  /\ Goto(p, "cleanup")
  /\ UNCHANGED <<runtimeDir, lockHolder, archive, temporary, outcome, runs>>

Cleanup(p) ==
  /\ step[p] = "cleanup"
  /\ archive' = [archive EXCEPT ![p] = {}]
  /\ temporary' = [temporary EXCEPT ![p] = {}]
  /\ Goto(p, "release")
  /\ UNCHANGED <<runtimeDir, lockHolder, outcome, runs>>

Release(p) ==
  /\ step[p] = "release"
  /\ lockHolder' = "nobody"
  /\ Goto(p, outcome[p])
  /\ UNCHANGED <<runtimeDir, archive, temporary, outcome, runs>>

(* No finally block runs and the lock stays behind. *)
Kill(p) ==
  /\ step[p] \in Working
  /\ lockHolder' = IF lockHolder = p THEN "dead" ELSE lockHolder
  /\ Goto(p, "killed")
  /\ UNCHANGED <<runtimeDir, archive, temporary, outcome, runs>>

(* The slot is used by a new process; what a killed one left in its own    *)
(* temporary directory is not looked at again.                             *)
StartAgain(p) ==
  /\ step[p] \in {"returned", "failed", "killed"} /\ runs[p] < MaxRuns
  /\ runs' = [runs EXCEPT ![p] = @ + 1]
  /\ archive' = [archive EXCEPT ![p] = {}]
  /\ temporary' = [temporary EXCEPT ![p] = {}]
  /\ outcome' = [outcome EXCEPT ![p] = "failed"]
  /\ Goto(p, "check")
  /\ UNCHANGED <<runtimeDir, lockHolder>>

Proceed(p) ==
  \/ Check(p) \/ Acquire(p) \/ GiveUp(p) \/ Recheck(p)
  \/ Headers(p) \/ Fetch(p, "fetch", Files) \/ Fetch(p, "fetch", Files \ {Exe})
  \/ Fetch(p, "body", Files) \/ Fetch(p, "body", Files \ {Exe})
  \/ Extract(p) \/ Verify(p) \/ RemoveOld(p) \/ Rename(p)
  \/ Throw(p) \/ Cleanup(p) \/ Release(p)

RuntimeNext == \E p \in Installer : Proceed(p) \/ Kill(p) \/ StartAgain(p)

RuntimeSpec == RuntimeInit /\ [][RuntimeNext]_runtimeVars

(* A process that lives executes its next statement, and its calls return; *)
(* but nothing bounds the time a server takes to send a body.              *)
RuntimeFairSpec ==
  RuntimeSpec /\ \A p \in Installer : WF_runtimeVars(step[p] # "body" /\ Proceed(p))
-----------------------------------------------------------------------------
RuntimeTypeOK ==
  /\ runtimeDir \subseteq Files
  /\ lockHolder \in Installer \cup {"nobody", "dead"}
  /\ step \in [Installer -> Steps]
  /\ archive \in [Installer -> SUBSET Files]
  /\ temporary \in [Installer -> SUBSET Files]
  /\ outcome \in [Installer -> {"returned", "failed"}]
  /\ runs \in [Installer -> 1..MaxRuns]

(* A process that writes below dist has the lock, no two of them have it.  *)
LockHeld == \A p \in Installer : step[p] \in Holding <=> lockHolder = p

(* From the second look at the directory to the rename nobody else brings  *)
(* a runtime, and what is renamed is a whole one.                          *)
AboutToInstall ==
  \A p \in Installer :
    /\ step[p] \in Installing => Exe \notin runtimeDir
    /\ step[p] \in {"fetch", "body"} => temporary[p] = {}
    /\ step[p] \in {"extract", "verify", "remove", "rename"} =>
         archive[p] \in {Files, Files \ {Exe}} /\ temporary[p] \subseteq archive[p]
    /\ step[p] \in {"verify", "remove", "rename"} => temporary[p] = archive[p]
    /\ step[p] \in {"remove", "rename"} => Exe \in temporary[p]
    /\ step[p] \in Installing => outcome[p] = "failed"

(* The directory with the executable in it is a whole runtime, and it is   *)
(* there when a process has decided or reported that it is.                *)
WholeOrUnusable ==
  /\ Exe \in runtimeDir => runtimeDir = Files
  /\ \A p \in Installer :
       /\ step[p] = "returned" => runtimeDir = Files
       /\ step[p] \in {"cleanup", "release"} /\ outcome[p] = "returned" => runtimeDir = Files

RuntimeInv == RuntimeTypeOK /\ LockHeld /\ AboutToInstall /\ WholeOrUnusable

(* runtime-manager.js, without a forced download: whatever the processes   *)
(* do at the same time, wherever they fail and whenever they are killed,   *)
(* the runtime appears as a whole, once, and stays; and no process returns *)
(* its path before.                                                        *)
Promise == INSTANCE Installed
             WITH store <- IF runtimeDir = Files THEN "whole" ELSE "absent",
                  told <- {p \in Installer : step[p] = "returned"}
RuntimeImplements == Promise!InstalledSpec

(* A process that starts ends: it returns, throws or was killed, unless a  *)
(* server keeps it waiting for a body.  Waiting for the lock is bounded,   *)
(* also when the holder was killed or is the one that waits.               *)
EveryInstallEnds ==
  \A p \in Installer :
    step[p] \in Working ~> step[p] \notin Working \/ step[p] = "body"
=============================================================================
