-------------------------- MODULE MCPackages_proofs --------------------------
(***************************************************************************)
(* Theorems about the npm packages, for every value of their constants.    *)
(* They share no state, so each theorem is about the specification of its  *)
(* package, or about all of them where the property is.                    *)
(***************************************************************************)
EXTENDS MCPackages, FiniteSetTheorems, TLAPS
-----------------------------------------------------------------------------
(***************************************************************************)
(* RuntimeInstall, for any number of processes, files and starts, where no *)
(* process is forced to download: the runtime is whole or unusable         *)
(* whatever fails and whoever is killed, and the installation implements   *)
(* Installed.  (A forced process takes a runtime away that others were     *)
(* told of: with Forcing # {} both are wrong.)                             *)
(*                                                                         *)
(* RuntimeInv is inductive: the lock makes the process between its second  *)
(* look and its rename the only one that writes, and what it renames is    *)
(* its archive, which is whole if the executable is in it.                 *)
(***************************************************************************)
\* The first look at the directory changes no file.
LEMMA CheckKeeps ==
  ASSUME RuntimeInv, Forcing = {}, NEW p \in Installer, Check(p)
  PROVE  RuntimeInv'
<1>1. RuntimeTypeOK'
  BY RuntimeAssumption DEF RuntimeInv, RuntimeTypeOK, Steps, Check, Usable, Goto
<1>2. LockHeld'
  BY RuntimeAssumption DEF RuntimeInv, RuntimeTypeOK, Steps, LockHeld, Holding, Installing,
     Check, Usable, Goto
<1>3. AboutToInstall'
  BY RuntimeAssumption DEF RuntimeInv, RuntimeTypeOK, Steps, LockHeld, Holding, Installing,
     AboutToInstall, WholeOrUnusable, Check, Usable, Goto
<1>4. WholeOrUnusable'
  BY RuntimeAssumption DEF RuntimeInv, RuntimeTypeOK, Steps, LockHeld, Holding, Installing,
     AboutToInstall, WholeOrUnusable, Check, Usable, Goto
<1>. QED
  BY <1>1, <1>2, <1>3, <1>4 DEF RuntimeInv

\* The lock is taken from nobody or from a dead process.
LEMMA AcquireKeeps ==
  ASSUME RuntimeInv, NEW p \in Installer, Acquire(p)
  PROVE  RuntimeInv'
<1>1. RuntimeTypeOK'
  BY RuntimeAssumption DEF RuntimeInv, RuntimeTypeOK, Steps, Acquire, Goto
<1>2. LockHeld'
  BY RuntimeAssumption DEF RuntimeInv, RuntimeTypeOK, Steps, LockHeld, Holding, Installing,
     Acquire, Goto
<1>3. AboutToInstall'
  BY RuntimeAssumption DEF RuntimeInv, RuntimeTypeOK, Steps, LockHeld, Holding, Installing,
     AboutToInstall, WholeOrUnusable, Acquire, Goto
<1>4. WholeOrUnusable'
  BY RuntimeAssumption DEF RuntimeInv, RuntimeTypeOK, Steps, LockHeld, Holding, Installing,
     AboutToInstall, WholeOrUnusable, Acquire, Goto
<1>. QED
  BY <1>1, <1>2, <1>3, <1>4 DEF RuntimeInv

\* Who gives up has no lock.
LEMMA GiveUpKeeps ==
  ASSUME RuntimeInv, NEW p \in Installer, GiveUp(p)
  PROVE  RuntimeInv'
<1>1. RuntimeTypeOK'
  BY RuntimeAssumption DEF RuntimeInv, RuntimeTypeOK, Steps, GiveUp, Goto
<1>2. LockHeld'
  BY RuntimeAssumption DEF RuntimeInv, RuntimeTypeOK, Steps, LockHeld, Holding, Installing,
     GiveUp, Goto
<1>3. AboutToInstall'
  BY RuntimeAssumption DEF RuntimeInv, RuntimeTypeOK, Steps, LockHeld, Holding, Installing,
     AboutToInstall, WholeOrUnusable, GiveUp, Goto
<1>4. WholeOrUnusable'
  BY RuntimeAssumption DEF RuntimeInv, RuntimeTypeOK, Steps, LockHeld, Holding, Installing,
     AboutToInstall, WholeOrUnusable, GiveUp, Goto
<1>. QED
  BY <1>1, <1>2, <1>3, <1>4 DEF RuntimeInv

\* The second look: with the executable the process is done, without it it installs.
LEMMA RecheckKeeps ==
  ASSUME RuntimeInv, Forcing = {}, NEW p \in Installer, Recheck(p)
  PROVE  RuntimeInv'
<1>1. RuntimeTypeOK'
  BY RuntimeAssumption DEF RuntimeInv, RuntimeTypeOK, Steps, Recheck, Usable, Goto
<1>2. LockHeld'
  BY RuntimeAssumption DEF RuntimeInv, RuntimeTypeOK, Steps, LockHeld, Holding, Installing,
     Recheck, Usable, Goto
<1>3. AboutToInstall'
  <2>1. temporary'[p] = {} /\ UNCHANGED <<runtimeDir, archive>>
    BY DEF RuntimeInv, RuntimeTypeOK, Recheck, Usable, Goto
  <2>2. step'[p] = "release" \/ (step'[p] = "fetch" /\ Exe \notin runtimeDir /\ outcome'[p] = "failed")
    <3>1. CASE Usable(p)
      BY <3>1 DEF RuntimeInv, RuntimeTypeOK, Recheck, Goto
    <3>2. CASE ~Usable(p)
      <4>1. step'[p] = "fetch" /\ outcome'[p] = "failed"
        BY <3>2 DEF RuntimeInv, RuntimeTypeOK, Recheck, Goto
      <4>2. Exe \notin runtimeDir
        BY <3>2 DEF Usable
      <4>. QED
        BY <4>1, <4>2
    <3>. QED
      BY <3>1, <3>2
  <2>3. \A q \in Installer \ {p} : step'[q] = step[q] /\ step[q] \notin Installing
    BY DEF RuntimeInv, RuntimeTypeOK, Steps, LockHeld, Holding, Installing, Recheck, Usable, Goto
  <2>. QED
    BY <2>1, <2>2, <2>3 DEF RuntimeInv, AboutToInstall, Installing
<1>4. WholeOrUnusable'
  BY RuntimeAssumption DEF RuntimeInv, RuntimeTypeOK, Steps, LockHeld, Holding, Installing,
     AboutToInstall, WholeOrUnusable, Recheck, Usable, Goto
<1>. QED
  BY <1>1, <1>2, <1>3, <1>4 DEF RuntimeInv

\* The headers of the response change nothing that is on the disk.
LEMMA HeadersKeeps ==
  ASSUME RuntimeInv, NEW p \in Installer, Headers(p)
  PROVE  RuntimeInv'
<1>1. RuntimeTypeOK'
  BY RuntimeAssumption DEF RuntimeInv, RuntimeTypeOK, Steps, Headers, Goto
<1>2. LockHeld'
  BY RuntimeAssumption DEF RuntimeInv, RuntimeTypeOK, Steps, LockHeld, Holding, Installing,
     Headers, Goto
<1>3. AboutToInstall'
  BY RuntimeAssumption DEF RuntimeInv, RuntimeTypeOK, Steps, LockHeld, Holding, Installing,
     AboutToInstall, WholeOrUnusable, Headers, Goto
<1>4. WholeOrUnusable'
  BY RuntimeAssumption DEF RuntimeInv, RuntimeTypeOK, Steps, LockHeld, Holding, Installing,
     AboutToInstall, WholeOrUnusable, Headers, Goto
<1>. QED
  BY <1>1, <1>2, <1>3, <1>4 DEF RuntimeInv

\* The archive holds all the files, or all but the executable.
LEMMA FetchKeeps ==
  ASSUME RuntimeInv, NEW p \in Installer,
         NEW from \in {"fetch", "body"}, NEW files \in {Files, Files \ {Exe}}, Fetch(p, from, files)
  PROVE  RuntimeInv'
<1>1. RuntimeTypeOK'
  BY RuntimeAssumption DEF RuntimeInv, RuntimeTypeOK, Steps, Fetch, Goto
<1>2. LockHeld'
  BY RuntimeAssumption DEF RuntimeInv, RuntimeTypeOK, Steps, LockHeld, Holding, Installing,
     Fetch, Goto
<1>3. AboutToInstall'
  <2>1. archive'[p] = files /\ step'[p] = "extract" /\ temporary[p] = {}
    BY DEF RuntimeInv, RuntimeTypeOK, AboutToInstall, Fetch, Goto
  <2>2. \A q \in Installer \ {p} : archive'[q] = archive[q] /\ step'[q] = step[q]
    BY DEF RuntimeInv, RuntimeTypeOK, Fetch, Goto
  <2>. QED
    BY <2>1, <2>2 DEF RuntimeInv, AboutToInstall, Installing, Fetch
<1>4. WholeOrUnusable'
  BY RuntimeAssumption DEF RuntimeInv, RuntimeTypeOK, Steps, LockHeld, Holding, Installing,
     AboutToInstall, WholeOrUnusable, Fetch, Goto
<1>. QED
  BY <1>1, <1>2, <1>3, <1>4 DEF RuntimeInv

\* What is extracted is part of the archive, and all of it in the end.
LEMMA ExtractKeeps ==
  ASSUME RuntimeInv, NEW p \in Installer, Extract(p)
  PROVE  RuntimeInv'
<1>1. RuntimeTypeOK'
  <2>1. archive[p] \subseteq Files /\ temporary[p] \subseteq Files
    BY DEF RuntimeInv, RuntimeTypeOK
  <2>2. temporary' \in [Installer -> SUBSET Files]
    <3>1. CASE UNCHANGED temporary
      BY <3>1 DEF RuntimeInv, RuntimeTypeOK
    <3>2. CASE \E f \in archive[p] \ temporary[p] :
                 temporary' = [temporary EXCEPT ![p] = @ \cup {f}]
      <4>1. PICK f \in archive[p] : temporary' = [temporary EXCEPT ![p] = @ \cup {f}]
        BY <3>2
      <4>2. temporary[p] \cup {f} \in SUBSET Files
        BY <2>1
      <4>. QED
        BY <4>1, <4>2 DEF RuntimeInv, RuntimeTypeOK
    <3>. QED
      BY <3>1, <3>2 DEF Extract
  <2>3. step' \in [Installer -> Steps]
    BY DEF RuntimeInv, RuntimeTypeOK, Steps, Extract, Goto
  <2>. QED
    BY <2>2, <2>3 DEF RuntimeInv, RuntimeTypeOK, Extract
<1>2. LockHeld'
  BY RuntimeAssumption DEF RuntimeInv, RuntimeTypeOK, Steps, LockHeld, Holding, Installing,
     Extract, Goto
<1>3. AboutToInstall'
  <2>1. CASE \E f \in archive[p] \ temporary[p] :
               temporary' = [temporary EXCEPT ![p] = @ \cup {f}] /\ UNCHANGED step
    <3>1. PICK f \in archive[p] :
            temporary' = [temporary EXCEPT ![p] = @ \cup {f}] /\ UNCHANGED step
      BY <2>1
    <3>2. temporary'[p] = temporary[p] \cup {f} /\ temporary'[p] \subseteq archive[p]
      BY <3>1 DEF Extract, RuntimeInv, RuntimeTypeOK, AboutToInstall
    <3>3. \A q \in Installer \ {p} : temporary'[q] = temporary[q]
      BY <3>1 DEF RuntimeInv, RuntimeTypeOK
    <3>. QED
      BY <3>1, <3>2, <3>3 DEF Extract, RuntimeInv, AboutToInstall
  <2>2. CASE archive[p] \subseteq temporary[p] /\ Goto(p, "verify") /\ UNCHANGED temporary
    BY <2>2 DEF RuntimeInv, RuntimeTypeOK, Steps, LockHeld, Holding, Installing,
       AboutToInstall, Extract, Goto
  <2>. QED
    BY <2>1, <2>2 DEF Extract
<1>4. WholeOrUnusable'
  BY RuntimeAssumption DEF RuntimeInv, RuntimeTypeOK, Steps, LockHeld, Holding, Installing,
     AboutToInstall, WholeOrUnusable, Extract, Goto
<1>. QED
  BY <1>1, <1>2, <1>3, <1>4 DEF RuntimeInv

\* Only an archive with the executable goes on to replace the directory.
LEMMA VerifyKeeps ==
  ASSUME RuntimeInv, NEW p \in Installer, Verify(p)
  PROVE  RuntimeInv'
<1>1. RuntimeTypeOK'
  BY RuntimeAssumption DEF RuntimeInv, RuntimeTypeOK, Steps, Verify, Goto
<1>2. LockHeld'
  BY RuntimeAssumption DEF RuntimeInv, RuntimeTypeOK, Steps, LockHeld, Holding, Installing,
     Verify, Goto
<1>3. AboutToInstall'
  BY RuntimeAssumption DEF RuntimeInv, RuntimeTypeOK, Steps, LockHeld, Holding, Installing,
     AboutToInstall, WholeOrUnusable, Verify, Goto
<1>4. WholeOrUnusable'
  BY RuntimeAssumption DEF RuntimeInv, RuntimeTypeOK, Steps, LockHeld, Holding, Installing,
     AboutToInstall, WholeOrUnusable, Verify, Goto
<1>. QED
  BY <1>1, <1>2, <1>3, <1>4 DEF RuntimeInv

\* The directory that is removed has no executable: nobody has been told of it.
LEMMA RemoveOldKeeps ==
  ASSUME RuntimeInv, NEW p \in Installer, RemoveOld(p)
  PROVE  RuntimeInv'
<1>1. RuntimeTypeOK'
  BY RuntimeAssumption DEF RuntimeInv, RuntimeTypeOK, Steps, RemoveOld, Goto
<1>2. LockHeld'
  BY RuntimeAssumption DEF RuntimeInv, RuntimeTypeOK, Steps, LockHeld, Holding, Installing,
     RemoveOld, Goto
<1>3. AboutToInstall'
  BY RuntimeAssumption DEF RuntimeInv, RuntimeTypeOK, Steps, LockHeld, Holding, Installing,
     AboutToInstall, WholeOrUnusable, RemoveOld, Goto
<1>4. WholeOrUnusable'
  BY RuntimeAssumption DEF RuntimeInv, RuntimeTypeOK, Steps, LockHeld, Holding, Installing,
     AboutToInstall, WholeOrUnusable, RemoveOld, Goto
<1>. QED
  BY <1>1, <1>2, <1>3, <1>4 DEF RuntimeInv

\* What is renamed to its place is a whole runtime.
LEMMA RenameKeeps ==
  ASSUME RuntimeInv, NEW p \in Installer, Rename(p)
  PROVE  RuntimeInv'
<1>1. RuntimeTypeOK'
  BY RuntimeAssumption DEF RuntimeInv, RuntimeTypeOK, Steps, Rename, Goto
<1>2. LockHeld'
  BY RuntimeAssumption DEF RuntimeInv, RuntimeTypeOK, Steps, LockHeld, Holding, Installing,
     Rename, Goto
<1>3. AboutToInstall'
  BY RuntimeAssumption DEF RuntimeInv, RuntimeTypeOK, Steps, LockHeld, Holding, Installing,
     AboutToInstall, WholeOrUnusable, Rename, Goto
<1>4. WholeOrUnusable'
  BY RuntimeAssumption DEF RuntimeInv, RuntimeTypeOK, Steps, LockHeld, Holding, Installing,
     AboutToInstall, WholeOrUnusable, Rename, Goto
<1>. QED
  BY <1>1, <1>2, <1>3, <1>4 DEF RuntimeInv

\* A step that fails leaves the directory without an executable.
LEMMA ThrowKeeps ==
  ASSUME RuntimeInv, NEW p \in Installer, Throw(p)
  PROVE  RuntimeInv'
<1>1. RuntimeTypeOK'
  BY RuntimeAssumption DEF RuntimeInv, RuntimeTypeOK, Steps, Throw, Goto
<1>2. LockHeld'
  BY RuntimeAssumption DEF RuntimeInv, RuntimeTypeOK, Steps, LockHeld, Holding, Installing,
     Throw, Goto
<1>3. AboutToInstall'
  BY RuntimeAssumption DEF RuntimeInv, RuntimeTypeOK, Steps, LockHeld, Holding, Installing,
     AboutToInstall, WholeOrUnusable, Throw, Goto
<1>4. WholeOrUnusable'
  BY RuntimeAssumption DEF RuntimeInv, RuntimeTypeOK, Steps, LockHeld, Holding, Installing,
     AboutToInstall, WholeOrUnusable, Throw, Goto
<1>. QED
  BY <1>1, <1>2, <1>3, <1>4 DEF RuntimeInv

\* The temporary directory is the process's own.
LEMMA CleanupKeeps ==
  ASSUME RuntimeInv, NEW p \in Installer, Cleanup(p)
  PROVE  RuntimeInv'
<1>1. RuntimeTypeOK'
  BY RuntimeAssumption DEF RuntimeInv, RuntimeTypeOK, Steps, Cleanup, Goto
<1>2. LockHeld'
  BY RuntimeAssumption DEF RuntimeInv, RuntimeTypeOK, Steps, LockHeld, Holding, Installing,
     Cleanup, Goto
<1>3. AboutToInstall'
  BY RuntimeAssumption DEF RuntimeInv, RuntimeTypeOK, Steps, LockHeld, Holding, Installing,
     AboutToInstall, WholeOrUnusable, Cleanup, Goto
<1>4. WholeOrUnusable'
  BY RuntimeAssumption DEF RuntimeInv, RuntimeTypeOK, Steps, LockHeld, Holding, Installing,
     AboutToInstall, WholeOrUnusable, Cleanup, Goto
<1>. QED
  BY <1>1, <1>2, <1>3, <1>4 DEF RuntimeInv

\* The lock is the process's own.
LEMMA ReleaseKeeps ==
  ASSUME RuntimeInv, NEW p \in Installer, Release(p)
  PROVE  RuntimeInv'
<1>1. RuntimeTypeOK'
  BY RuntimeAssumption DEF RuntimeInv, RuntimeTypeOK, Steps, Release, Goto
<1>2. LockHeld'
  BY RuntimeAssumption DEF RuntimeInv, RuntimeTypeOK, Steps, LockHeld, Holding, Installing,
     Release, Goto
<1>3. AboutToInstall'
  BY RuntimeAssumption DEF RuntimeInv, RuntimeTypeOK, Steps, LockHeld, Holding, Installing,
     AboutToInstall, WholeOrUnusable, Release, Goto
<1>4. WholeOrUnusable'
  BY RuntimeAssumption DEF RuntimeInv, RuntimeTypeOK, Steps, LockHeld, Holding, Installing,
     AboutToInstall, WholeOrUnusable, Release, Goto
<1>. QED
  BY <1>1, <1>2, <1>3, <1>4 DEF RuntimeInv

\* A killed process leaves a lock that is known to be dead.
LEMMA KillKeeps ==
  ASSUME RuntimeInv, NEW p \in Installer, Kill(p)
  PROVE  RuntimeInv'
<1>1. RuntimeTypeOK'
  BY RuntimeAssumption DEF RuntimeInv, RuntimeTypeOK, Steps, Kill, Goto, Working
<1>2. LockHeld'
  BY RuntimeAssumption DEF RuntimeInv, RuntimeTypeOK, Steps, LockHeld, Holding, Installing,
     Kill, Goto, Working
<1>3. AboutToInstall'
  BY RuntimeAssumption DEF RuntimeInv, RuntimeTypeOK, Steps, LockHeld, Holding, Installing,
     AboutToInstall, WholeOrUnusable, Kill, Goto, Working
<1>4. WholeOrUnusable'
  BY RuntimeAssumption DEF RuntimeInv, RuntimeTypeOK, Steps, LockHeld, Holding, Installing,
     AboutToInstall, WholeOrUnusable, Kill, Goto, Working
<1>. QED
  BY <1>1, <1>2, <1>3, <1>4 DEF RuntimeInv

\* A new process starts with nothing.
LEMMA StartAgainKeeps ==
  ASSUME RuntimeInv, NEW p \in Installer, StartAgain(p)
  PROVE  RuntimeInv'
<1>1. RuntimeTypeOK'
  <2>1. runs[p] + 1 \in 1..MaxRuns
    BY RuntimeAssumption DEF RuntimeInv, RuntimeTypeOK, StartAgain
  <2>2. runs' \in [Installer -> 1..MaxRuns]
    BY <2>1 DEF RuntimeInv, RuntimeTypeOK, StartAgain
  <2>. QED
    BY <2>2, RuntimeAssumption DEF RuntimeInv, RuntimeTypeOK, Steps, StartAgain, Goto
<1>2. LockHeld'
  BY RuntimeAssumption DEF RuntimeInv, RuntimeTypeOK, Steps, LockHeld, Holding, Installing,
     StartAgain, Goto
<1>3. AboutToInstall'
  BY RuntimeAssumption DEF RuntimeInv, RuntimeTypeOK, Steps, LockHeld, Holding, Installing,
     AboutToInstall, WholeOrUnusable, StartAgain, Goto
<1>4. WholeOrUnusable'
  BY RuntimeAssumption DEF RuntimeInv, RuntimeTypeOK, Steps, LockHeld, Holding, Installing,
     AboutToInstall, WholeOrUnusable, StartAgain, Goto
<1>. QED
  BY <1>1, <1>2, <1>3, <1>4 DEF RuntimeInv
-----------------------------------------------------------------------------
\* A step of a process, of what kills it or starts it again, keeps the invariant.
LEMMA StepKeeps ==
  ASSUME RuntimeInv, Forcing = {}, [RuntimeNext]_runtimeVars
  PROVE  RuntimeInv'
<1>1. CASE UNCHANGED runtimeVars
  BY <1>1 DEF runtimeVars, RuntimeInv, RuntimeTypeOK, LockHeld, AboutToInstall, WholeOrUnusable
<1>2. ASSUME NEW p \in Installer, Proceed(p)
      PROVE  RuntimeInv'
  <2>1. CASE \E from \in {"fetch", "body"}, files \in {Files, Files \ {Exe}} : Fetch(p, from, files)
    BY <2>1, FetchKeeps
  <2>2. CASE Check(p) \/ Acquire(p) \/ GiveUp(p) \/ Recheck(p) \/ Headers(p)
    BY <2>2, CheckKeeps, AcquireKeeps, GiveUpKeeps, RecheckKeeps, HeadersKeeps
  <2>3. CASE Extract(p) \/ Verify(p) \/ RemoveOld(p) \/ Rename(p)
    BY <2>3, ExtractKeeps, VerifyKeeps, RemoveOldKeeps, RenameKeeps
  <2>4. CASE Throw(p) \/ Cleanup(p) \/ Release(p)
    BY <2>4, ThrowKeeps, CleanupKeeps, ReleaseKeeps
  <2>. QED
    BY <1>2, <2>1, <2>2, <2>3, <2>4 DEF Proceed
<1>3. ASSUME NEW p \in Installer, Kill(p) \/ StartAgain(p)
      PROVE  RuntimeInv'
  BY <1>3, KillKeeps, StartAgainKeeps
<1>. QED
  BY <1>1, <1>2, <1>3 DEF RuntimeNext

\* The invariant holds at the start, also over a directory that an older
\* installer left without an executable.
LEMMA StartsRight == RuntimeInit => RuntimeInv
<1>. SUFFICES ASSUME RuntimeInit
              PROVE  RuntimeInv
  OBVIOUS
<1>1. RuntimeTypeOK
  <2>1. 1 \in 1..MaxRuns
    BY RuntimeAssumption
  <2>. QED
    BY <2>1 DEF RuntimeInit, RuntimeTypeOK, Steps
<1>2. LockHeld /\ AboutToInstall
  BY RuntimeAssumption DEF RuntimeInit, LockHeld, Holding, Installing, AboutToInstall
<1>3. WholeOrUnusable
  BY RuntimeAssumption DEF RuntimeInit, WholeOrUnusable
<1>. QED
  BY <1>1, <1>2, <1>3 DEF RuntimeInv

\* ensureRuntime, whatever the processes do at the same time, wherever they
\* fail and whenever they are killed: the directory with the executable in it
\* is a whole runtime, and it is there when a process returns its path.
THEOREM RuntimeIsWhole ==
  ASSUME Forcing = {}
  PROVE  RuntimeSpec => []RuntimeInv
<1>1. RuntimeInv /\ [RuntimeNext]_runtimeVars => RuntimeInv'
  BY StepKeeps
<1>. QED
  BY <1>1, StartsRight, PTL DEF RuntimeSpec
-----------------------------------------------------------------------------
\* What the refinement mapping makes of the state.
Whole == IF runtimeDir = Files THEN "whole" ELSE "absent"
Told == {p \in Installer : step[p] = "returned"}

\* A whole runtime is not taken away, and it appears without any process
\* being told of it in the same step.
LEMMA DirectoryStep ==
  ASSUME RuntimeInv, NEW p \in Installer, RemoveOld(p) \/ Rename(p), RuntimeInv'
  PROVE  \/ UNCHANGED <<Whole, Told>>
         \/ Promise!Install
<1>1. step[p] \in Installing /\ Exe \notin runtimeDir
  BY DEF RuntimeInv, AboutToInstall, Installing, RemoveOld, Rename
<1>2. Whole = "absent"
  BY <1>1, RuntimeAssumption DEF Whole
<1>3. Told' = Told
  <2>1. step \in [Installer -> Steps] /\ step[p] # "returned" /\ step'[p] # "returned"
    BY DEF RuntimeInv, RuntimeTypeOK, RemoveOld, Rename, Goto
  <2>2. \A q \in Installer \ {p} : step'[q] = step[q]
    BY DEF RuntimeInv, RuntimeTypeOK, RemoveOld, Rename, Goto
  <2>. QED
    BY <2>1, <2>2 DEF Told
<1>4. Whole' \in {"absent", "whole"}
  BY DEF Whole
<1>. QED
  BY <1>2, <1>3, <1>4 DEF Promise!Install, Whole, Told

\* Every other step leaves the directory alone and takes one process into the
\* set of those that returned, out of it, or neither.
LEMMA OtherStep ==
  ASSUME RuntimeInv, RuntimeInv', NEW p \in Installer, UNCHANGED runtimeDir,
         NEW s \in Steps, step' = [step EXCEPT ![p] = s]
  PROVE  \/ UNCHANGED <<Whole, Told>>
         \/ Promise!Tell(p) \/ Promise!Forget(p)
<1>1. Whole' = Whole
  BY DEF Whole
<1>2. step \in [Installer -> Steps]
  BY DEF RuntimeInv, RuntimeTypeOK
<1>3. CASE s = "returned"
  <2>1. Told' = Told \cup {p}
    BY <1>2, <1>3 DEF Told
  <2>2. runtimeDir = Files
    BY <1>2, <1>3 DEF RuntimeInv, WholeOrUnusable
  <2>. QED
    BY <1>1, <2>1, <2>2 DEF Promise!Tell, Whole, Told
<1>4. CASE s # "returned"
  <2>1. Told' = Told \ {p}
    BY <1>2, <1>4 DEF Told
  <2>. QED
    BY <1>1, <2>1 DEF Promise!Forget, Whole, Told
<1>. QED
  BY <1>3, <1>4

\* Each step of the installation is one of Installed, or does not show there.
LEMMA StepImplements ==
  ASSUME RuntimeInv, RuntimeInv', [RuntimeNext]_runtimeVars
  PROVE  [Promise!InstalledNext]_<<Whole, Told>>
<1>1. CASE UNCHANGED runtimeVars
  BY <1>1 DEF runtimeVars, Whole, Told
<1>2. ASSUME NEW p \in Installer, RemoveOld(p) \/ Rename(p)
      PROVE  [Promise!InstalledNext]_<<Whole, Told>>
  BY <1>2, DirectoryStep DEF Promise!InstalledNext
<1>3. ASSUME NEW p \in Installer, UNCHANGED runtimeDir,
             \E s \in Steps : step' = [step EXCEPT ![p] = s]
      PROVE  [Promise!InstalledNext]_<<Whole, Told>>
  BY <1>3, OtherStep DEF Promise!InstalledNext
<1>4. ASSUME NEW p \in Installer, Proceed(p) \/ Kill(p) \/ StartAgain(p),
             ~(RemoveOld(p) \/ Rename(p))
      PROVE  UNCHANGED runtimeDir /\ \E s \in Steps : step' = [step EXCEPT ![p] = s]
  <2>1. step \in [Installer -> Steps] /\ step = [step EXCEPT ![p] = step[p]]
        /\ outcome[p] \in {"returned", "failed"}
    BY DEF RuntimeInv, RuntimeTypeOK
  <2>2. CASE \E from \in {"fetch", "body"}, files \in {Files, Files \ {Exe}} : Fetch(p, from, files)
    BY <2>2 DEF Fetch, Goto, Steps
  <2>3. CASE Check(p) \/ Acquire(p) \/ GiveUp(p) \/ Recheck(p) \/ Headers(p)
    BY <2>3 DEF Check, Acquire, GiveUp, Recheck, Headers, Goto, Steps
  <2>4. CASE Extract(p)
    BY <2>1, <2>4 DEF Extract, Goto, Steps
  <2>5. CASE Verify(p) \/ Throw(p) \/ Cleanup(p)
    BY <2>5 DEF Verify, Throw, Cleanup, Goto, Steps
  <2>6. CASE Release(p)
    BY <2>1, <2>6 DEF Release, Goto, Steps
  <2>7. CASE Kill(p) \/ StartAgain(p)
    BY <2>7 DEF Kill, StartAgain, Goto, Steps
  <2>. QED
    BY <1>4, <2>2, <2>3, <2>4, <2>5, <2>6, <2>7 DEF Proceed
<1>. QED
  BY <1>1, <1>2, <1>3, <1>4 DEF RuntimeNext

\* ensureRuntime keeps what Installed promises: the runtime appears as a whole,
\* stays, and no process returns its path before it is there.
THEOREM RuntimeRefines ==
  ASSUME Forcing = {}
  PROVE  RuntimeSpec => RuntimeImplements
<1>1. RuntimeInit => Promise!InstalledInit
  BY DEF RuntimeInit, Promise!InstalledInit
<1>2. RuntimeInv /\ RuntimeInv' /\ [RuntimeNext]_runtimeVars
        => [Promise!InstalledNext]_<<Whole, Told>>
  BY StepImplements
<1>. QED
  BY <1>1, <1>2, RuntimeIsWhole, PTL
     DEF RuntimeSpec, RuntimeImplements, Promise!InstalledSpec, Whole, Told
-----------------------------------------------------------------------------
(***************************************************************************)
(* CefInstall and NativeRebuild: what they leave as present is whole, for  *)
(* any items, header files, modules and numbers of starts, wherever they   *)
(* fail and are killed.                                                    *)
(***************************************************************************)
(* The items are split between their place and the temporary directory     *)
(* while they are moved, and only a forced run prepares a directory that   *)
(* is there already.                                                       *)
CefInv ==
  /\ cefStep \in CefSteps
  /\ extracted \subseteq Items /\ items \subseteq Items
  /\ ~cefDir => items = {}
  /\ cefStep \in {"download", "extract", "move", "finish"} => cefDir
  /\ cefStep = "prepare" /\ cefDir => forced
  /\ cefStep = "move" => items \cup extracted = Items
  /\ cefStep \in {"finish", "installed"} => items = Items

(* The headers are renamed into their place as a whole, before anything    *)
(* else is put there.                                                      *)
RebuildInv ==
  /\ HeadersWhole
  /\ nodeHeaders \subseteq Extractable
  /\ rebuildStep = "rename" => nodeHeaders = Extractable
-----------------------------------------------------------------------------
\* The installation begins with no item in place.
LEMMA CefInitInv == ASSUME CefInit PROVE CefInv
  BY DEF CefInit, CefInv, CefSteps

\* Only a forced run empties the directory of the webview.
LEMMA CefPrepareStep == ASSUME CefInv, CefPrepare PROVE CefInv' /\ CefKeepsItems
  <1>1. CASE zip = "none"
    BY <1>1 DEF CefInv, CefPrepare, CefSteps, CefKeepsItems
  <1>2. CASE zip # "none"
    <2>1. items' = {} /\ extracted' = {} /\ cefDir' = TRUE /\ cefStep' = "download"
      BY <1>2 DEF CefPrepare
    <2>2. CefKeepsItems
      BY <2>1 DEF CefInv, CefPrepare, CefKeepsItems
    <2> QED BY <2>1, <2>2 DEF CefInv, CefSteps
  <1> QED BY <1>1, <1>2

\* Moving one item takes it from the temporary directory to its place.
LEMMA CefMoveStep == ASSUME CefInv, CefMove PROVE CefInv' /\ CefKeepsItems
  <1> USE DEF CefInv, CefMove, CefSteps, CefKeepsItems
  <1>1. ASSUME NEW i \in extracted, items' = items \cup {i}, extracted' = extracted \ {i},
               UNCHANGED cefStep
        PROVE  CefInv' /\ CefKeepsItems
    BY <1>1
  <1>2. CASE extracted = {} /\ cefStep' = "finish" /\ UNCHANGED <<items, extracted>>
    BY <1>2
  <1>3. CASE cefStep' = "failed" /\ UNCHANGED <<items, extracted>>
    BY <1>3
  <1> QED BY <1>1, <1>2, <1>3

\* Every step of the installer keeps the invariant and the items.
LEMMA CefNextInv == ASSUME CefInv, [CefNext]_cefVars PROVE CefInv' /\ CefKeepsItems
  <1> USE DEF CefInv, CefSteps, CefEnded, CefKeepsItems
  <1>1. CASE CefCheck
    BY <1>1 DEF CefCheck, HasDownloadCefWebview
  <1>2. CASE CefPrepare
    BY <1>2, CefPrepareStep
  <1>3. CASE CefDownload
    BY <1>3 DEF CefDownload
  <1>4. CASE CefExtract
    BY <1>4 DEF CefExtract
  <1>5. CASE CefMove
    BY <1>5, CefMoveStep
  <1>6. CASE CefFinish
    BY <1>6 DEF CefFinish
  <1>7. CASE CefKilled
    BY <1>7 DEF CefKilled
  <1>8. CASE CefStartAgain
    BY <1>8 DEF CefStartAgain
  <1>9. CASE UNCHANGED cefVars
    BY <1>9 DEF cefVars
  <1> QED BY <1>1, <1>2, <1>3, <1>4, <1>5, <1>6, <1>7, <1>8, <1>9 DEF CefNext

\* Nothing has been rebuilt at first.
LEMMA RebuildInitInv == ASSUME RebuildInit PROVE RebuildInv
  BY DEF RebuildInit, RebuildInv, HeadersWhole, Extractable

\* Every step of the rebuild keeps headers whole.
LEMMA RebuildNextInv == ASSUME RebuildInv, [RebuildNext]_rebuildVars PROVE RebuildInv'
  <1> USE DEF RebuildInv, HeadersWhole, Extractable, RebuildEnded, fetchVars
  <1>1. CASE LookForHeaders
    BY <1>1 DEF LookForHeaders
  <1>2. CASE DownloadHeaders
    BY <1>2 DEF DownloadHeaders
  <1>3. CASE ExtractHeaders
    BY <1>3 DEF ExtractHeaders
  <1>4. CASE RenameHeaders
    BY <1>4 DEF RenameHeaders
  <1>5. CASE UnlinkZip
    BY <1>5 DEF UnlinkZip
  <1>6. CASE SeedNodeLib
    BY <1>6 DEF SeedNodeLib
  <1>7. CASE BuildModule
    BY <1>7 DEF BuildModule
  <1>8. CASE RebuildKilled
    BY <1>8 DEF RebuildKilled
  <1>9. CASE RebuildAgain
    BY <1>9 DEF RebuildAgain
  <1>10. CASE UNCHANGED rebuildVars
    BY <1>10 DEF rebuildVars
  <1> QED
    BY <1>1, <1>2, <1>3, <1>4, <1>5, <1>6, <1>7, <1>8, <1>9, <1>10 DEF RebuildNext, RebuildStep
-----------------------------------------------------------------------------
\* A step of the packages is a step or a stutter of each part.
LEMMA PartsStep ==
  ASSUME [PackagesNext]_pvars
  PROVE  [CefNext]_cefVars /\ [RebuildNext]_rebuildVars
  BY DEF PackagesNext, pvars

(* However often they are started, fail and are killed: the webview is     *)
(* whole when its script has ended (install.js), the directory that makes  *)
(* later rebuilds skip the download has all the headers                    *)
(* (lynxtron-rebuild/lib/index.js), and what is whole is only taken away   *)
(* by a forced installation.                                               *)
THEOREM InstalledWhole == PackagesSpec => InstalledIsWhole
  <1>1. PackagesInit => CefInv /\ RebuildInv
    BY CefInitInv, RebuildInitInv DEF PackagesInit
  <1>2. CefInv /\ RebuildInv /\ [PackagesNext]_pvars => (CefInv /\ RebuildInv)'
    BY PartsStep, CefNextInv, RebuildNextInv
  <1>3. CefInv /\ RebuildInv /\ [PackagesNext]_pvars =>
          [CefFinishedIsWhole' /\ HeadersWhole' /\ CefKeepsItems]_pvars
    BY PartsStep, CefNextInv, RebuildNextInv DEF CefInv, RebuildInv, CefFinishedIsWhole
  <1> QED BY <1>1, <1>2, <1>3, PTL DEF PackagesSpec, InstalledIsWhole
-----------------------------------------------------------------------------
(***************************************************************************)
(* AutoLink, for any packages, targets and artifacts and any number of     *)
(* edits: what the resolution, the staging, the entry and the packager     *)
(* make of one state of the packages fits together.                        *)
(*                                                                         *)
(* LinkInv is inductive.  Each result is tied to the count of edits at     *)
(* which it was made; the count only grows, so that a result which bears   *)
(* the present count was made from the present packages, and two that bear *)
(* the same count from the same ones.                                      *)
(***************************************************************************)
Compilers ==
  [phase : {"new", "failed", "applied", "stuck", "running", "emitted", "built"},
   target : Targets, applied : Nat, ran : Nat, stagedAt : Nat,
   libraries : SUBSET Packages, clean : BOOLEAN]

LinkTypeOK ==
  /\ dependencies \subseteq Packages
  /\ nodeModules \in [Packages -> Contents \cup {Absent}]
  /\ edits \in Nat
  /\ compiler \in Compilers
  /\ DOMAIN staged = Packages

Stamped ==
  /\ compiler.applied <= edits /\ compiler.ran <= edits /\ compiler.stagedAt <= edits

\* Aliases, generated module and entry, each while the step that uses it is ahead.
FromOneState ==
  /\ compiler.phase \in {"applied", "running", "emitted", "built", "stuck"} =>
       (compiler.applied = edits => aliases = ResolveAutoLinks(compiler.target))
  /\ compiler.phase = "running" =>
       (compiler.ran = edits => register = ResolveAutoLinks(compiler.target))
  /\ compiler.phase = "emitted" =>
       /\ compiler.ran = edits => bundle = ResolveAutoLinks(compiler.target)
       /\ compiler.clean => \A p \in Packages : staged[p] = Absent

\* The output, when afterEmit has staged the libraries.
Output ==
  compiler.phase = "built" =>
    /\ compiler.libraries \subseteq Packages
    /\ \A p \in compiler.libraries : staged[p].manifest.platforms
    /\ compiler.ran = compiler.stagedAt => bundle = compiler.libraries
    /\ compiler.ran = compiler.stagedAt /\ compiler.applied = compiler.stagedAt =>
         aliases = compiler.libraries
    /\ compiler.clean => \A p \in Packages \ compiler.libraries : staged[p] = Absent
    /\ compiler.stagedAt = edits =>
         /\ compiler.libraries = ResolveAutoLinks(compiler.target)
         /\ ~ResolveThrows(compiler.target)
         /\ \A p \in compiler.libraries : staged[p] = StageLibrary(p, compiler.target)

LinkInv == LinkTypeOK /\ Stamped /\ FromOneState /\ Output

\* What is resolved is installed and has a lynxtron record.
LEMMA ResolvedAreInstalled ==
  ASSUME LinkTypeOK, NEW t, NEW p \in ResolveAutoLinks(t)
  PROVE  p \in Packages /\ nodeModules[p].manifest.platforms
  BY DEF LinkTypeOK, ResolveAutoLinks, Matched

\* The installed contents, Absent among them, are of one form.
LEMMA InstalledContent ==
  ASSUME LinkTypeOK, NEW p \in Packages
  PROVE  IsContent(nodeModules[p])
<1>1. IsContent(Absent)
  <2>1. \A t \in Targets : IsFiniteSet(Absent.manifest.entries[t])
    BY FS_EmptySet DEF Absent
  <2>. QED  BY <2>1 DEF IsContent, IsManifest, Absent
<1>. QED  BY <1>1, AutoLinkAssumption DEF LinkTypeOK

\* A copy keeps the manifest and the entry.
LEMMA StagedContent ==
  ASSUME LinkTypeOK, NEW p \in Packages, NEW t
  PROVE  /\ StageLibrary(p, t).manifest = nodeModules[p].manifest
         /\ StageLibrary(p, t).entry = nodeModules[p].entry
         /\ StageLibrary(p, t).name = nodeModules[p].name
         /\ StageLibrary(p, t).present =
              Copied(Matched(nodeModules[p].manifest, t) \cap nodeModules[p].present)
<1>1. DOMAIN nodeModules[p] = {"manifest", "present", "entry", "name"}
  BY InstalledContent DEF IsContent, Absent
<1>. QED  BY <1>1 DEF StageLibrary

\* If no library throws, each is copied and the other directories are left.
LEMMA AllStaged ==
  ASSUME NEW L \in SUBSET Packages, NEW t, NEW some, \A p \in L : ~StageThrows(p, t)
  PROVE  /\ DOMAIN StageUpTo(L, t, some) = Packages
         /\ \A p \in L : StageUpTo(L, t, some)[p] = StageLibrary(p, t)
         /\ \A p \in Packages \ L : StageUpTo(L, t, some)[p] = staged[p]
  BY DEF StageUpTo

LEMMA LinkInitInv ==
  ASSUME AutoLinkInit
  PROVE  LinkInv
<1>1. compiler.phase = "new" /\ compiler.applied = 0 /\ compiler.ran = 0 /\ compiler.stagedAt = 0
  BY DEF AutoLinkInit
<1>2. compiler \in Compilers
  <2>1. PICK t \in Targets :
          compiler = [phase |-> "new", target |-> t, applied |-> 0, ran |-> 0, stagedAt |-> 0,
                      libraries |-> {}, clean |-> FALSE]
    BY DEF AutoLinkInit
  <2>. QED  BY <2>1 DEF Compilers
<1>. QED  BY <1>1, <1>2 DEF AutoLinkInit, LinkInv, LinkTypeOK, Stamped, FromOneState, Output

LEMMA ApplyKeeps ==
  ASSUME LinkInv, ApplyAutoLink
  PROVE  LinkInv'
<1>1. CASE ResolveThrows(compiler.target)
  BY <1>1 DEF ApplyAutoLink, Phase, LinkInv, LinkTypeOK, Stamped, FromOneState, Output, Compilers
<1>2. CASE ~ResolveThrows(compiler.target)
  <2>1. ResolveAutoLinks(compiler.target)' = ResolveAutoLinks(compiler.target)
    BY <1>2 DEF ApplyAutoLink, LinkInv, LinkTypeOK, Compilers, ResolveAutoLinks
  <2>2. /\ compiler' \in Compilers /\ compiler'.phase = "applied" /\ compiler'.applied = edits
        /\ compiler'.ran = compiler.ran /\ compiler'.stagedAt = compiler.stagedAt
    BY <1>2 DEF ApplyAutoLink, LinkInv, LinkTypeOK, Compilers
  <2>. QED
    BY <1>2, <2>1, <2>2 DEF ApplyAutoLink, LinkInv, LinkTypeOK, Stamped, FromOneState, Output
<1>. QED  BY <1>1, <1>2

LEMMA RegenerateKeeps ==
  ASSUME LinkInv, Regenerate
  PROVE  LinkInv'
<1>1. ResolveAutoLinks(compiler.target)' = ResolveAutoLinks(compiler.target)
  BY DEF Regenerate, Phase, LinkInv, LinkTypeOK, Compilers, ResolveAutoLinks
<1>2. /\ compiler' \in Compilers /\ compiler'.phase \in {"stuck", "running"}
      /\ compiler'.phase = "running" => register' = ResolveAutoLinks(compiler.target)
      /\ compiler'.target = compiler.target /\ compiler'.applied = compiler.applied
      /\ compiler'.stagedAt = compiler.stagedAt /\ compiler'.ran \in {compiler.ran, edits}
      /\ compiler.phase \in {"applied", "built", "stuck"}
  BY ZenonT(40) DEF Regenerate, Phase, LinkInv, LinkTypeOK, Compilers
<1>3. UNCHANGED <<dependencies, nodeModules, edits, aliases, bundle, staged>>
  BY DEF Regenerate
<1>. QED
  BY <1>1, <1>2, <1>3 DEF LinkInv, LinkTypeOK, Stamped, FromOneState, Output

LEMMA EmitKeeps ==
  ASSUME LinkInv, NEW clean \in BOOLEAN, EmitAssets(clean)
  PROVE  LinkInv'
<1>1. ResolveAutoLinks(compiler.target)' = ResolveAutoLinks(compiler.target)
  BY DEF EmitAssets, LinkInv, LinkTypeOK, Compilers, ResolveAutoLinks
<1>. QED
  BY <1>1 DEF EmitAssets, LinkInv, LinkTypeOK, Stamped, FromOneState, Output, Compilers

LEMMA StageKeeps ==
  ASSUME LinkInv, Stage
  PROVE  LinkInv'
<1>. DEFINE t == compiler.target
            L == ResolveAutoLinks(t)
<1>0. L \subseteq Packages /\ L' = L /\ t' = t /\ ResolveThrows(t)' = ResolveThrows(t)
  BY DEF Stage, Phase, LinkInv, LinkTypeOK, Compilers, ResolveAutoLinks, ResolveThrows
<1>1. CASE ResolveThrows(t)
  BY <1>0, <1>1 DEF Stage, Phase, LinkInv, LinkTypeOK, Stamped, FromOneState, Output, Compilers
<1>2. ASSUME ~ResolveThrows(t), \E p \in L : StageThrows(p, t)
      PROVE  LinkInv'
  <2>1. DOMAIN staged' = Packages
    BY <1>2 DEF Stage, StageUpTo
  <2>2. compiler' = [compiler EXCEPT !.phase = "stuck"]
    BY <1>2 DEF Stage, Phase
  <2>. QED
    BY <1>0, <2>1, <2>2 DEF Stage, LinkInv, LinkTypeOK, Stamped, FromOneState, Output, Compilers
<1>3. ASSUME ~ResolveThrows(t), \A p \in L : ~StageThrows(p, t)
      PROVE  LinkInv'
  <2>1. /\ DOMAIN staged' = Packages
        /\ \A p \in L : staged'[p] = StageLibrary(p, t)
        /\ \A p \in Packages \ L : staged'[p] = staged[p]
    BY <1>0, <1>3, AllStaged DEF Stage
  <2>2. compiler' = [compiler EXCEPT !.phase = "built", !.stagedAt = edits, !.libraries = L]
    BY <1>3 DEF Stage
  <2>3. \A p \in L : StageLibrary(p, t)' = StageLibrary(p, t)
    BY <1>0 DEF Stage, StageLibrary, LinkInv
  <2>4. \A p \in L : StageLibrary(p, t).manifest.platforms
    <3>. TAKE p \in L
    <3>1. p \in Packages /\ nodeModules[p].manifest.platforms
      BY ResolvedAreInstalled DEF LinkInv
    <3>. QED  BY <3>1, StagedContent DEF LinkInv
  <2>5. UNCHANGED <<dependencies, nodeModules, edits, register, aliases, bundle>>
        /\ compiler.phase = "emitted"
    BY DEF Stage
  <2>6. /\ compiler'.phase = "built" /\ compiler'.libraries = L /\ compiler'.stagedAt = edits
        /\ compiler'.target = t /\ compiler'.applied = compiler.applied
        /\ compiler'.ran = compiler.ran /\ compiler'.clean = compiler.clean
        /\ compiler' \in Compilers
    BY <1>0, <2>2 DEF LinkInv, LinkTypeOK, Compilers
  <2>7. LinkTypeOK' /\ Stamped'
    BY <2>1, <2>5, <2>6 DEF LinkInv, LinkTypeOK, Stamped, Compilers
  <2>8. FromOneState'
    BY <1>0, <2>5, <2>6 DEF LinkInv, FromOneState
  <2>9. Output'
    <3>1. \A p \in L : StageLibrary(p, t)' = staged'[p]
      BY <2>1, <2>3
    <3>. QED
      BY <1>0, <1>3, <2>1, <2>3, <2>4, <2>5, <2>6, <3>1 DEF LinkInv, FromOneState, Output
  <2>. QED  BY <2>7, <2>8, <2>9 DEF LinkInv
<1>. QED  BY <1>1, <1>2, <1>3

LEMMA EditsKeep ==
  ASSUME LinkInv,
         \/ \E t \in Targets : NewCompiler(t)
         \/ \E p \in Packages, needed \in BOOLEAN, c \in Contents \cup {Absent} :
               EditPackage(p, needed, c)
  PROVE  LinkInv'
<1>1. ASSUME NEW t \in Targets, NewCompiler(t)
      PROVE  LinkInv'
  <2>1. /\ compiler' \in Compilers /\ compiler'.phase = "new"
        /\ compiler'.applied = compiler.applied /\ compiler'.ran = compiler.ran
        /\ compiler'.stagedAt = compiler.stagedAt
        /\ compiler.applied \in Nat /\ compiler.ran \in Nat /\ compiler.stagedAt \in Nat
    BY <1>1 DEF NewCompiler, LinkInv, LinkTypeOK, Compilers
  <2>2. /\ UNCHANGED <<dependencies, nodeModules, register, bundle, staged>>
        /\ edits' = edits + 1
    BY <1>1 DEF NewCompiler
  <2>. QED
    BY <2>1, <2>2 DEF LinkInv, LinkTypeOK, Stamped, FromOneState, Output
<1>2. ASSUME NEW p \in Packages, NEW needed \in BOOLEAN, NEW c \in Contents \cup {Absent},
             EditPackage(p, needed, c)
      PROVE  LinkInv'
  <2>1. LinkTypeOK'
    BY <1>2 DEF EditPackage, LinkInv, LinkTypeOK
  <2>2. Stamped' /\ edits' > compiler.applied /\ edits' > compiler.ran
        /\ edits' > compiler.stagedAt
    BY <1>2 DEF EditPackage, LinkInv, LinkTypeOK, Stamped, Compilers
  <2>3. FromOneState' /\ Output'
    BY <1>2, <2>1, <2>2 DEF EditPackage, LinkInv, LinkTypeOK, Compilers, FromOneState, Output
  <2>. QED  BY <2>1, <2>2, <2>3 DEF LinkInv
<1>. QED  BY <1>1, <1>2

\* The packager refuses a staged library only where it reads it differently, or for an artifact
\* that is not in the output.
LEMMA RefusedForItsOwnReason ==
  ASSUME LinkInv, NEW t \in Targets, NEW p \in ResolveAutoLinks(t), ~ResolveThrows(t),
         staged[p] = StageLibrary(p, t), PackagingRefuses(p, t)
  PROVE  LET c == nodeModules[p]
         IN  \/ c.name = "" \/ "null" \in c.manifest.flaws
             \/ \E x \in c.manifest.entries[t] : \E a \in x.arts :
                  \/ a \notin c.present \/ Shape[a] = "skipped" \/ ~Understood(x.spelled[a])
                  \/ Shape[a] = "link" /\ ~OnDisk(staged[p], a)
<1>. DEFINE c == nodeModules[p]
            m == c.manifest
<1>1. p \in Packages /\ m.platforms
  BY ResolvedAreInstalled DEF LinkInv
<1>2. staged[p].manifest = m /\ staged[p].name = c.name
      /\ staged[p].present = Copied(Matched(m, t) \cap c.present)
  BY <1>1, StagedContent DEF LinkInv
<1>3. ~Refused(m, t)
  BY DEF ResolveThrows, ResolveAutoLinks
<1>4. IsFiniteSet(m.entries[t])
  BY <1>1, InstalledContent DEF LinkInv, IsContent, IsManifest
<1>5. m.entries[t] # {}
  BY DEF ResolveAutoLinks, Matched
<1>6. Cardinality(m.entries[t]) = 1
  BY <1>1, <1>3, <1>4, <1>5, FS_CardinalityType, FS_EmptySet DEF Refused
<1>7. PICK x : m.entries[t] = {x}
  BY <1>6, <1>4, FS_Singleton
<1>8. Matched(m, t) = x.arts /\ x.arts # {}
  BY <1>1, <1>7 DEF Matched, ResolveAutoLinks
<1>9. /\ ~x.odd /\ ~(x.frameworks /\ t \notin Apple)
      /\ m.flaws \cap {"schema", "null"} # {} => "null" \in m.flaws
  BY <1>1, <1>3, <1>7 DEF Refused
<1>10. CASE c.name = "" \/ "null" \in m.flaws
  BY <1>10
<1>11. ASSUME c.name # "", "null" \notin m.flaws
       PROVE  \E a \in x.arts : ~Understood(x.spelled[a]) \/ ~OnDisk(staged[p], a)
  BY <1>2, <1>6, <1>7, <1>8, <1>9, <1>11 DEF PackagingRefuses
<1>12. ASSUME NEW a \in x.arts, a \in c.present, Shape[a] # "skipped", ~OnDisk(staged[p], a)
       PROVE  Shape[a] = "link"
  BY <1>2, <1>8, <1>12 DEF OnDisk, Copied
<1>. QED  BY <1>7, <1>10, <1>11, <1>12

LEMMA LinkInvImplies ==
  ASSUME LinkInv
  PROVE  StagingAgrees
<1>1. StagedIsPackaged
  <2>. SUFFICES ASSUME compiler.phase = "built", compiler.stagedAt = edits,
                       NEW p \in compiler.libraries, PackagingRefuses(p, compiler.target)
                PROVE  LET c == nodeModules[p]
                       IN  \/ c.name = "" \/ "null" \in c.manifest.flaws
                           \/ \E x \in c.manifest.entries[compiler.target] : \E a \in x.arts :
                                \/ a \notin c.present \/ Shape[a] = "skipped"
                                \/ ~Understood(x.spelled[a])
                                \/ Shape[a] = "link" /\ ~OnDisk(staged[p], a)
    BY DEF StagedIsPackaged
  <2>1. /\ compiler.target \in Targets /\ p \in ResolveAutoLinks(compiler.target)
        /\ ~ResolveThrows(compiler.target) /\ staged[p] = StageLibrary(p, compiler.target)
    BY DEF LinkInv, LinkTypeOK, Compilers, Output
  <2>. QED  BY <2>1, RefusedForItsOwnReason
<1>2. BuiltFromOneState
  <2>0. ~Absent.manifest.platforms
    BY DEF Absent
  <2>1. \A p \in Packages : staged[p].manifest.platforms => staged[p] # Absent
    BY <2>0
  <2>2. ASSUME compiler.phase = "built", compiler.ran = compiler.stagedAt,
               compiler.stagedAt = edits, \A p \in bundle : nodeModules[p].entry
        PROVE  AppStarts
    BY <2>1, <2>2, StagedContent, ZenonT(40) DEF LinkInv, Output, AppStarts, Loads
  <2>. QED
    BY <2>1, <2>2 DEF LinkInv, Output, BuiltFromOneState
<1>3. LeftOutIsLoaded
  <2>1. ~Absent.manifest.platforms
    BY DEF Absent
  <2>2. compiler.phase = "built" /\ compiler.clean /\ compiler.ran = compiler.stagedAt =>
          Discovered \subseteq bundle
    BY <2>1 DEF LinkInv, Output, Discovered
  <2>. QED
    BY <2>2 DEF LeftOutIsLoaded, LeftOut
<1>. QED  BY <1>1, <1>2, <1>3 DEF StagingAgrees

\* What AutoLink resolves, stages, loads and packages from one state of the packages fits
\* together (StagingAgrees of the run packages).
THEOREM StagedFitsTogether == AutoLinkSpec => []StagingAgrees
<1>1. AutoLinkInit => LinkInv
  BY LinkInitInv
<1>2. LinkInv /\ [AutoLinkNext]_autoLinkVars => LinkInv'
  <2>1. LinkInv /\ UNCHANGED autoLinkVars => LinkInv'
    BY DEF autoLinkVars, LinkInv, LinkTypeOK, Stamped, FromOneState, Output, ResolveAutoLinks,
       ResolveThrows, StageLibrary
  <2>. QED
    BY <2>1, ApplyKeeps, RegenerateKeeps, EmitKeeps, StageKeeps, EditsKeep DEF AutoLinkNext
<1>3. LinkInv => StagingAgrees
  BY LinkInvImplies
<1>. QED  BY <1>1, <1>2, <1>3, PTL DEF AutoLinkSpec
-----------------------------------------------------------------------------
(***************************************************************************)
(* The builder, for any architectures, configurations and command lines:   *)
(* the packages are those asked for, each with the runtime of its own      *)
(* architecture where the builder says which one that is.                  *)
(*                                                                         *)
(* BuilderInv is inductive: a run is a function of its element of the      *)
(* plan, and the packages are what the runs of the elements that left the  *)
(* plan make.  What one run makes is a lemma for each kind of element.     *)
(***************************************************************************)
\* The run that RunBuild(arch) starts.
RunOf(arch) ==
  LET a == ResolveArchitecture(arch, flags.archs, yaml)
      applies == arch # "all" \/ Len(flags.archs) = 1
  IN  [config |-> IF applies THEN ApplyArchitecture(yaml, a, arch # "all") ELSE yaml,
       flags |-> IF arch = "all" THEN ToSet(flags.archs) ELSE {arch},
       runtime |-> a]

Asked == BuildPlan(flags, yaml)

BuilderTypeOK ==
  /\ yaml \in BuilderConfigs
  /\ flags \in [archs : CommandLines, universal : BOOLEAN, darwin : BOOLEAN]
  /\ builderStep \in {"plan", "run", "spawned", "merge", "cleanup", "failed", "done"}

\* The plan only shrinks, and is empty when the build goes on to its end.
Planned ==
  /\ builderStep # "plan" => plan \subseteq Asked /\ universal = IsUniversal(flags, yaml)
  /\ builderStep \in {"merge", "cleanup", "done"} => plan = {}
  /\ builderStep = "merge" => universal

\* What was made is what the runs that were started made.
Packaged ==
  /\ builderStep = "plan" => made = {}
  /\ \A m \in made : \/ \E arch \in Asked : m \in ElectronBuilder(RunOf(arch))
                     \/ IsUniversal(flags, yaml) /\ m \in ElectronBuilder(MergeRun)
  /\ builderStep = "spawned" => \E arch \in Asked : running = RunOf(arch)
  /\ builderStep \in {"run", "merge", "cleanup", "done"} =>
       \A arch \in Asked \ plan : ElectronBuilder(RunOf(arch)) \subseteq made
  /\ builderStep = "spawned" =>
       \A arch \in Asked \ plan :
          running = RunOf(arch) \/ ElectronBuilder(RunOf(arch)) \subseteq made
  /\ builderStep \in {"cleanup", "done"} /\ IsUniversal(flags, yaml) =>
       ElectronBuilder(MergeRun) \subseteq made

BuilderInv == BuilderTypeOK /\ Planned /\ Packaged

\* What a run makes, of each target and of none.
TargetsOf(r) == {t \in r.config.targets : ~Bare(t)}
Others(r) == CASE r.flags # {} -> r.flags
               [] r.flags = {} /\ r.config.defaults # {} -> r.config.defaults
               [] OTHER -> {HostArch}
ArchsOf(r, t) == IF t.archs = {} THEN Others(r) ELSE t.archs
Anyway(r) == IF TargetsOf(r) = {} THEN Others(r) ELSE r.flags
MadeOf(r, t) == {[target |-> t.name, arch |-> a, runtime |-> r.runtime] : a \in ArchsOf(r, t)}
MadeAnyway(r) ==
  {[target |-> "default", arch |-> a, runtime |-> r.runtime] :
     a \in {b \in Anyway(r) : \A t \in TargetsOf(r) : b \notin ArchsOf(r, t)}}

LEMMA ElectronBuilderMakes ==
  ASSUME NEW r
  PROVE  /\ \A m \in ElectronBuilder(r) :
              /\ m.runtime = r.runtime
              /\ \/ \E t \in TargetsOf(r) : m.target = t.name /\ m.arch \in ArchsOf(r, t)
                 \/ m.target = "default" /\ m.arch \in Anyway(r)
         /\ \A t \in TargetsOf(r) : \A x \in ArchsOf(r, t) : \E m \in ElectronBuilder(r) : m.arch = x
         /\ \A x \in Anyway(r) : \E m \in ElectronBuilder(r) : m.arch = x
<1>1. \A m : m \in ElectronBuilder(r) <=> (\E t \in TargetsOf(r) : m \in MadeOf(r, t)) \/ m \in MadeAnyway(r)
  <2>1. ElectronBuilder(r) = MadeAnyway(r) \cup UNION {MadeOf(r, t) : t \in TargetsOf(r)}
    BY Zenon DEF ElectronBuilder, TargetsOf, Others, ArchsOf, Anyway, MadeOf, MadeAnyway
  <2>. QED  BY <2>1
<1>2. \A t \in TargetsOf(r) : \A x \in ArchsOf(r, t) : \E m \in ElectronBuilder(r) : m.arch = x
  <2>. SUFFICES ASSUME NEW t \in TargetsOf(r), NEW x \in ArchsOf(r, t)
                PROVE  \E m \in ElectronBuilder(r) : m.arch = x
    OBVIOUS
  <2>1. \E m \in MadeOf(r, t) : m.arch = x
    <3>1. [target |-> t.name, arch |-> x, runtime |-> r.runtime] \in MadeOf(r, t)
      BY DEF MadeOf
    <3>. QED  BY <3>1
  <2>. QED  BY <1>1, <2>1
<1>3. \A x \in Anyway(r) : \E m \in ElectronBuilder(r) : m.arch = x
  <2>. SUFFICES ASSUME NEW x \in Anyway(r)  PROVE \E m \in ElectronBuilder(r) : m.arch = x
    OBVIOUS
  <2>1. ASSUME \A t \in TargetsOf(r) : x \notin ArchsOf(r, t)  PROVE \E m \in MadeAnyway(r) : m.arch = x
    <3>1. [target |-> "default", arch |-> x, runtime |-> r.runtime] \in MadeAnyway(r)
      BY <2>1 DEF MadeAnyway
    <3>. QED  BY <3>1
  <2>. QED  BY <1>1, <1>2, <2>1
<1>4. \A t : \A m \in MadeOf(r, t) : m.runtime = r.runtime /\ m.target = t.name /\ m.arch \in ArchsOf(r, t)
  BY DEF MadeOf
<1>5. \A m \in MadeAnyway(r) : m.runtime = r.runtime /\ m.target = "default" /\ m.arch \in Anyway(r)
  BY DEF MadeAnyway
<1>. QED  BY <1>1, <1>2, <1>3, <1>4, <1>5

\* A text target of the configuration whose own architecture a package has.
TextTakes(m) == \E t \in yaml.targets : t.name = m.target /\ t.text /\ m.arch \in t.archs

\* After applyArchitecture the targets name the architecture or none, or are texts as they were.
LEMMA AppliedTargets ==
  ASSUME NEW c, IsConfig(c), NEW a, NEW filter \in BOOLEAN
  PROVE  \A t \in ApplyArchitecture(c, a, filter).targets :
           \/ t.archs \in {{}, {a}}
           \/ t.text /\ \E u \in c.targets : u.text /\ u.name = t.name /\ u.archs = t.archs
<1>. SUFFICES ASSUME NEW u \in c.targets, NEW t,
                     t = [u EXCEPT !.archs = IF u.text \/ @ = {} THEN @ ELSE {a}]
              PROVE  \/ t.archs \in {{}, {a}}
                     \/ t.text /\ u.text /\ u.name = t.name /\ u.archs = t.archs
  BY DEF ApplyArchitecture
<1>1. DOMAIN u = {"name", "archs", "text"}
  BY DEF IsConfig
<1>. QED  BY <1>1

\* A run for which the architecture was applied.
LEMMA AppliedRun ==
  ASSUME NEW a, NEW r, r.flags = {a}, r.runtime = a,
         \A t \in r.config.targets :
           \/ t.archs \in {{}, {a}}
           \/ t.text /\ \E u \in yaml.targets : u.text /\ u.name = t.name /\ u.archs = t.archs
  PROVE  /\ \A m \in ElectronBuilder(r) : m.runtime = a /\ (m.arch = a \/ TextTakes(m))
         /\ \E m \in ElectronBuilder(r) : m.arch = a
<1>1. Others(r) = {a} /\ a \in Anyway(r) /\ \A x \in Anyway(r) : x = a
  BY DEF Others, Anyway
<1>2. \A t \in TargetsOf(r) : t \in r.config.targets /\ \A x \in ArchsOf(r, t) : x = a \/ x \in t.archs
  BY <1>1 DEF TargetsOf, ArchsOf
<1>3. ASSUME NEW m, NEW t \in r.config.targets, t.name = m.target, m.arch \in t.archs
      PROVE  m.arch = a \/ TextTakes(m)
  BY <1>3 DEF TextTakes
<1>4. ASSUME NEW m \in ElectronBuilder(r)
      PROVE  m.runtime = a /\ (m.arch = a \/ TextTakes(m))
  BY <1>1, <1>2, <1>3, ElectronBuilderMakes
<1>5. \E m \in ElectronBuilder(r) : m.arch = a
  BY <1>1, ElectronBuilderMakes
<1>. QED  BY <1>4, <1>5

\* The run for the merged application makes it, and what the targets name of their own.
LEMMA MergeMakes ==
  /\ \A m \in ElectronBuilder(MergeRun) :
       /\ m.runtime = "universal"
       /\ m.arch = "universal" \/ \E t \in yaml.targets : t.name = m.target /\ m.arch \in t.archs
  /\ \E m \in ElectronBuilder(MergeRun) : m.arch = "universal"
<1>. DEFINE r == MergeRun
<1>1. r.flags = {"universal"} /\ r.runtime = "universal" /\ r.config = yaml
  BY DEF MergeRun
<1>. HIDE DEF r
<1>2. Others(r) = {"universal"} /\ Anyway(r) = {"universal"}
  BY <1>1 DEF Others, Anyway
<1>3. \A t \in TargetsOf(r) : t \in yaml.targets /\
        \A x \in ArchsOf(r, t) : x = "universal" \/ x \in t.archs
  BY <1>1, <1>2 DEF TargetsOf, ArchsOf
<1>4. /\ \A m \in ElectronBuilder(r) :
           /\ m.runtime = "universal"
           /\ m.arch = "universal" \/ \E t \in yaml.targets : t.name = m.target /\ m.arch \in t.archs
      /\ \E m \in ElectronBuilder(r) : m.arch = "universal"
  BY <1>1, <1>2, <1>3, ElectronBuilderMakes
<1>. QED  BY <1>4 DEF r

\* Sets of architectures are finite, a command line is a sequence without repetitions.
LEMMA FiniteArchitectures ==
  ASSUME NEW S, S \subseteq Archs \cup {"universal"}
  PROVE  IsFiniteSet(S)
<1>1. IsFiniteSet(Archs \cup {"universal"})
  BY FS_Singleton, FS_Union, BuilderAssumption
<1>. QED  BY <1>1, FS_Subset

LEMMA AtMostOne ==
  ASSUME NEW S, S \subseteq Archs \cup {"universal"}, ~(Cardinality(S) > 1), S # {}
  PROVE  Cardinality(S) = 1 /\ \E a \in S : S = {a}
<1>1. IsFiniteSet(S) /\ Cardinality(S) \in Nat
  BY FiniteArchitectures, FS_CardinalityType
<1>2. Cardinality(S) # 0
  BY <1>1, FS_EmptySet
<1>3. Cardinality(S) = 1
  BY <1>1, <1>2
<1>. QED  BY <1>1, <1>3, FS_Singleton

LEMMA CommandLine ==
  ASSUME BuilderTypeOK
  PROVE  /\ flags.archs \in Seq(Archs) /\ IsInjective(flags.archs) /\ IsConfig(yaml)
         /\ ToSet(flags.archs) \subseteq Archs
         /\ ConfiguredArchs(yaml) \subseteq Archs \cup {"universal"}
<1>1. flags.archs \in Seq(Archs) /\ IsInjective(flags.archs) /\ IsConfig(yaml)
  BY BuilderAssumption DEF BuilderTypeOK
<1>2. ToSet(flags.archs) \subseteq Archs
  BY <1>1 DEF ToSet
<1>3. ConfiguredArchs(yaml) \subseteq Archs \cup {"universal"}
  BY <1>1 DEF ConfiguredArchs, NamedArchs, IsConfig
<1>. QED  BY <1>1, <1>2, <1>3

\* A command line of at most one architecture.
LEMMA OneOnCommandLine ==
  ASSUME BuilderTypeOK, ~(Cardinality(ToSet(flags.archs)) > 1), flags.archs # <<>>
  PROVE  /\ Len(flags.archs) = 1 /\ Head(flags.archs) \in Archs
         /\ ToSet(flags.archs) = {Head(flags.archs)}
<1>. DEFINE l == flags.archs
<1>1. l \in Seq(Archs) /\ IsInjective(l) /\ ToSet(l) \subseteq Archs
  BY CommandLine
<1>2. Len(l) \in Nat \ {0} /\ 1 \in DOMAIN l /\ DOMAIN l = 1..Len(l) /\ Head(l) = l[1]
  BY <1>1
<1>3. Head(l) \in ToSet(l)
  BY <1>2 DEF ToSet
<1>4. PICK a : ToSet(l) = {a}
  BY <1>1, <1>3, AtMostOne
<1>5. ToSet(l) = {Head(l)}
  BY <1>3, <1>4
<1>6. Len(l) \in Nat /\ Len(l) # 0
  BY <1>2
<1>7. ASSUME Len(l) > 1  PROVE FALSE
  <2>1. 2 \in 1..Len(l)
    BY <1>6, <1>7
  <2>2. 2 \in DOMAIN l
    BY <1>2, <2>1
  <2>3. l[1] = a /\ l[2] = a
    BY <1>2, <1>4, <2>2 DEF ToSet
  <2>. QED  BY <1>1, <1>2, <2>2, <2>3 DEF IsInjective
<1>8. Len(l) = 1
  <2>. DEFINE n == Len(l)
  <2>1. n \in Nat /\ n # 0 /\ ~(n > 1)
    BY <1>6, <1>7
  <2>. HIDE DEF n
  <2>2. n = 1
    BY <2>1
  <2>. QED  BY <2>2 DEF n
<1>. QED  BY <1>1, <1>3, <1>5, <1>8

\* The plan: the architectures asked for, or one run without an architecture.
LEMMA ThePlan ==
  ASSUME BuilderTypeOK, Sensible
  PROVE  /\ IsUniversal(flags, yaml) => Asked = {"x64", "arm64"}
         /\ "all" \notin Asked /\ ~IsUniversal(flags, yaml) =>
              Asked = IF flags.archs # <<>> THEN ToSet(flags.archs) ELSE ConfiguredArchs(yaml)
         /\ "all" \in Asked =>
              /\ Asked = {"all"} /\ ~IsUniversal(flags, yaml)
              /\ flags.archs # <<>> => /\ Len(flags.archs) = 1 /\ Head(flags.archs) \in Archs
                                       /\ ToSet(flags.archs) = {Head(flags.archs)}
              /\ flags.archs = <<>> =>
                   /\ "universal" \notin ConfiguredArchs(yaml)
                   /\ \/ ConfiguredArchs(yaml) = {} /\ Cardinality(ConfiguredArchs(yaml)) # 1
                      \/ /\ Cardinality(ConfiguredArchs(yaml)) = 1
                         /\ \E a \in Archs : ConfiguredArchs(yaml) = {a}
<1>. DEFINE named == IF flags.archs # <<>> THEN ToSet(flags.archs)
                     ELSE ConfiguredArchs(yaml) \ {"universal"}
<1>1. "all" \notin {"x64", "arm64"} /\ "all" \notin named
  BY CommandLine, BuilderAssumption
<1>2. CASE IsUniversal(flags, yaml)
  BY <1>1, <1>2 DEF Asked, BuildPlan
<1>3. ASSUME ~IsUniversal(flags, yaml), Cardinality(named) > 1
      PROVE  "all" \notin Asked /\ Asked = named
  BY <1>1, <1>3 DEF Asked, BuildPlan
<1>4. ASSUME ~IsUniversal(flags, yaml), ~(Cardinality(named) > 1)
      PROVE  Asked = {"all"}
  BY <1>4 DEF Asked, BuildPlan
<1>5. ASSUME ~IsUniversal(flags, yaml), flags.archs = <<>>
      PROVE  "universal" \notin ConfiguredArchs(yaml) /\ named = ConfiguredArchs(yaml)
  BY <1>5 DEF IsUniversal, Sensible
<1>6. ASSUME ~IsUniversal(flags, yaml), ~(Cardinality(named) > 1), flags.archs = <<>>
      PROVE  \/ ConfiguredArchs(yaml) = {} /\ Cardinality(ConfiguredArchs(yaml)) # 1
             \/ /\ Cardinality(ConfiguredArchs(yaml)) = 1
                /\ \E a \in Archs : ConfiguredArchs(yaml) = {a}
  <2>1. named = ConfiguredArchs(yaml) /\ "universal" \notin ConfiguredArchs(yaml)
    BY <1>5, <1>6
  <2>2. CASE ConfiguredArchs(yaml) = {}
    BY <2>2, FS_EmptySet
  <2>3. CASE ConfiguredArchs(yaml) # {}
    BY <1>6, <2>1, <2>3, AtMostOne, CommandLine
  <2>. QED  BY <2>2, <2>3
<1>. QED  BY <1>1, <1>2, <1>3, <1>4, <1>5, <1>6, OneOnCommandLine

\* A run for one architecture makes packages of it, with its runtime.
LEMMA RunMakesOne ==
  ASSUME BuilderTypeOK, NEW arch \in Asked, arch # "all"
  PROVE  /\ \A m \in ElectronBuilder(RunOf(arch)) : m.runtime = arch /\ (m.arch = arch \/ TextTakes(m))
         /\ \E m \in ElectronBuilder(RunOf(arch)) : m.arch = arch
<1>. DEFINE r == RunOf(arch)
            f == arch # "all"
<1>1. r.flags = {arch} /\ r.runtime = arch /\ r.config = ApplyArchitecture(yaml, arch, f)
  BY DEF RunOf, ResolveArchitecture
<1>2. \A t \in r.config.targets :
        \/ t.archs \in {{}, {arch}}
        \/ t.text /\ \E u \in yaml.targets : u.text /\ u.name = t.name /\ u.archs = t.archs
  <2>1. f \in BOOLEAN /\ IsConfig(yaml)
    BY CommandLine
  <2>. HIDE DEF r, f
  <2>. QED  BY <1>1, <2>1, AppliedTargets
<1>. HIDE DEF r, f
<1>3. /\ \A m \in ElectronBuilder(r) : m.runtime = arch /\ (m.arch = arch \/ TextTakes(m))
      /\ \E m \in ElectronBuilder(r) : m.arch = arch
  BY <1>1, <1>2, AppliedRun
<1>. QED  BY <1>3 DEF r

\* So does the one run for a command line of one architecture.
LEMMA RunMakesNamed ==
  ASSUME BuilderTypeOK, Sensible, "all" \in Asked, flags.archs # <<>>
  PROVE  LET a == Head(flags.archs)
         IN  /\ \A m \in ElectronBuilder(RunOf("all")) : m.runtime = a /\ (m.arch = a \/ TextTakes(m))
             /\ \E m \in ElectronBuilder(RunOf("all")) : m.arch = a
<1>. DEFINE a == Head(flags.archs)
            r == RunOf("all")
            f == "all" # "all"
<1>1. Len(flags.archs) = 1 /\ ToSet(flags.archs) = {a}
  BY ThePlan
<1>2. r.flags = {a} /\ r.runtime = a /\ r.config = ApplyArchitecture(yaml, a, f)
  BY <1>1 DEF RunOf, ResolveArchitecture
<1>3. \A t \in r.config.targets :
        \/ t.archs \in {{}, {a}}
        \/ t.text /\ \E u \in yaml.targets : u.text /\ u.name = t.name /\ u.archs = t.archs
  <2>1. f \in BOOLEAN /\ IsConfig(yaml)
    BY CommandLine
  <2>. HIDE DEF a, r, f
  <2>. QED  BY <1>2, <2>1, AppliedTargets
<1>. HIDE DEF a, r, f
<1>4. /\ \A m \in ElectronBuilder(r) : m.runtime = a /\ (m.arch = a \/ TextTakes(m))
      /\ \E m \in ElectronBuilder(r) : m.arch = a
  BY <1>2, <1>3, AppliedRun
<1>. QED  BY <1>4 DEF a, r

\* The one run without an architecture, for a configuration of at most one: what is left to
\* electron-builder is built for the default or the host.
LEMMA RunMakesConfigured ==
  ASSUME BuilderTypeOK, Sensible, "all" \in Asked, flags.archs = <<>>
  PROVE  LET C == ConfiguredArchs(yaml)
         IN  /\ \A m \in ElectronBuilder(RunOf("all")) :
                  \/ m.runtime = m.arch \/ TextTakes(m)
                  \/ /\ C = {m.runtime}
                     /\ \/ \E t \in yaml.targets : t.name = m.target /\ t.archs = {}
                        \/ yaml.targets = {} /\ yaml.defaults = {}
             /\ \/ \A a \in C : \E m \in ElectronBuilder(RunOf("all")) : m.arch = a
                \/ /\ C = yaml.defaults \cup yaml.legacy /\ Cardinality(C) = 1
                   /\ yaml.defaults = {} \/ \A t \in yaml.targets : t.archs # {}
<1>. DEFINE r == RunOf("all")
            C == ConfiguredArchs(yaml)
            others == IF yaml.defaults # {} THEN yaml.defaults ELSE {HostArch}
            named == NamedArchs(yaml)
<1>1. ToSet(flags.archs) = {} /\ Len(flags.archs) # 1
  BY DEF ToSet
<1>2. r.config = yaml /\ r.flags = {} /\ r.runtime = ResolveArchitecture("all", <<>>, yaml)
  BY <1>1 DEF RunOf
<1>3. /\ "universal" \notin C
      /\ \/ C = {} /\ r.runtime = HostArch
         \/ Cardinality(C) = 1 /\ C = {r.runtime}
  <2>1. CASE C = {} /\ Cardinality(C) # 1
    BY <1>2, <2>1, ThePlan DEF ResolveArchitecture
  <2>2. CASE Cardinality(C) = 1 /\ \E a \in Archs : C = {a}
    <3>1. PICK a \in Archs : C = {a}
      BY <2>2
    <3>2. (CHOOSE x \in C : TRUE) = a
      BY <3>1
    <3>3. r.runtime = a
      BY <1>2, <2>2, <3>2 DEF ResolveArchitecture
    <3>. QED  BY <2>2, <3>1, <3>3, ThePlan
  <2>. QED  BY <2>1, <2>2, ThePlan
<1>4. C = IF named # {} THEN named ELSE yaml.defaults \cup yaml.legacy
  BY DEF ConfiguredArchs
<1>5. \A t \in yaml.targets : ~Bare(t) /\ (t.text \/ t.archs \subseteq named)
  <2>1. ASSUME NEW t \in yaml.targets, Bare(t)  PROVE "universal" \in named
    BY <2>1 DEF NamedArchs
  <2>2. ASSUME NEW t \in yaml.targets, ~Bare(t), ~t.text  PROVE t.archs \subseteq named
    BY <2>2 DEF NamedArchs
  <2>. QED  BY <1>3, <1>4, <2>1, <2>2
<1>6. \A a \in named : \E t \in yaml.targets : a \in t.archs
  <2>. SUFFICES ASSUME NEW t \in yaml.targets, NEW a \in IF Bare(t) THEN {"universal"} ELSE t.archs
                PROVE  a \in t.archs
    BY DEF NamedArchs
  <2>. QED  BY <1>5
<1>. HIDE DEF r, C, named
<1>7. /\ TargetsOf(r) = yaml.targets /\ Others(r) = others
      /\ Anyway(r) = IF yaml.targets = {} THEN others ELSE {}
  BY <1>2, <1>5 DEF TargetsOf, Others, Anyway
<1>8. ASSUME NEW m \in ElectronBuilder(r)
      PROVE  \/ m.runtime = m.arch \/ TextTakes(m)
             \/ /\ C = {m.runtime}
                /\ \/ \E t \in yaml.targets : t.name = m.target /\ t.archs = {}
                   \/ yaml.targets = {} /\ yaml.defaults = {}
  <2>1. /\ m.runtime = r.runtime
        /\ \/ \E t \in yaml.targets : m.target = t.name /\ m.arch \in ArchsOf(r, t)
           \/ yaml.targets = {} /\ m.arch \in others
    BY <1>7, ElectronBuilderMakes
  <2>2. ASSUME NEW t \in yaml.targets, m.target = t.name, m.arch \in t.archs
        PROVE  m.runtime = m.arch \/ TextTakes(m)
    <3>1. CASE t.text
      BY <2>2, <3>1 DEF TextTakes
    <3>2. CASE ~t.text
      BY <1>3, <1>4, <1>5, <2>1, <2>2, <3>2
    <3>. QED  BY <3>1, <3>2
  <2>3. ASSUME m.arch \in others  PROVE m.runtime = m.arch \/ C = {m.runtime}
    BY <1>3, <1>4, <2>1, <2>3
  <2>4. ASSUME m.arch \in others, yaml.targets = {}, yaml.defaults # {}
        PROVE  m.runtime = m.arch
    <3>1. named = {}
      BY <1>6, <2>4
    <3>. QED  BY <1>3, <1>4, <2>1, <2>4, <3>1
  <2>5. ASSUME NEW t \in yaml.targets, m.target = t.name, m.arch \in ArchsOf(r, t)
        PROVE  \/ m.arch \in t.archs
               \/ m.arch \in others /\ t.name = m.target /\ t.archs = {}
    BY <1>7, <2>5 DEF ArchsOf
  <2>6. CASE \E t \in yaml.targets : m.target = t.name /\ m.arch \in ArchsOf(r, t)
    <3>1. PICK t \in yaml.targets : m.target = t.name /\ m.arch \in ArchsOf(r, t)
      BY <2>6
    <3>2. CASE m.arch \in t.archs
      BY <2>2, <3>1, <3>2
    <3>3. CASE m.arch \in others /\ t.name = m.target /\ t.archs = {}
      BY <2>3, <3>1, <3>3
    <3>. QED  BY <2>5, <3>1, <3>2, <3>3
  <2>7. CASE yaml.targets = {} /\ m.arch \in others
    BY <2>3, <2>4, <2>7
  <2>. QED  BY <2>1, <2>6, <2>7
<1>9. \/ \A a \in C : \E m \in ElectronBuilder(r) : m.arch = a
      \/ /\ C = yaml.defaults \cup yaml.legacy /\ Cardinality(C) = 1
         /\ yaml.defaults = {} \/ \A t \in yaml.targets : t.archs # {}
  <2>1. CASE named # {}
    <3>1. \A a \in C : \E t \in TargetsOf(r) : a \in ArchsOf(r, t)
      BY <1>4, <1>6, <1>7, <2>1 DEF ArchsOf
    <3>. QED  BY <3>1, ElectronBuilderMakes
  <2>2. CASE named = {} /\ C # {}
    <3>1. C = yaml.defaults \cup yaml.legacy /\ Cardinality(C) = 1
      BY <1>3, <1>4, <2>2
    <3>2. ASSUME yaml.defaults # {}, NEW t \in yaml.targets, t.archs = {}
          PROVE  \A a \in C : \E m \in ElectronBuilder(r) : m.arch = a
      <4>1. C = others /\ ArchsOf(r, t) = others /\ t \in TargetsOf(r)
        BY <1>3, <1>7, <3>1, <3>2 DEF ArchsOf
      <4>2. \A x \in ArchsOf(r, t) : \E m \in ElectronBuilder(r) : m.arch = x
        BY <4>1, ElectronBuilderMakes, ZenonT(20)
      <4>. QED  BY <4>1, <4>2
    <3>. QED  BY <3>1, <3>2
  <2>. QED  BY <2>1, <2>2
<1>. QED  BY <1>8, <1>9 DEF r, C

LEMMA BuilderInitInv ==
  ASSUME BuilderInit
  PROVE  BuilderInv
  BY DEF BuilderInit, BuilderInv, BuilderTypeOK, Planned, Packaged

\* A run is a function of its element of the plan.
LEMMA RunBuildStarts ==
  ASSUME NEW arch, RunBuild(arch)
  PROVE  running' = RunOf(arch)
  BY DEF RunBuild, RunOf

LEMMA BuilderStep ==
  ASSUME BuilderInv, [BuilderNext]_builderVars
  PROVE  BuilderInv'
<1>0. UNCHANGED <<yaml, flags>>
  BY DEF BuilderNext, MakePlan, RunBuild, Spawned, MakeUniversal, BuildFails, CleanUp, builderVars
<1>1. /\ Asked' = Asked /\ IsUniversal(flags, yaml)' = IsUniversal(flags, yaml)
      /\ \A arch : RunOf(arch)' = RunOf(arch)
      /\ MergeRun' = MergeRun
  BY <1>0 DEF Asked, RunOf, MergeRun
<1>2. CASE MakePlan
  BY <1>0, <1>1, <1>2 DEF MakePlan, BuilderInv, BuilderTypeOK, Planned, Packaged, Asked
<1>3. ASSUME NEW arch \in Archs \cup {"all"}, RunBuild(arch)  PROVE BuilderInv'
  BY <1>0, <1>1, <1>3, RunBuildStarts DEF RunBuild, BuilderInv, BuilderTypeOK, Planned, Packaged
<1>4. CASE Spawned
  BY <1>0, <1>1, <1>4 DEF Spawned, BuilderInv, BuilderTypeOK, Planned, Packaged
<1>5. CASE MakeUniversal
  BY <1>0, <1>1, <1>5 DEF MakeUniversal, BuilderInv, BuilderTypeOK, Planned, Packaged
<1>6. CASE BuildFails
  BY <1>0, <1>1, <1>6 DEF BuildFails, BuilderInv, BuilderTypeOK, Planned, Packaged
<1>7. CASE CleanUp
  BY <1>0, <1>1, <1>7 DEF CleanUp, BuilderInv, BuilderTypeOK, Planned, Packaged
<1>8. CASE UNCHANGED builderVars
  BY <1>0, <1>1, <1>8 DEF builderVars, BuilderInv, BuilderTypeOK, Planned, Packaged
<1>. QED  BY <1>2, <1>3, <1>4, <1>5, <1>6, <1>7, <1>8 DEF BuilderNext

\* Every package comes of a run whose packages are known.
LEMMA RuntimesAreTheirOwn ==
  ASSUME BuilderInv, Sensible
  PROVE  RuntimeOfItsOwn
<1>. SUFFICES ASSUME NEW m \in made  PROVE m.runtime = m.arch \/ Untold(m)
  BY DEF RuntimeOfItsOwn
<1>1. BuilderTypeOK /\ universal = IsUniversal(flags, yaml)
  BY DEF BuilderInv, Planned, Packaged
<1>2. TextTakes(m) => Untold(m)
  BY DEF TextTakes, Untold
<1>3. ASSUME IsUniversal(flags, yaml), m \in ElectronBuilder(MergeRun)
      PROVE  m.runtime = m.arch \/ Untold(m)
  BY <1>1, <1>3, MergeMakes DEF Untold
<1>4. ASSUME NEW arch \in Asked, m \in ElectronBuilder(RunOf(arch))
      PROVE  m.runtime = m.arch \/ Untold(m)
  <2>1. CASE arch # "all"
    BY <1>1, <1>2, <1>4, <2>1, RunMakesOne
  <2>2. CASE arch = "all" /\ flags.archs # <<>>
    BY <1>1, <1>2, <1>4, <2>2, RunMakesNamed
  <2>3. CASE arch = "all" /\ flags.archs = <<>>
    <3>1. \/ m.runtime = m.arch \/ TextTakes(m)
          \/ /\ ConfiguredArchs(yaml) = {m.runtime}
             /\ \/ \E t \in yaml.targets : t.name = m.target /\ t.archs = {}
                \/ yaml.targets = {} /\ yaml.defaults = {}
      BY <1>1, <1>4, <2>3, RunMakesConfigured
    <3>. QED  BY <1>2, <2>3, <3>1 DEF Untold
  <2>. QED  BY <2>1, <2>2, <2>3
<1>. QED  BY <1>3, <1>4 DEF BuilderInv, Packaged

LEMMA WhatWasAskedIsMade ==
  ASSUME BuilderInv, Sensible
  PROVE  AskedIsMade
<1>. DEFINE archs == {m.arch : m \in made}
            C == ConfiguredArchs(yaml)
            texts == {t \in yaml.targets : t.text}
            extra(T) == UNION {t.archs : t \in T}
<1>. SUFFICES ASSUME builderStep = "done"
              PROVE  CASE universal ->
                            /\ {"x64", "arm64", "universal"} \subseteq archs
                            /\ archs \subseteq {"x64", "arm64", "universal"} \cup extra(yaml.targets)
                       [] ~universal /\ flags.archs # <<>> ->
                            /\ ToSet(flags.archs) \subseteq archs
                            /\ archs \subseteq ToSet(flags.archs) \cup extra(texts)
                       [] OTHER -> \/ C \ {"universal"} \subseteq archs
                                   \/ /\ C = yaml.defaults \cup yaml.legacy /\ Cardinality(C) = 1
                                      /\ yaml.defaults = {} \/ \A t \in yaml.targets : t.archs # {}
  BY DEF AskedIsMade
<1>1. /\ BuilderTypeOK /\ universal = IsUniversal(flags, yaml)
      /\ \A arch \in Asked : \A m \in ElectronBuilder(RunOf(arch)) : m \in made
      /\ \A m \in made : \/ \E arch \in Asked : m \in ElectronBuilder(RunOf(arch))
                         \/ IsUniversal(flags, yaml) /\ m \in ElectronBuilder(MergeRun)
      /\ universal => \A m \in ElectronBuilder(MergeRun) : m \in made
  BY DEF BuilderInv, Planned, Packaged
<1>2. \A m : TextTakes(m) => m.arch \in extra(texts) /\ m.arch \in extra(yaml.targets)
  BY DEF TextTakes
<1>3. ASSUME NEW arch \in Asked, arch # "all"
      PROVE  /\ arch \in archs
             /\ \A m \in ElectronBuilder(RunOf(arch)) : m.arch = arch \/ TextTakes(m)
  <2>1. PICK m \in ElectronBuilder(RunOf(arch)) : m.arch = arch
    BY <1>1, <1>3, RunMakesOne
  <2>2. m \in made
    BY <1>1, <2>1
  <2>. QED  BY <1>1, <1>3, <2>1, <2>2, RunMakesOne
<1>4. ASSUME universal
      PROVE  /\ {"x64", "arm64", "universal"} \subseteq archs
             /\ archs \subseteq {"x64", "arm64", "universal"} \cup extra(yaml.targets)
  <2>1. Asked = {"x64", "arm64"} /\ "x64" # "all" /\ "arm64" # "all"
    BY <1>1, <1>4, ThePlan
  <2>2. PICK m \in ElectronBuilder(MergeRun) : m.arch = "universal"
    BY MergeMakes
  <2>3. m \in made
    BY <1>1, <1>4, <2>2
  <2>4. {"x64", "arm64", "universal"} \subseteq archs
    BY <1>3, <2>1, <2>2, <2>3
  <2>5. ASSUME NEW p \in made
        PROVE  p.arch \in {"x64", "arm64", "universal"} \cup extra(yaml.targets)
    <3>1. CASE \E arch \in Asked : p \in ElectronBuilder(RunOf(arch))
      BY <1>2, <1>3, <2>1, <3>1
    <3>2. CASE p \in ElectronBuilder(MergeRun)
      BY <3>2, MergeMakes
    <3>. QED  BY <1>1, <3>1, <3>2
  <2>. QED  BY <2>4, <2>5
<1>5. ASSUME ~universal, flags.archs # <<>>
      PROVE  /\ ToSet(flags.archs) \subseteq archs
             /\ archs \subseteq ToSet(flags.archs) \cup extra(texts)
  <2>1. CASE "all" \in Asked
    <3>1. Asked = {"all"} /\ ToSet(flags.archs) = {Head(flags.archs)}
      BY <1>1, <1>5, <2>1, ThePlan
    <3>2. \A m \in ElectronBuilder(RunOf("all")) : m.arch = Head(flags.archs) \/ TextTakes(m)
      BY <1>1, <1>5, <2>1, RunMakesNamed
    <3>3. PICK m \in ElectronBuilder(RunOf("all")) : m.arch = Head(flags.archs)
      BY <1>1, <1>5, <2>1, RunMakesNamed
    <3>4. m \in made
      BY <1>1, <2>1, <3>3
    <3>5. \A p \in made : p.arch = Head(flags.archs) \/ TextTakes(p)
      BY <1>1, <1>5, <3>1, <3>2
    <3>. QED  BY <1>2, <3>1, <3>3, <3>4, <3>5
  <2>2. CASE "all" \notin Asked
    <3>1. Asked = ToSet(flags.archs)
      BY <1>1, <1>5, <2>2, ThePlan
    <3>2. \A arch \in Asked : arch # "all"
      BY <2>2
    <3>3. \A p \in made : \E arch \in Asked : p.arch = arch \/ TextTakes(p)
      BY <1>1, <1>3, <1>5, <3>2
    <3>4. archs \subseteq ToSet(flags.archs) \cup extra(texts)
      BY <1>2, <3>1, <3>3
    <3>. QED  BY <1>3, <3>1, <3>2, <3>4
  <2>. QED  BY <2>1, <2>2
<1>6. ASSUME ~universal, flags.archs = <<>>
      PROVE  \/ C \ {"universal"} \subseteq archs
             \/ /\ C = yaml.defaults \cup yaml.legacy /\ Cardinality(C) = 1
                /\ yaml.defaults = {} \/ \A t \in yaml.targets : t.archs # {}
  <2>1. CASE "all" \in Asked
    <3>1. \/ \A a \in C : \E m \in ElectronBuilder(RunOf("all")) : m.arch = a
          \/ /\ C = yaml.defaults \cup yaml.legacy /\ Cardinality(C) = 1
             /\ yaml.defaults = {} \/ \A t \in yaml.targets : t.archs # {}
      BY <1>1, <1>6, <2>1, RunMakesConfigured
    <3>2. ASSUME NEW a, \E m \in ElectronBuilder(RunOf("all")) : m.arch = a  PROVE a \in archs
      BY <1>1, <2>1, <3>2
    <3>. QED  BY <3>1, <3>2
  <2>2. CASE "all" \notin Asked
    <3>1. Asked = C
      BY <1>1, <1>6, <2>2, ThePlan
    <3>. QED  BY <1>3, <2>2, <3>1
  <2>. QED  BY <2>1, <2>2
<1>. HIDE DEF archs, C, texts, extra
<1>. QED  BY <1>4, <1>5, <1>6

LEMMA BuilderInvImplies ==
  ASSUME BuilderInv
  PROVE  BuiltAsAsked
  BY RuntimesAreTheirOwn, WhatWasAskedIsMade DEF BuiltAsAsked

\* The packages of a build are those that were asked for, each with the runtime of its own
\* architecture (BuiltAsAsked of the run packages).
THEOREM BuildsWhatWasAsked == BuilderSpec => []BuiltAsAsked
<1>1. BuilderInit => BuilderInv
  BY BuilderInitInv
<1>2. BuilderInv /\ [BuilderNext]_builderVars => BuilderInv'
  BY BuilderStep
<1>3. BuilderInv => BuiltAsAsked
  BY BuilderInvImplies
<1>. QED  BY <1>1, <1>2, <1>3, PTL DEF BuilderSpec
=============================================================================
