------------------------------- MODULE AsarFs -------------------------------
(***************************************************************************)
(* The file system of an application as its JavaScript sees it: the fs,    *)
(* process, module and child_process functions that asar-fs-wrapper.ts     *)
(* replaces so that paths inside an .asar archive can be read.             *)
(*                                                                         *)
(* A path is an archive and an entry of it.  Every function comes in a     *)
(* synchronous, a callback and a promise form; the asynchronous forms look *)
(* at process.noAsar, at the archive cache and at the disk at different    *)
(* moments, while the application toggles process.noAsar and something     *)
(* else replaces the archive file.  What a file contains is a version.     *)
(***************************************************************************)
EXTENDS Integers, Sequences, FiniteSets

CONSTANTS
  Archives,    \* a sequence: the .asar files of one directory, in its order
  Entries,     \* the paths inside an archive, the root among them
  Root,
  Versions,    \* the contents an archive file may have
  Kind,        \* Kind[v][e]: what entry e of version v is
  Target,      \* Target[v][e]: what a link points to
  Integrity,   \* the fuse that makes the header carry the hashes
  Calls,       \* the asynchronous calls in flight at one time
  MaxChanges   \* bound: changes of the disk and of process.noAsar

Kinds == {"dir", "packed", "empty", "unpacked", "link", "none"}

Paths == {Archives[i] : i \in DOMAIN Archives}

(* What an archive file can hold: a version, or no archive at all.         *)
Contents == Versions \cup {"invalid"}

(* No version is taken for another state of a file, or for another answer. *)
ASSUME ContentAssumption ==
  /\ Archives \in Seq(Paths) /\ Archives # <<>>
  /\ Versions \cap {"none", "invalid", "absent", "empty", "plain", "native", "false"} = {}
  /\ Root \in Entries /\ Integrity \in BOOLEAN /\ MaxChanges \in Nat
  /\ Kind \in [Versions -> [Entries -> Kinds]]
  /\ Target \in [Versions -> [Entries -> Entries]]
  /\ \A v \in Versions :
        /\ Kind[v][Root] = "dir"
        /\ \A e \in Entries : Kind[v][e] = "link" => Kind[v][Target[v][e]] # "link"

VARIABLES
  disk,      \* the archive files: a version, "invalid" or "absent"
  handle,    \* cachedArchives
  noAsar,    \* process.noAsar
  call,      \* the asynchronous calls in flight
  exited,    \* process.exit(1) was called
  changes    \* how many changes happened

vars == <<disk, handle, noAsar, call, exited, changes>>
-----------------------------------------------------------------------------
(* Answers of a function, and the archive object the native binding gives. *)

Ok(x) == <<"ok", x, {}>>
Names(xs) == <<"ok", "names", xs>>
Err(code) == <<"err", code, {}>>
Died == <<"exit", "integrity", {}>>
Failed(answer) == answer[1] = "err"

NoHandle == [header |-> "none", bytes |-> "none", live |-> FALSE, copies |-> {}]
Closed(h) == h.header = "none"

FaultyGetOrCreateAnew(h, d) ==  \* nothing is cached
  IF d \in Versions THEN [header |-> d, bytes |-> d, live |-> TRUE, copies |-> {}]
  ELSE NoHandle

(* The cache of archive objects.  What cannot be opened is not cached: the *)
(* next access tries again.  The object keeps the header it has read, the  *)
(* open file (bytes is what that file contains now, live that it is still  *)
(* the one at the path) and the copies it has made of its entries.         *)
GetOrCreateArchive(h, d) ==
  IF ~Closed(h) THEN h
  ELSE IF d \in Versions
  THEN [header |-> d, bytes |-> d, live |-> TRUE, copies |-> {}]
  ELSE NoHandle

KindOf(h, e) == IF Closed(h) THEN "none" ELSE Kind[h.header][e]
Resolve(h, e) == IF KindOf(h, e) = "link" THEN Target[h.header][e] ELSE e

(* getFileInfo follows a link and knows files only. *)
FileInfo(h, e) ==
  LET k == KindOf(h, Resolve(h, e)) IN IF k = "dir" THEN "none" ELSE k
Listing(h) == {e \in Entries \ {Root} : KindOf(h, e) # "none"}
IsDir(h, e) == KindOf(h, Resolve(h, e)) = "dir"
-----------------------------------------------------------------------------
(* What a function answers when it is asked about an entry of an archive.  *)
(* Every one of them first takes the archive from the cache: h = NoHandle  *)
(* is an archive that is absent or cannot be opened.                       *)

Missing(h) == Err(IF Closed(h) THEN "INVALID" ELSE "ENOENT")

(* lstat does not follow a link; stat is lstat. *)
LstatSync(h, e) == IF KindOf(h, e) = "none" THEN Missing(h) ELSE Ok(KindOf(h, e))

(* throwIfNoEntry: false turns both errors into an answer of null. *)
LstatQuiet(h, e) == IF KindOf(h, e) = "none" THEN Ok("null") ELSE Ok(KindOf(h, e))

(* The real path of the entry, behind the real path of the archive file.   *)
RealpathSync(h, e, d) ==
  IF KindOf(h, e) = "none" THEN Missing(h)
  ELSE IF d = "absent" THEN Err("ENOENT")
  ELSE Ok(Resolve(h, e))

YesNo(b) == Ok(IF b THEN "true" ELSE "false")
ExistsSync(h, e) == YesNo(KindOf(h, e) # "none")

(* A packed file is never writable; an unpacked one is asked on the disk.  *)
AccessSync(h, e, write) ==
  CASE FileInfo(h, e) = "none" -> Missing(h)
    [] FileInfo(h, e) = "unpacked" -> Ok("plain")
    [] OTHER -> IF write THEN Err("EACCES") ELSE Ok("packed")

FaultyValidateBufferIntegrity(h) == Ok(h.bytes)  \* the fuse is not asked

(* The bytes of a packed file come from the open archive file and are      *)
(* compared with the hash the header had when it was read.                 *)
ValidateBufferIntegrity(h) ==
  IF Integrity /\ h.bytes # h.header THEN Died ELSE Ok(h.bytes)

ReadFileSync(h, e) ==
  CASE FileInfo(h, e) = "none" -> Missing(h)
    [] FileInfo(h, e) = "empty" -> Ok("empty")
    [] FileInfo(h, e) = "unpacked" -> Ok("plain")
    [] OTHER -> ValidateBufferIntegrity(h)

(* Without recursion a listing is of the entries below the root; with      *)
(* withFileTypes each of them is looked up again.                          *)
ReaddirSync(h, e) ==
  CASE ~IsDir(h, e) -> Missing(h)
    [] IsDir(h, e) /\ \E x \in Listing(h) : Failed(LstatSync(h, x)) -> Err("ENOENT")
    [] OTHER -> Names({<<x>> : x \in IF Resolve(h, e) = Root THEN Listing(h) ELSE {}})

(* open, copyFile, execFile, dlopen and require of a native module work on *)
(* a copy outside the archive, which is made and verified once.            *)
CopyFileOut(h, e) ==
  CASE FileInfo(h, e) = "none" -> Missing(h)
    [] FileInfo(h, e) = "empty" -> Ok("empty")
    [] FileInfo(h, e) = "unpacked" -> Ok("plain")
    [] FileInfo(h, e) = "packed" /\ \E v \in Contents : <<e, v>> \in h.copies ->
         Ok(CHOOSE v \in Contents : <<e, v>> \in h.copies)
    [] OTHER -> ValidateBufferIntegrity(h)

FaultyInternalModuleStat(h, e) ==  \* directories have no file information
  IF FileInfo(h, e) = "none" THEN Ok("missing") ELSE Ok("other")

(* internalModuleStat and the reader of package.json, for the module loader *)
InternalModuleStat(h, e) ==
  CASE KindOf(h, e) = "none" -> Ok("missing")
    [] KindOf(h, e) = "dir" -> Ok("directory")
    [] OTHER -> Ok("other")
OverrideReadFileSync(h, e) ==
  IF Failed(ReadFileSync(h, e)) THEN Ok("false") ELSE ReadFileSync(h, e)

(* mkdir on Windows: nothing can be made inside an archive. *)
MkdirSync(e) == IF e = Root THEN Ok("native") ELSE Err("ENOTDIR")

(* What Node answers itself when the archive is an ordinary file to it. *)
Native(op, e, d) ==
  CASE op \in {"exists", "existsPromise"} -> YesNo(e = Root /\ d # "absent")
    [] op = "moduleStat" -> Ok(IF e = Root /\ d # "absent" THEN "other" ELSE "missing")
    [] OTHER -> IF d = "absent" THEN Err("ENOENT")
                ELSE IF e = Root THEN Ok("native") ELSE Err("ENOTDIR")
-----------------------------------------------------------------------------
(* readdir with recursive: TRUE, of a directory with the archives in it    *)
(* and of an entry of one archive.  All of it walks in directory order.    *)
(* is are the archives whose names were listed; the asynchronous forms     *)
(* look them up in a later turn, when the disk D may be another one.       *)

Present(D) == {i \in DOMAIN Archives : D[Archives[i]] # "absent"}
Opened(D, H) == [a \in Paths |-> GetOrCreateArchive(H[a], D[a])]
Broken(D, H, is) == {i \in is : Closed(Opened(D, H)[Archives[i]])}
BeforeBroken(D, H, is) == {i \in is : \A j \in Broken(D, H, is) : i < j}

(* Only what the module loader's stat calls a directory is descended into: *)
(* of an archive that cannot be opened only the name is listed.            *)
Found(D, H, n, is) ==
  {<<Archives[i], Root>> : i \in is}
    \cup UNION {{<<Archives[i], x>> : x \in Listing(Opened(D, H)[Archives[i]])} :
                   i \in IF n THEN {} ELSE is}

Walk(D, H, n, is) == Names(Found(D, H, n, is))

(* withFileTypes: the first archive that cannot be opened ends the listing *)
(* of its directory.                                                       *)
WalkTypes(D, H, n, is) == Walk(D, H, n, IF n THEN is ELSE BeforeBroken(D, H, is))

(* In the promise form such an archive stays a string among the Dirents,   *)
(* and calling isDirectory on it rejects the promise.                      *)
WalkTypesPromise(D, H, n, is) ==
  IF ~n /\ Broken(D, H, is) # {} THEN Err("TypeError") ELSE Walk(D, H, n, is)

(* Below an entry of an archive: only the callback form reports an error.  *)
ReaddirSyncRecursive(h, e) ==
  IF Failed(ReaddirSync(h, e)) THEN Names({}) ELSE ReaddirSync(h, e)
ReaddirRecursive(h, e) == ReaddirSync(h, e)
ReaddirRecursivePromises(h, e) == ReaddirSyncRecursive(h, e)
-----------------------------------------------------------------------------
(* The synchronous answer to op, of a directory where is were listed.      *)
(* exec never looks into an archive: invokeWithNoAsar sets process.noAsar  *)
(* for the whole call.                                                     *)

Walks == {"walk", "walkTypes", "walkTypesPromise"}
AsyncOps == {"lstat", "stat", "realpath", "exists", "existsPromise", "access",
             "accessWrite", "readFile", "readdir", "readdirRecursive",
             "readdirRecursivePromise", "open", "mkdir", "exec"} \cup Walks
SyncOnlyOps == {"moduleStat", "packageJson", "lstatQuiet"}

InArchive(op, h, e, d) ==
  CASE op \in {"lstat", "stat"} -> LstatSync(h, e)
    [] op = "lstatQuiet" -> LstatQuiet(h, e)
    [] op = "realpath" -> RealpathSync(h, e, d)
    [] op \in {"exists", "existsPromise"} -> ExistsSync(h, e)
    [] op = "access" -> AccessSync(h, e, FALSE)
    [] op = "accessWrite" -> AccessSync(h, e, TRUE)
    [] op = "readFile" -> ReadFileSync(h, e)
    [] op = "readdir" -> ReaddirSync(h, e)
    [] op \in {"readdirRecursive", "readdirRecursivePromise"} -> ReaddirSyncRecursive(h, e)
    [] op = "open" -> CopyFileOut(h, e)
    [] op = "mkdir" -> MkdirSync(e)
    [] op = "moduleStat" -> InternalModuleStat(h, e)
    [] op = "packageJson" -> OverrideReadFileSync(h, e)

SyncOf(op, a, e, D, H, n, is) ==
  IF op \in Walks
  THEN IF op = "walk" THEN Walk(D, H, n, is) ELSE WalkTypes(D, H, n, is)
  ELSE IF n \/ op = "exec" THEN Native(op, e, D[a])
  ELSE InArchive(op, GetOrCreateArchive(H[a], D[a]), e, D[a])
Sync(op, a, e, D, H, n) == SyncOf(op, a, e, D, H, n, Present(D))

(* What the call leaves behind: opened archives, and a copied-out file.    *)
TouchedBy(op, a, e, D, H, n, is) ==
  IF n \/ op \in {"exec", "mkdir"} THEN H
  ELSE IF op \in Walks
  THEN LET looked == IF op = "walkTypes" THEN BeforeBroken(D, H, is) ELSE is
       IN  [b \in Paths |-> IF \E i \in looked : b = Archives[i] THEN Opened(D, H)[b] ELSE H[b]]
  ELSE LET h == GetOrCreateArchive(H[a], D[a])
           out == CopyFileOut(h, e)
       IN  [H EXCEPT ![a] = IF op = "open" /\ FileInfo(h, e) = "packed" /\ out[1] = "ok"
                            THEN [h EXCEPT !.copies = @ \cup {<<e, out[2]>>}] ELSE h]
Touched(op, a, e, D, H, n) == TouchedBy(op, a, e, D, H, n, Present(D))
-----------------------------------------------------------------------------
(* Calls. *)

Idle == [stage |-> "idle", op |-> "exec", a |-> Archives[1], e |-> Root,
         ans |-> Ok("native"), names |-> {}, modes |-> {}, lists |-> {}, seen |-> {}]

Init ==
  /\ disk \in [Paths -> Contents \cup {"absent"}]
  /\ handle = [a \in Paths |-> NoHandle]
  /\ noAsar = FALSE
  /\ call = [c \in Calls |-> Idle]
  /\ exited = FALSE
  /\ changes = 0

(* Every call in flight remembers what its synchronous form would have     *)
(* answered at each moment, the values process.noAsar had and what its     *)
(* directory had: the synchronous answer is also taken for earlier ones.   *)
Observed(x, D, H, n) ==
  LET modes == x.modes \cup {n}
      lists == x.lists \cup {IF x.op \in Walks THEN Present(D) ELSE {}}
  IN  [x EXCEPT !.modes = modes, !.lists = lists,
                !.seen = @ \cup {SyncOf(x.op, x.a, x.e, D, H, m, is) : m \in modes, is \in lists}]

Watched(cs, D, H, n) ==
  [c \in Calls |-> IF cs[c].stage \in {"idle", "done"} THEN cs[c]
                   ELSE Observed(cs[c], D, H, n)]

(* A synchronous call, made by the application or by the module loader.    *)
CallSync(op, a, e) ==
  LET ans == Sync(op, a, e, disk, handle, noAsar)
      H == Touched(op, a, e, disk, handle, noAsar)
  IN  /\ ~exited
      /\ handle' = H
      /\ exited' = (ans = Died)
      /\ call' = Watched(call, disk, H, noAsar)
      /\ UNCHANGED <<disk, noAsar, changes>>

FaultyBegin(op, a, e, h) ==  \* exists returns before it calls back
  LET ans == InArchive(op, h, e, disk[a]) IN
  CASE op = "exists" /\ Closed(h) -> <<"lost", ans>>
    [] op = "stat" -> <<"restat", Idle.ans>>
    [] op = "readFile" /\ FileInfo(h, e) = "packed" -> <<"read", Idle.ans>>
    [] OTHER -> <<"decided", ans>>

(* Where an asynchronous call waits, and the answer when it is known.      *)
Begin(op, a, e, h) ==
  LET ans == InArchive(op, h, e, disk[a]) IN
  CASE op = "stat" -> <<"restat", Idle.ans>>
    [] op = "realpath" /\ KindOf(h, e) # "none" -> <<"realpath", Idle.ans>>
    [] op = "exists" /\ Closed(h) -> <<"decided", Missing(h)>>
    [] op = "existsPromise" /\ Closed(h) -> <<"decided", Missing(h)>>
    [] op = "readFile" /\ FileInfo(h, e) = "packed" -> <<"read", Idle.ans>>
    [] op = "readdirRecursive" -> <<"decided", ReaddirRecursive(h, e)>>
    [] op = "readdirRecursivePromise" -> <<"decided", ReaddirRecursivePromises(h, e)>>
    [] OTHER -> <<"decided", ans>>

CallAsync(c, op, a, e) ==
  LET H == Touched(op, a, e, disk, handle, noAsar)
      native == noAsar \/ op = "exec"
      begun == IF op \in Walks THEN <<"walk", Idle.ans>>
               ELSE IF native THEN <<"native", Idle.ans>> ELSE Begin(op, a, e, H[a])
      begins == [stage |-> begun[1], op |-> op, a |-> a, e |-> e, ans |-> begun[2],
                 names |-> {}, modes |-> {}, lists |-> {}, seen |-> {}]
  IN  /\ ~exited /\ call[c].stage = "idle"
      /\ handle' = IF op \in Walks \cup {"stat"} THEN handle ELSE H
      /\ exited' = (begun[2] = Died)
      /\ call' = Watched([call EXCEPT ![c] = begins], disk, handle', noAsar)
      /\ UNCHANGED <<disk, noAsar, changes>>

(* The second half of fs.stat, on the next tick: fs.lstat looks at         *)
(* process.noAsar again.                                                   *)
Restat(c) ==
  LET a == call[c].a
      H == Touched("lstat", a, call[c].e, disk, handle, noAsar)
      next == IF noAsar THEN [call[c] EXCEPT !.stage = "native"]
              ELSE [call[c] EXCEPT !.stage = "decided", !.ans = LstatSync(H[a], call[c].e)]
  IN  /\ ~exited /\ call[c].stage = "restat"
      /\ handle' = H
      /\ call' = Watched([call EXCEPT ![c] = next], disk, H, noAsar)
      /\ UNCHANGED <<disk, noAsar, exited, changes>>

(* The answer reaches the callback.  A call that listed directories or     *)
(* read bytes does so now; a hash that differs ends the process instead.   *)
Answer(c, stage, ans, H) ==
  /\ ~exited /\ call[c].stage = stage
  /\ handle' = H
  /\ exited' = (ans = Died)
  /\ call' = Watched([call EXCEPT ![c] = [@ EXCEPT !.stage = "done", !.ans = ans]],
                     disk, H, noAsar)
  /\ UNCHANGED <<disk, noAsar, changes>>

Decided(c) == Answer(c, "decided", call[c].ans, handle)
NativeDone(c) ==
  Answer(c, "native", Native(call[c].op, call[c].e, disk[call[c].a]), handle)
FaultyRealpathDone(c) ==  \* the entry's own path, behind that of the archive
  Answer(c, "realpath", Ok(call[c].e), handle)

RealpathDone(c) ==
  Answer(c, "realpath", RealpathSync(handle[call[c].a], call[c].e, disk[call[c].a]), handle)
ReadDone(c) == Answer(c, "read", ValidateBufferIntegrity(handle[call[c].a]), handle)
(* The buffer is validated before the error is looked at. *)
ReadFailed(c) == Answer(c, "read", IF Integrity THEN Died ELSE Err("EIO"), handle)

(* The native listing of the directory, on another thread;                 *)
WalkListed(c) ==
  /\ ~exited /\ call[c].stage = "walk"
  /\ call' = Watched([call EXCEPT ![c] = [@ EXCEPT !.stage = "walked", !.names = Present(disk)]],
                     disk, handle, noAsar)
  /\ UNCHANGED <<disk, handle, noAsar, exited, changes>>

(* and its completion: the archives that were listed are looked up now.    *)
WalkDone(c) ==
  LET op == call[c].op
      is == call[c].names
      ans == CASE op = "walk" -> Walk(disk, handle, noAsar, is)
               [] op = "walkTypes" -> WalkTypes(disk, handle, noAsar, is)
               [] OTHER -> WalkTypesPromise(disk, handle, noAsar, is)
  IN  Answer(c, "walked", ans, TouchedBy(op, Archives[1], Root, disk, handle, noAsar, is))

Return(c) ==
  /\ ~exited /\ call[c].stage = "done"
  /\ call' = [call EXCEPT ![c] = Idle]
  /\ UNCHANGED <<disk, handle, noAsar, exited, changes>>
-----------------------------------------------------------------------------
(* The environment: something renames another file to the archive's path,  *)
(* removes it, or writes over it; the application sets process.noAsar.     *)

Change(D, H, n) ==
  /\ ~exited /\ changes < MaxChanges
  /\ changes' = changes + 1
  /\ disk' = D /\ handle' = H /\ noAsar' = n
  /\ call' = Watched(call, D, H, n)
  /\ UNCHANGED exited

Replace(a, d) ==
  Change([disk EXCEPT ![a] = d], [handle EXCEPT ![a].live = FALSE], noAsar)
Rewrite(a, d) ==
  /\ disk[a] # "absent"
  /\ Change([disk EXCEPT ![a] = d],
            [handle EXCEPT ![a].bytes = IF handle[a].live THEN d ELSE @], noAsar)
SetNoAsar == Change(disk, handle, ~noAsar)

Step(c) == \/ Restat(c) \/ Decided(c) \/ NativeDone(c) \/ RealpathDone(c)
           \/ ReadDone(c) \/ ReadFailed(c) \/ WalkListed(c) \/ WalkDone(c)

Next ==
  \/ \E a \in Paths, e \in Entries :
        \/ \E op \in (AsyncOps \cup SyncOnlyOps) \ Walks : CallSync(op, a, e)
        \/ \E c \in Calls, op \in AsyncOps \ Walks : CallAsync(c, op, a, e)
  \/ \E op \in {"walk", "walkTypes"} : CallSync(op, Archives[1], Root)
  \/ \E c \in Calls, op \in Walks : CallAsync(c, op, Archives[1], Root)
  \/ \E c \in Calls : Step(c) \/ Return(c)
  \/ \E a \in Paths, d \in Contents \cup {"absent"} : Replace(a, d)
  \/ \E a \in Paths, d \in Contents : Rewrite(a, d)
  \/ SetNoAsar

Spec == Init /\ [][Next]_vars

(* The loop delivers ticks and completions; nothing makes the application  *)
(* call again.                                                             *)
FairSpec == Spec /\ \A c \in Calls : WF_vars(Step(c)) /\ WF_vars(Return(c))
-----------------------------------------------------------------------------
(* Properties. *)

Handle == [header : Versions \cup {"none"}, bytes : Contents \cup {"none"},
           live : BOOLEAN, copies : SUBSET (Entries \X Contents)]
Stages == {"idle", "restat", "realpath", "read", "native", "walk", "walked",
           "decided", "done"}

(* The types of the state; the open file has the content of its path until *)
(* another file is put there, and a closed archive keeps nothing.          *)
TypeOK ==
  /\ disk \in [Paths -> Contents \cup {"absent"}]
  /\ handle \in [Paths -> Handle]
  /\ \A a \in Paths : /\ handle[a].live => handle[a].bytes = disk[a]
                      /\ IF Closed(handle[a]) THEN handle[a] = NoHandle
                         ELSE handle[a].bytes \in Contents
  /\ noAsar \in BOOLEAN /\ exited \in BOOLEAN /\ changes \in 0..MaxChanges
  /\ DOMAIN call = Calls
  /\ \A c \in Calls :
       /\ DOMAIN call[c] = DOMAIN Idle
       /\ call[c].stage \in Stages /\ call[c].op \in AsyncOps
       /\ call[c].a \in Paths /\ call[c].e \in Entries
       /\ call[c].names \subseteq DOMAIN Archives

(* Where the three forms of a function are known to differ: exists reports *)
(* an archive that cannot be opened as an error (which its callback takes  *)
(* for TRUE), a recursive listing below an archive reports what its        *)
(* synchronous form lists as nothing, the promise form of a typed listing  *)
(* fails where the others stop, and a read may fail on its own.            *)
KnownDifference(op, ans) ==
  \/ op \in {"exists", "existsPromise"} /\ ans = Err("INVALID")
  \/ op = "readdirRecursive" /\ Failed(ans)
  \/ op = "walkTypesPromise" /\ ans = Err("TypeError")
  \/ op = "readFile" /\ ans = Err("EIO")

(* asar-fs-wrapper.ts: whatever an asynchronous form answers is what the   *)
(* synchronous form would have answered at some moment between the call    *)
(* and the answer, for a value process.noAsar had in that time.  Only a    *)
(* recursive listing of a directory belongs to two moments: it is made of  *)
(* the names that were there at one, and of what their archives are at a   *)
(* later one.  What it lists in an archive is there for every later call.  *)
AnswersLinearize ==
  \A c \in Calls : call[c].stage = "done" /\ ~exited =>
     /\ \/ call[c].ans \in call[c].seen
        \/ KnownDifference(call[c].op, call[c].ans)
     /\ call[c].op \in Walks =>
          \A x \in call[c].ans[3] :
            x[2] = Root \/ Sync("exists", x[1], x[2], disk, handle, FALSE) = Ok("true")

(* With the integrity fuse, no reader gets bytes of a packed file that are *)
(* not those of the header, whoever wrote over the archive and whenever.   *)
OnlyVerifiedBytes ==
  Integrity /\ ~exited =>
    \A c \in Calls : call[c].stage = "done" /\ call[c].op \in {"readFile", "open"}
                      /\ call[c].ans[1] = "ok" /\ call[c].ans[2] \in Versions
                      => call[c].ans[2] = handle[call[c].a].header

(* The functions an application, the module loader and child_process use   *)
(* to look at one path agree in every state: what exists can be stat'ed    *)
(* and has a module kind, what can be listed lists what exists, and the    *)
(* readers, access and the copier accept the same files.                   *)
ViewsAgree ==
  LET walked == Sync("walk", Archives[1], Root, disk, handle, FALSE)[3] IN
  \A a \in Paths, e \in Entries :
    LET S(op) == Sync(op, a, e, disk, handle, FALSE)
        exists == S("exists") = Ok("true")
    IN  /\ exists <=> ~Failed(S("lstat"))
        /\ exists <=> S("moduleStat") # Ok("missing")
        /\ S("moduleStat") = Ok("directory") => ~Failed(S("readdir"))
        /\ ~Failed(S("readdir")) =>
             \A x \in S("readdir")[3] : Sync("exists", a, x[1], disk, handle, FALSE) = Ok("true")
        /\ ~Failed(S("access")) => exists
        /\ Failed(S("access")) <=> Failed(S("open"))
        /\ Failed(S("access")) <=> Failed(S("readFile"))
        /\ Failed(S("readFile")) <=> S("packageJson") = Ok("false")
        /\ disk[a] # "absent" =>
             (e = Root \/ exists <=> <<a, e>> \in walked)

(* Once an archive is open the application sees its entries unchanged for  *)
(* as long as it runs, also after an update replaced or removed the file.  *)
ArchiveStays ==
  [][\/ UNCHANGED <<disk, handle>>
     \/ \A a \in Paths, e \in Entries, op \in {"lstat", "readdir", "moduleStat"} :
          ~Closed(handle[a]) =>
            Sync(op, a, e, disk, handle, FALSE) = Sync(op, a, e, disk', handle', FALSE)]_vars

(* Every callback is called: a call in flight gets its answer, unless the  *)
(* process ends on a hash that differs.                                    *)
EveryCallAnswered ==
  \A c \in Calls : call[c].stage # "idle" ~> (call[c].stage = "idle" \/ exited)
=============================================================================
