------------------------------ MODULE AutoLink ------------------------------
(***************************************************************************)
(* AutoLink of packages/lynxtron-dev-plugins and lynxtron-builder: the     *)
(* dependencies with a lynx.lib.json are resolved for one target, a module *)
(* that loads them becomes part of the entry, their artifacts are copied   *)
(* into the output directory, and the builder finds them there again.      *)
(*                                                                         *)
(* The dependencies and their files are resolved three times, when the     *)
(* plugin is applied, before each run of the compiler and after it emitted *)
(* its assets; package.json and node_modules may change in between.        *)
(***************************************************************************)
EXTENDS Naturals, FiniteSets

CONSTANTS
  Packages,
  Rank,         \* Rank[p]: the place of p in the order of the names
  Targets,      \* pairs of os and arch
  Apple,        \* the targets of darwin
  Artifacts,
  Shape,        \* what an artifact is on disk: see Shapes
  Pointed,      \* Pointed[a]: the artifact a symbolic link points to
  Contents,     \* what a package may be in node_modules: see IsContent
  Posix,        \* on the host a backslash is part of a file's name
  MaxEdits      \* bound: changes of package.json and node_modules

Shapes == {"file", "folder", "skipped", "link", "outside"}

(* A manifest lists entries per target; platforms tells whether it has a   *)
(* lynxtron record.  Its flaws are a name or path that neither reader      *)
(* takes, a path that is only "./", and a target that is null.  An entry   *)
(* declares artifacts, spelled with slashes, with backslashes or with two  *)
(* dots in front of a name, and frameworks among them or not; odd is one   *)
(* with a field of an older schema or a misnamed framework.  A content is  *)
(* the manifest, the artifacts that are there, whether the package's own   *)
(* entry is, and the name its package.json has, "" when it has none.       *)
Flaws == {"schema", "root", "null"}
Spellings == {"plain", "backslash", "dots"}
IsManifest(m) ==
  /\ m.flaws \subseteq Flaws /\ m.platforms \in BOOLEAN
  /\ \A t \in Targets :
       /\ IsFiniteSet(m.entries[t])
       /\ \A x \in m.entries[t] :
            /\ x.arts \subseteq Artifacts /\ x.spelled \in [x.arts -> Spellings]
            /\ x.frameworks \in BOOLEAN /\ x.odd \in BOOLEAN
Absent ==
  [manifest |-> [flaws |-> {}, platforms |-> FALSE, entries |-> [t \in Targets |-> {}]],
   present |-> {}, entry |-> FALSE, name |-> ""]
IsContent(c) ==
  /\ DOMAIN c = DOMAIN Absent
  /\ c.present \subseteq Artifacts /\ c.entry \in BOOLEAN /\ c.name \in Packages \cup {""}
  /\ IsManifest(c.manifest)

ASSUME AutoLinkAssumption ==
  /\ Rank \in [Packages -> Nat] /\ \A p, q \in Packages : Rank[p] = Rank[q] => p = q
  /\ Apple \subseteq Targets /\ Shape \in [Artifacts -> Shapes]
  /\ Pointed \in [Artifacts -> Artifacts]
  /\ \A c \in Contents : IsContent(c)
  /\ Posix \in BOOLEAN /\ MaxEdits \in Nat

VARIABLES
  dependencies,  \* what package.json names
  nodeModules,   \* the content of each package, Absent where there is none
  edits,         \* how often these two changed
  compiler,      \* its phase, its target, and when it resolved the libraries
  register,      \* the libraries in register.mjs
  aliases,       \* those with an alias to a proxy module
  bundle,        \* those the emitted entry loads
  staged         \* the output's .lynxtron/native: a content, or Absent

autoLinkVars ==
  <<dependencies, nodeModules, edits, compiler, register, aliases, bundle, staged>>

AutoLinkInit ==
  /\ dependencies = {} /\ nodeModules = [p \in Packages |-> Absent] /\ edits = 0
  /\ compiler \in [phase : {"new"}, target : Targets, applied : {0}, ran : {0},
                   stagedAt : {0}, libraries : {{}},
                   clean : {FALSE}]
  /\ register = {} /\ aliases = {} /\ bundle = {}
  /\ staged = [p \in Packages |-> Absent]
-----------------------------------------------------------------------------
(* Resolution. *)

(* matchNodeApiManifestEntry: every declaration is validated, also those   *)
(* of other targets; a target that is no object is dropped, and a path is  *)
(* looked at with its backslashes turned and a leading ./ gone.  Then the  *)
(* one entry of this target.                                               *)
Refused(m, t) ==
  /\ m.platforms
  /\ \/ m.flaws \cap {"schema", "root"} # {}
     \/ Cardinality(m.entries[t]) > 1
     \/ \E x \in m.entries[t] : x.odd \/ (x.frameworks /\ t \notin Apple)

Matched(m, t) == IF m.platforms THEN UNION {x.arts : x \in m.entries[t]} ELSE {}

ResolveThrows(t) == \E p \in dependencies : Refused(nodeModules[p].manifest, t)

(* A dependency that is not installed, that has no matching target or      *)
(* nothing in it is skipped; missing artifacts only cause a warning.       *)
ResolveAutoLinks(t) == 
  {p \in dependencies : Matched(nodeModules[p].manifest, t) # {}}
-----------------------------------------------------------------------------
(* Staging. *)

(* copyPath of one declared artifact.  What does not exist is left out, so *)
(* is a directory named like build or node_modules; a symbolic link is     *)
(* copied as a link.                                                       *)
CopyThrows(a) == Shape[a] = "outside"
Copied(as) == {a \in as : Shape[a] # "skipped"}

StageThrows(p, t) ==
  \E a \in Matched(nodeModules[p].manifest, t) \cap nodeModules[p].present : CopyThrows(a)

StageLibrary(p, t) ==
  LET c == nodeModules[p]
  IN  [c EXCEPT !.present = Copied(Matched(c.manifest, t) \cap c.present)]

(* stageAutoLinkLibraries: in the order of the names, up to one that       *)
(* throws, of which some artifacts are there.  The directories of          *)
(* libraries that went away are not removed.                               *)
StageUpTo(L, t, some) ==
  LET thrown == {p \in L : StageThrows(p, t)}
      first == {p \in thrown : \A q \in thrown : Rank[p] <= Rank[q]}
      before == {p \in L : \A q \in thrown : Rank[p] < Rank[q]}
  IN  [p \in Packages |->
         CASE p \in before -> StageLibrary(p, t)
           [] p \in first -> [StageLibrary(p, t) EXCEPT !.present = some \cap @]
           [] OTHER -> staged[p]]
-----------------------------------------------------------------------------
(* The plugin. *)

Phase(p) == compiler' = [compiler EXCEPT !.phase = p]

(* applyLynxtronAutoLink: only here are the aliases made.                  *)
ApplyAutoLink ==
  /\ compiler.phase = "new"
  /\ IF ResolveThrows(compiler.target)
     THEN Phase("failed") /\ UNCHANGED <<register, aliases>>
     ELSE /\ register' = ResolveAutoLinks(compiler.target)
          /\ aliases' = register'
          /\ compiler' = [compiler EXCEPT !.phase = "applied", !.applied = edits]
  /\ UNCHANGED <<dependencies, nodeModules, edits, bundle, staged>>

(* beforeRun and watchRun. *)
Regenerate ==
  /\ compiler.phase \in {"applied", "built", "stuck"}
  /\ IF ResolveThrows(compiler.target)
     THEN Phase("stuck") /\ UNCHANGED register
     ELSE /\ register' = ResolveAutoLinks(compiler.target)
          /\ compiler' = [compiler EXCEPT !.phase = "running", !.ran = edits]
  /\ UNCHANGED <<dependencies, nodeModules, edits, aliases, bundle, staged>>

FaultyEmitAssets(clean) ==  \* what was staged before survives the cleaning
  /\ compiler.phase = "running"
  /\ bundle' = register
  /\ compiler' = [compiler EXCEPT !.phase = "emitted", !.clean = clean]
  /\ UNCHANGED <<dependencies, nodeModules, edits, register, aliases, staged>>

(* The compiler emits the entry; Rsbuild cleans the output directory.      *)
EmitAssets(clean) ==
  /\ compiler.phase = "running"
  /\ bundle' = register
  /\ staged' = IF clean THEN [p \in Packages |-> Absent] ELSE staged
  /\ compiler' = [compiler EXCEPT !.phase = "emitted", !.clean = clean]
  /\ UNCHANGED <<dependencies, nodeModules, edits, register, aliases>>

(* afterEmit. *)
Stage ==
  /\ compiler.phase = "emitted"
  /\ LET t == compiler.target
         L == ResolveAutoLinks(t)
     IN  IF ResolveThrows(t)
         THEN Phase("stuck") /\ UNCHANGED staged
         ELSE /\ \E some \in SUBSET Artifacts : staged' = StageUpTo(L, t, some)
              /\ IF \E p \in L : StageThrows(p, t)
                 THEN Phase("stuck")
                 ELSE compiler' = [compiler EXCEPT !.phase = "built", !.stagedAt = edits,
                                                   !.libraries = L]
  /\ UNCHANGED <<dependencies, nodeModules, edits, register, aliases, bundle>>

(* A new process, perhaps for another target, over the same output.        *)
NewCompiler(t) ==
  /\ compiler.phase \in {"built", "stuck", "failed"} /\ edits < MaxEdits
  /\ compiler' = [compiler EXCEPT !.phase = "new", !.target = t]
  /\ edits' = edits + 1
  /\ aliases' = {}
  /\ UNCHANGED <<dependencies, nodeModules, register, bundle, staged>>

(* npm or the developer changes one package and whether it is needed.      *)
EditPackage(p, needed, c) ==
  /\ edits < MaxEdits /\ edits' = edits + 1
  /\ dependencies' = IF needed THEN dependencies \cup {p} ELSE dependencies \ {p}
  /\ nodeModules' = [nodeModules EXCEPT ![p] = c]
  /\ UNCHANGED <<compiler, register, aliases, bundle, staged>>

AutoLinkNext ==
  \/ ApplyAutoLink \/ Regenerate \/ Stage
  \/ \E clean \in BOOLEAN : EmitAssets(clean)
  \/ \E t \in Targets : NewCompiler(t)
  \/ \E p \in Packages, needed \in BOOLEAN, c \in Contents \cup {Absent} :
        EditPackage(p, needed, c)

AutoLinkSpec == AutoLinkInit /\ [][AutoLinkNext]_autoLinkVars
-----------------------------------------------------------------------------
(* Loading: generateLynxtronAutoLinkStagedCode.  The entry loads its       *)
(* libraries in order; the first that is not staged, or whose own entry is *)
(* not there, throws and no code behind it runs.                           *)
Loads(p) == staged[p] # Absent /\ staged[p].entry
AppStarts == \A p \in bundle : Loads(p)

(* Packaging: discoverAutoLinkLibraries of the builder takes every staged  *)
(* directory that has a manifest with a lynxtron record.                   *)
Discovered == {p \in Packages : staged[p].manifest.platforms}

(* resolveArtifactPaths resolves a path as it is spelled: with backslashes *)
(* it names another file where they do not separate, and a name that       *)
(* begins with two dots looks as if it led out of the package.  The path   *)
(* that the plugin copied is the other one.  fs.existsSync follows a link. *)
Understood(spelling) == spelling = "plain" \/ (spelling = "backslash" /\ ~Posix)
OnDisk(c, a) ==
  a \in c.present /\ (Shape[a] = "link" => Pointed[a] \in c.present)

(* A target that is no object, and a package without a name, throw here.   *)
PackagingRefuses(p, t) ==
  LET c == staged[p]
      m == c.manifest
  IN  \/ c.name = "" \/ m.flaws \cap {"schema", "null"} # {} \/ Cardinality(m.entries[t]) # 1
      \/ \E x \in m.entries[t] : \/ x.odd \/ x.arts = {} \/ (x.frameworks /\ t \notin Apple)
                                \/ \E a \in x.arts : ~Understood(x.spelled[a]) \/ ~OnDisk(c, a)

PackagingThrows(t) == \E p \in Discovered : PackagingRefuses(p, t)

(* prepareAutoLinkPackaging leaves these packages out of the application's *)
(* own node_modules: by the names that they have themselves, not by those  *)
(* that package.json depends on them by.                                   *)
LeftOut(t) == IF PackagingThrows(t) THEN {} ELSE {staged[p].name : p \in Discovered}
-----------------------------------------------------------------------------
(* The plugin and the builder read the manifest with code of their own:    *)
(* what the plugin staged, the builder accepts when it packages the same   *)
(* target, except for these: a package without a name, a target that is    *)
(* null, a path that the two resolve to different files, an artifact that  *)
(* was missing (a warning says so) or that the copy leaves out, or a link  *)
(* to something not declared.                                              *)
StagedIsPackaged ==
  compiler.phase = "built" /\ compiler.stagedAt = edits =>
    \A p \in compiler.libraries : PackagingRefuses(p, compiler.target) =>
      LET c == nodeModules[p]
      IN  \/ c.name = "" \/ "null" \in c.manifest.flaws
          \/ \E x \in c.manifest.entries[compiler.target] : \E a \in x.arts :
               \/ a \notin c.present \/ Shape[a] = "skipped" \/ ~Understood(x.spelled[a])
               \/ Shape[a] = "link" /\ ~OnDisk(staged[p], a)

(* The entry, the aliases and the output come from three resolutions.      *)
(* Unless package.json or node_modules changed between the last two, the   *)
(* entry loads nothing that is not staged, and starts the application when *)
(* the libraries have their entries; unless they changed since the         *)
(* plugin was applied, what it loads is what imports are aliased to, so    *)
(* that there is one instance of each library.                             *)
BuiltFromOneState ==
  compiler.phase = "built" /\ compiler.ran = compiler.stagedAt =>
    /\ \A p \in bundle : staged[p] # Absent
    /\ compiler.stagedAt = edits /\ (\A p \in bundle : nodeModules[p].entry) => AppStarts
    /\ compiler.applied = compiler.stagedAt => bundle = aliases

(* A name the builder leaves out of the application's node_modules is that *)
(* of a package which the entry brings, when the output was cleaned for    *)
(* this build.  Where package.json depends on packages by their own names, *)
(* it is that package.                                                     *)
LeftOutIsLoaded ==
  compiler.phase = "built" /\ compiler.clean /\ compiler.ran = compiler.stagedAt =>
    /\ \A n \in LeftOut(compiler.target) : \E p \in bundle : staged[p].name = n
    /\ (\A p \in bundle : staged[p].name = p) => LeftOut(compiler.target) \subseteq bundle

(* What the four parts of AutoLink (the resolution, the staging, the entry *)
(* and the packager), each with code of its own, make of one state of the  *)
(* packages fits together.                                                 *)
StagingAgrees == StagedIsPackaged /\ BuiltFromOneState /\ LeftOutIsLoaded
=============================================================================
