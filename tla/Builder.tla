------------------------------- MODULE Builder -------------------------------
(***************************************************************************)
(* lynxtron-builder: for the architectures that the command line or the    *)
(* configuration names, one after the other, the runtime of the            *)
(* architecture is fetched, the configuration is rewritten for it and      *)
(* electron-builder is run on the result; two slices make a universal      *)
(* application.                                                            *)
(***************************************************************************)
EXTENDS Naturals, Sequences, FiniteSets, SequencesExt

CONSTANTS
  Archs,          \* the architectures without "universal"
  HostArch,
  BuilderConfigs, \* see IsConfig
  CommandLines    \* sequences of architectures

(* The section of the platform: defaultArch; the field arch, which only    *)
(* the builder reads; and the targets, objects with their architectures or *)
(* texts, "zip" or "zip:x64", of which only electron-builder reads one.    *)
IsConfig(c) ==
  /\ c.defaults \cup c.legacy \subseteq Archs \cup {"universal"}
  /\ \A t \in c.targets :
       /\ DOMAIN t = {"name", "archs", "text"} /\ t.text \in BOOLEAN
       /\ t.archs \subseteq Archs \cup {"universal"}

ASSUME BuilderAssumption ==
  /\ {"x64", "arm64", HostArch} \subseteq Archs /\ IsFiniteSet(Archs)
  /\ "universal" \notin Archs /\ "all" \notin Archs
  /\ \A c \in BuilderConfigs : IsConfig(c)
  /\ \A l \in CommandLines : l \in Seq(Archs) /\ IsInjective(l)

VARIABLES
  yaml,       \* lynxtron-builder's own configuration file
  flags,      \* the command line: its architectures, --universal and the platform
  plan,       \* the architectures still to build; "all" is a run without one
  universal,  \* the plan ends with merging two slices
  running,    \* the configuration, the architecture and the runtime of a run
  tempConfig, \* config.json exists
  made,       \* the packages: target, architecture, runtime
  builderStep

builderVars == <<yaml, flags, plan, universal, running, tempConfig, made, builderStep>>

Idling == [config |-> [defaults |-> {}, legacy |-> {}, targets |-> {}], flags |-> {}, runtime |-> HostArch]

BuilderInit ==
  /\ yaml \in BuilderConfigs
  /\ flags \in [archs : CommandLines, universal : BOOLEAN, darwin : BOOLEAN]
  /\ plan = {} /\ universal = FALSE /\ running = Idling
  /\ tempConfig = FALSE /\ made = {} /\ builderStep = "plan"
-----------------------------------------------------------------------------
(* runtime-config.js. *)

Bare(t) == t.text /\ t.name = "universal"

(* What the targets say replaces the default architectures.                *)
NamedArchs(c) ==
  UNION {IF Bare(t) THEN {"universal"} ELSE t.archs : t \in {u \in c.targets : Bare(u) \/ ~u.text}}
ConfiguredArchs(c) == IF NamedArchs(c) # {} THEN NamedArchs(c) ELSE c.defaults \cup c.legacy

ResolveArchitecture(arch, cli, c) ==
  CASE arch # "all" -> arch
    [] arch = "all" /\ cli # <<>> -> Head(cli)
    [] arch = "all" /\ cli = <<>> /\ Cardinality(ConfiguredArchs(c)) = 1 ->
         CHOOSE a \in ConfiguredArchs(c) : TRUE
    [] OTHER -> HostArch

IsUniversal(f, c) ==
  f.universal \/ (f.darwin /\ f.archs = <<>> /\ "universal" \in ConfiguredArchs(c))

BuildPlan(f, c) ==
  LET named == IF f.archs # <<>> THEN ToSet(f.archs)
               ELSE ConfiguredArchs(c) \ {"universal"}
  IN  CASE IsUniversal(f, c) -> {"x64", "arm64"}
        [] ~IsUniversal(f, c) /\ Cardinality(named) > 1 -> named
        [] OTHER -> {"all"}

FaultyApplyArchitecture(c, arch, filter) ==  \* the targets keep their architectures
  [defaults |-> IF c.defaults = {} THEN {} ELSE {arch},
   legacy |-> IF c.legacy = {} THEN {} ELSE {arch},
   targets |-> {t \in c.targets : ~Bare(t)}]

(* A text stays as it is, also the architecture in it.                     *)
ApplyArchitecture(c, arch, filter) ==
  LET kept(t) == ~t.text /\ filter => t.archs = {} \/ t.archs \cap {arch, "universal"} # {}
  IN  [defaults |-> IF c.defaults = {} THEN {} ELSE {arch},
       legacy |-> IF c.legacy = {} THEN {} ELSE {arch},
       targets |-> {[t EXCEPT !.archs = IF t.text \/ @ = {} THEN @ ELSE {arch}] :
                      t \in {u \in c.targets : ~Bare(u) /\ kept(u)}}]

(* electron-builder: a target without architectures is built for those of  *)
(* the command line, or else the default; an architecture of the command   *)
(* line that no target takes has a default one, and so has a configuration *)
(* without targets.  It has no target "universal", and may fail at one.    *)
ElectronBuilder(r) ==
  LET targets == {t \in r.config.targets : ~Bare(t)}
      others == CASE r.flags # {} -> r.flags
                  [] r.flags = {} /\ r.config.defaults # {} -> r.config.defaults
                  [] OTHER -> {HostArch}
      archs(t) == IF t.archs = {} THEN others ELSE t.archs
      alone == {a \in IF targets = {} THEN others ELSE r.flags : \A t \in targets : a \notin archs(t)}
  IN  {[target |-> "default", arch |-> a, runtime |-> r.runtime] : a \in alone}
        \cup UNION {{[target |-> t.name, arch |-> a, runtime |-> r.runtime] : a \in archs(t)} : t \in targets}
-----------------------------------------------------------------------------
(* build of cli.js. *)

MakePlan ==
  /\ builderStep = "plan"
  /\ universal' = IsUniversal(flags, yaml)
  /\ plan' = BuildPlan(flags, yaml)
  /\ builderStep' = "run"
  /\ UNCHANGED <<yaml, flags, running, tempConfig, made>>

(* runBuild, up to the start of electron-builder.                          *)
RunBuild(arch) ==
  LET a == ResolveArchitecture(arch, flags.archs, yaml)
      applies == arch # "all" \/ Len(flags.archs) = 1
  IN  /\ builderStep = "run" /\ arch \in plan
      /\ running' = [config |-> IF applies THEN ApplyArchitecture(yaml, a, arch # "all")
                                ELSE yaml,
                     flags |-> IF arch = "all" THEN ToSet(flags.archs) ELSE {arch},
                     runtime |-> a]
      /\ plan' = plan \ {arch} /\ tempConfig' = TRUE /\ builderStep' = "spawned"
      /\ UNCHANGED <<yaml, flags, universal, made>>

(* electron-builder ends with code 0.                                      *)
Spawned ==
  /\ builderStep = "spawned"
  /\ made' = made \cup ElectronBuilder(running)
  /\ builderStep' = IF plan # {} THEN "run" ELSE IF universal THEN "merge" ELSE "cleanup"
  /\ UNCHANGED <<yaml, flags, plan, universal, running, tempConfig>>

(* makeUniversal: the two slices are merged, and electron-builder makes    *)
(* what the configuration as it was read asks for out of the universal     *)
(* application, the targets for other architectures too.  The slices are   *)
(* where it looks for them when they are those of macOS.                   *)
MergeRun == [config |-> yaml, flags |-> {"universal"}, runtime |-> "universal"]
MakeUniversal ==
  /\ builderStep = "merge" /\ flags.darwin
  /\ running' = MergeRun
  /\ made' = made \cup ElectronBuilder(MergeRun)
  /\ tempConfig' = TRUE /\ builderStep' = "cleanup"
  /\ UNCHANGED <<yaml, flags, plan, universal>>

(* A runtime that cannot be fetched, packaging that refuses the staged     *)
(* libraries, or electron-builder's exit code: the finally block runs.     *)
BuildFails ==
  /\ builderStep \in {"run", "spawned", "merge"}
  /\ tempConfig' = FALSE /\ builderStep' = "failed"
  /\ UNCHANGED <<yaml, flags, plan, universal, running, made>>

CleanUp ==
  /\ builderStep = "cleanup"
  /\ tempConfig' = FALSE /\ builderStep' = "done"
  /\ UNCHANGED <<yaml, flags, plan, universal, running, made>>

BuilderNext ==
  \/ MakePlan \/ Spawned \/ MakeUniversal \/ BuildFails \/ CleanUp
  \/ \E arch \in Archs \cup {"all"} : RunBuild(arch)

BuilderSpec == BuilderInit /\ [][BuilderNext]_builderVars
-----------------------------------------------------------------------------
(* runtime-config.js: a package has the runtime of its own architecture,   *)
(* except where the builder does not tell electron-builder which one:      *)
(* a text target with an architecture in it; a target of the configuration *)
(* for an architecture of its own, once the merged application is          *)
(* packaged; and, when one architecture is configured, what leaves the     *)
(* choice to electron-builder, a target without architectures or no        *)
(* target and no defaultArch, on a host that has another one.              *)
Untold(m) ==
  \/ \E t \in yaml.targets : t.name = m.target /\ t.text /\ m.arch \in t.archs
  \/ universal /\ m.runtime = "universal" /\ \E t \in yaml.targets : t.name = m.target /\ m.arch \in t.archs
  \/ /\ flags.archs = <<>> /\ ConfiguredArchs(yaml) = {m.runtime}
     /\ \/ \E t \in yaml.targets : t.name = m.target /\ t.archs = {}
        \/ yaml.targets = {} /\ yaml.defaults = {}
RuntimeOfItsOwn == \A m \in made : m.runtime = m.arch \/ Untold(m)

(* A build that succeeds made something for every architecture it was      *)
(* asked for, and for none that neither the command line names nor a       *)
(* target that says so itself.  It did not for a single default that       *)
(* electron-builder does not read, or that every target has its own for.   *)
AskedIsMade ==
  builderStep = "done" =>
    LET archs == {m.arch : m \in made}
        extra(T) == UNION {t.archs : t \in T}
        texts == {t \in yaml.targets : t.text}
        C == ConfiguredArchs(yaml)
    IN  CASE universal -> /\ {"x64", "arm64", "universal"} \subseteq archs
                          /\ archs \subseteq {"x64", "arm64", "universal"} \cup extra(yaml.targets)
          [] ~universal /\ flags.archs # <<>> ->
               ToSet(flags.archs) \subseteq archs /\ archs \subseteq ToSet(flags.archs) \cup extra(texts)
          [] OTHER -> \/ C \ {"universal"} \subseteq archs
                      \/ /\ C = yaml.defaults \cup yaml.legacy /\ Cardinality(C) = 1
                         /\ yaml.defaults = {} \/ \A t \in yaml.targets : t.archs # {}

(* The packages of a build are those that were asked for, each with the    *)
(* runtime of its architecture.  Away from macOS nothing is universal.     *)
Sensible == flags.darwin \/ "universal" \notin ConfiguredArchs(yaml)
BuiltAsAsked == Sensible => RuntimeOfItsOwn /\ AskedIsMade
=============================================================================
