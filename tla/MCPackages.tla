----------------------------- MODULE MCPackages -----------------------------
(* The npm packages.  They share no state, so one of them, the focus,      *)
(* takes steps in a behaviour.                                             *)
EXTENDS RuntimeInstall, CefInstall, NativeRebuild, AutoLink, Builder

VARIABLE focus

pvars == <<focus, runtimeVars, cefVars, rebuildVars, autoLinkVars, builderVars>>

PackagesInit ==
  /\ focus \in {"runtime", "cef", "rebuild", "autolink", "builder"}
  /\ RuntimeInit /\ CefInit /\ RebuildInit /\ AutoLinkInit /\ BuilderInit
  /\ focus # "runtime" => runtimeDir = {}
  /\ focus # "cef" => forced = FALSE
  /\ focus # "rebuild" => published = TRUE
  /\ focus # "autolink" => compiler.target = CHOOSE t \in Targets : TRUE
  /\ focus # "builder" => /\ yaml = CHOOSE c \in BuilderConfigs : TRUE
                          /\ flags = [archs |-> <<>>, universal |-> FALSE, darwin |-> TRUE]

PackagesNext ==
  /\ UNCHANGED focus
  /\ \/ focus = "runtime" /\ RuntimeNext /\ UNCHANGED <<cefVars, rebuildVars, autoLinkVars, builderVars>>
     \/ focus = "cef" /\ CefNext /\ UNCHANGED <<runtimeVars, rebuildVars, autoLinkVars, builderVars>>
     \/ focus = "rebuild" /\ RebuildNext /\ UNCHANGED <<runtimeVars, cefVars, autoLinkVars, builderVars>>
     \/ focus = "autolink" /\ AutoLinkNext /\ UNCHANGED <<runtimeVars, cefVars, rebuildVars, builderVars>>
     \/ focus = "builder" /\ BuilderNext /\ UNCHANGED <<runtimeVars, cefVars, rebuildVars, autoLinkVars>>

(* A process that lives executes its next statement and its calls return.  *)
PackagesSpec ==
  /\ PackagesInit /\ [][PackagesNext]_pvars
  /\ \A p \in Installer :
       WF_pvars(/\ focus = "runtime" /\ UNCHANGED <<focus, cefVars, rebuildVars, autoLinkVars, builderVars>>
                /\ step[p] # "body" /\ Proceed(p))

(* EveryInstallEnds, of the behaviours in which the installers take steps. *)
InstallersEnd == focus = "runtime" => EveryInstallEnds
(* What an installation or a rebuild leaves as present is whole, the        *)
(* webview when its script ends, the headers at any time; and what was     *)
(* whole is only taken away by a forced installation.                       *)
InstalledIsWhole ==
  [][CefFinishedIsWhole' /\ HeadersWhole' /\ CefKeepsItems]_pvars

-----------------------------------------------------------------------------
(* Two targets; the artifacts are a file, a directory the copy skips, a    *)
(* link to the file and a link that leads outside.                         *)
MCTargets == {"mac", "win"}
MCRank == [p \in {"a", "b"} |-> IF p = "a" THEN 1 ELSE 2]
MCShape == [x \in {"lib", "build", "link", "away"} |->
              CASE x = "lib" -> "file" [] x = "build" -> "skipped"
                [] x = "link" -> "link" [] OTHER -> "outside"]
MCPointed == [x \in {"lib", "build", "link", "away"} |-> "lib"]

Entry(as, how, f, o) ==
  [arts |-> as, spelled |-> [x \in as |-> how], frameworks |-> f, odd |-> o]
Content(fs, mac, win, ps, e, n) ==
  [manifest |-> [flaws |-> fs, platforms |-> TRUE, entries |-> [mac |-> mac, win |-> win]],
   present |-> ps, entry |-> e, name |-> n]
MCContents ==
  LET lib == Entry({"lib"}, "plain", FALSE, FALSE)
      links == Entry({"lib", "link"}, "plain", TRUE, FALSE)
  IN
  {Content({}, {links}, {Entry({"lib"}, "backslash", FALSE, FALSE)}, {"lib", "link"}, TRUE, "a"),
   Content({}, {lib}, {Entry({"lib", "build"}, "dots", FALSE, FALSE)}, {"lib", "build"}, FALSE, ""),
   Content({}, {Entry({"link", "away"}, "plain", FALSE, FALSE)}, {Entry({"lib"}, "plain", FALSE, TRUE)},
           {"lib", "link", "away"}, TRUE, "b"),
   Content({"schema"}, {lib}, {Entry({"lib"}, "plain", TRUE, FALSE)}, {"lib"}, TRUE, "b"),
   Content({"null"}, {lib, Entry({"link"}, "plain", FALSE, FALSE)}, {lib}, {"lib"}, TRUE, "b")}

Target(n, as) == [archs |-> as, name |-> n, text |-> FALSE]
Text(n, as) == [Target(n, as) EXCEPT !.text = TRUE]
Sections(ds, ls, ts) == [defaults : ds, legacy : ls, targets : SUBSET ts]
MCConfigs ==
  Sections({{}, {"x64"}, {"arm64", "x64"}, {"universal"}}, {{}},
           {Text("dmg", {}), Target("zip", {"x64"}), Target("pkg", {"arm64", "x64"}),
            Target("mas", {"universal"}), Text("universal", {})})
  \cup Sections({{}, {"x64"}}, {{}, {"x64"}},
                {Text("dmg", {}), Text("zip", {"arm64"}), Target("pkg", {"x64"})})
MCCommandLines == {<<>>, <<"x64">>, <<"ia32", "arm64">>}
=============================================================================
