----------------------------- MODULE CefInstall -----------------------------
(***************************************************************************)
(* scripts/install.js of packages/cef-webview: npm's postinstall brings    *)
(* the CEF web view into dist/<platform>/<arch> of the package.  The       *)
(* script is started again by later installations, with or without         *)
(* npm_config_force_download, and may fail or be killed at every step.     *)
(* The zip, the directory it is extracted to and the installed items all   *)
(* live in the directory whose existence says that it is installed.        *)
(***************************************************************************)
EXTENDS Naturals

CONSTANTS
  Items,        \* the entries of the archive
  Framework,    \* the one macOS needs links in
  Darwin,       \* PLATFORM === 'darwin'
  MaxCefRuns    \* bound: how often the script is started

ASSUME CefAssumption ==
  Framework \in Items /\ Darwin \in BOOLEAN /\ MaxCefRuns \in Nat \ {0}

VARIABLES
  cefDir,     \* CEF_WEBVIEW_PATH exists
  items,      \* the items at their place in it
  extracted,  \* the items in _tmp_extract
  zip,        \* <version>.zip: "none", "part" or "whole"
  cefStep,
  forced,     \* npm_config_force_download of this start
  cefRuns

cefVars == <<cefDir, items, extracted, zip, cefStep, forced, cefRuns>>

CefSteps == {"check", "prepare", "download", "extract", "move", "finish",
             "present", "installed", "failed", "killed"}
CefEnded == {"present", "installed", "failed", "killed"}

CefInit ==
  /\ cefDir = FALSE /\ items = {} /\ extracted = {} /\ zip = "none"
  /\ cefStep = "check" /\ forced \in BOOLEAN /\ cefRuns = 1

(* ensureDarwinFrameworkLinks throws where the framework is not whole. *)
LinksFail == Darwin /\ Framework \notin items

HasDownloadCefWebview == cefDir

CefCheck ==
  /\ cefStep = "check"
  /\ cefStep' = CASE ~HasDownloadCefWebview \/ forced -> "prepare"
                  [] LinksFail -> "failed"
                  [] OTHER -> "present"
  /\ UNCHANGED <<cefDir, items, extracted, zip, forced, cefRuns>>

(* A zip that was left behind makes the script start from nothing. *)
CefPrepare ==
  /\ cefStep = "prepare"
  /\ cefDir' = TRUE
  /\ IF zip = "none" THEN UNCHANGED <<items, extracted, zip>>
     ELSE items' = {} /\ extracted' = {} /\ zip' = "none"
  /\ cefStep' = "download"
  /\ UNCHANGED <<forced, cefRuns>>

(* fs.writeFile puts the bytes there in pieces; a failure removes them.    *)
CefDownload ==
  /\ cefStep = "download"
  /\ \/ zip' = "part" /\ UNCHANGED cefStep
     \/ zip' = "whole" /\ cefStep' = "extract"
     \/ zip' = "none" /\ cefStep' = "failed"
  /\ UNCHANGED <<cefDir, items, extracted, forced, cefRuns>>

CefExtract ==
  /\ cefStep = "extract"
  /\ \/ \E i \in Items \ extracted : extracted' = extracted \cup {i} /\ UNCHANGED cefStep
     \/ extracted = Items /\ cefStep' = "move" /\ UNCHANGED extracted
     \/ cefStep' = "failed" /\ UNCHANGED extracted
  /\ UNCHANGED <<cefDir, items, zip, forced, cefRuns>>

FaultyCefMove ==  \* an item that cannot be moved is passed over
  /\ cefStep = "move"
  /\ \/ \E i \in extracted :
          /\ items' \in {items, items \cup {i}} /\ extracted' = extracted \ {i}
          /\ UNCHANGED cefStep
     \/ extracted = {} /\ cefStep' = "finish" /\ UNCHANGED <<items, extracted>>
  /\ UNCHANGED <<cefDir, zip, forced, cefRuns>>

(* Each item is renamed to its place; an item that is there already is     *)
(* replaced when it is a file, and makes the rename fail when it is a      *)
(* directory with something in it.                                         *)
CefMove ==
  /\ cefStep = "move"
  /\ \/ \E i \in extracted :
          /\ items' = items \cup {i} /\ extracted' = extracted \ {i}
          /\ UNCHANGED cefStep
     \/ extracted = {} /\ cefStep' = "finish" /\ UNCHANGED <<items, extracted>>
     \/ cefStep' = "failed" /\ UNCHANGED <<items, extracted>>
  /\ UNCHANGED <<cefDir, zip, forced, cefRuns>>

(* The temporary directory, the links and the zip; that the zip stays is   *)
(* not an error.                                                           *)
CefFinish ==
  /\ cefStep = "finish"
  /\ IF LinksFail THEN cefStep' = "failed" /\ UNCHANGED zip
     ELSE cefStep' = "installed" /\ zip' \in {"none", zip}
  /\ UNCHANGED <<cefDir, items, extracted, forced, cefRuns>>

CefKilled ==
  /\ cefStep \notin CefEnded
  /\ cefStep' = "killed"
  /\ UNCHANGED <<cefDir, items, extracted, zip, forced, cefRuns>>

CefStartAgain ==
  /\ cefStep \in CefEnded /\ cefRuns < MaxCefRuns
  /\ cefRuns' = cefRuns + 1
  /\ forced' \in BOOLEAN
  /\ cefStep' = "check"
  /\ UNCHANGED <<cefDir, items, extracted, zip>>

CefNext ==
  \/ CefCheck \/ CefPrepare \/ CefDownload \/ CefExtract \/ CefMove \/ CefFinish
  \/ CefKilled \/ CefStartAgain

CefSpec == CefInit /\ [][CefNext]_cefVars
-----------------------------------------------------------------------------
(* install.js: an installation that ran to its end has left every item at  *)
(* its place, also after killed and forced runs before it.                 *)
CefFinishedIsWhole == cefStep = "installed" => items = Items

(* What was brought once as a whole is only taken away by a forced run.    *)
CefKeepsItems == items = Items /\ items' # Items => forced
CefKept == [][CefKeepsItems]_cefVars

(* "if cef-webview is already installed, exit": a run that says so and     *)
(* exits is right.                                                         *)
CefPresentIsWhole == cefStep = "present" => items = Items
=============================================================================
