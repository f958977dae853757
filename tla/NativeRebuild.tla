---------------------------- MODULE NativeRebuild ----------------------------
(***************************************************************************)
(* lynxtronRebuild of packages/lynxtron-rebuild: the Node headers of this  *)
(* version are downloaded once into the package's dist directory, on       *)
(* Windows an import library is put next to them, and the native modules   *)
(* of an application are built against them one after the other.  One      *)
(* rebuild runs at a time; it may fail or be killed at every step and is   *)
(* started again.                                                          *)
(***************************************************************************)
EXTENDS Naturals, Sequences

CONSTANTS
  HeaderFiles,
  NativeModules,   \* how many modules have a binding.gyp
  Windows,
  MaxRebuilds      \* bound: how often the rebuild is started

ASSUME RebuildAssumption ==
  Windows \in BOOLEAN /\ NativeModules \in Nat /\ MaxRebuilds \in Nat \ {0}

VARIABLES
  published,       \* what is published holds its files in node_headers
  present,       \* v<version> exists
  headers,       \* the headers in it
  nodeHeaders,   \* the files in node_headers, where the zip is extracted
  headersZip,    \* the zip: "none", "part" or "whole"
  nodeLib,       \* node.lib for each configuration: "none", "part", "whole"
  copying,       \* the configuration whose node.lib is being copied
  built,         \* how many modules this rebuild has built
  rebuildStep,
  rebuilds

fetchVars == <<published, headers, nodeHeaders, headersZip>>
rebuildVars == <<fetchVars, present, nodeLib, copying, built, rebuildStep, rebuilds>>

Configurations == {"Release", "Debug"}
RebuildEnded == {"done", "failed", "killed"}

RebuildInit ==
  /\ published \in BOOLEAN /\ present = FALSE
  /\ headers = {} /\ nodeHeaders = {} /\ headersZip = "none"
  /\ nodeLib = [c \in Configurations |-> "none"] /\ copying = "none"
  /\ built = 0 /\ rebuildStep = "look" /\ rebuilds = 1

(* A directory that exists is taken for the headers, and not looked into.  *)
LookForHeaders ==
  /\ rebuildStep = "look"
  /\ rebuildStep' = IF present THEN "seed" ELSE "download"
  /\ UNCHANGED <<fetchVars, present, nodeLib, copying, built, rebuilds>>

(* downloadFile: a failed request writes nothing, a failed write a part.   *)
DownloadHeaders ==
  /\ rebuildStep = "download"
  /\ \/ headersZip' = "part" /\ UNCHANGED rebuildStep
     \/ headersZip' = "whole" /\ rebuildStep' = "extract"
     \/ rebuildStep' = "failed" /\ UNCHANGED headersZip
  /\ UNCHANGED <<published, present, headers, nodeHeaders, nodeLib, copying, built, rebuilds>>

(* zip.uncompress, over whatever an earlier one left there; what is not in *)
(* node_headers goes to places that nobody looks at.                       *)
Extractable == IF published THEN HeaderFiles ELSE {}
ExtractHeaders ==
  /\ rebuildStep = "extract"
  /\ \/ \E f \in Extractable \ nodeHeaders :
          nodeHeaders' = nodeHeaders \cup {f} /\ UNCHANGED rebuildStep
     \/ Extractable \subseteq nodeHeaders /\ rebuildStep' = "rename" /\ UNCHANGED nodeHeaders
     \/ rebuildStep' = "failed" /\ UNCHANGED nodeHeaders
  /\ UNCHANGED <<published, present, headers, headersZip, nodeLib, copying, built, rebuilds>>

(* Where the zip has no node_headers there is nothing to rename, and the   *)
(* rebuild goes on without headers.                                        *)
RenameHeaders ==
  /\ rebuildStep = "rename"
  /\ IF nodeHeaders # {}
     THEN present' = TRUE /\ headers' = nodeHeaders /\ nodeHeaders' = {}
     ELSE UNCHANGED <<present, headers, nodeHeaders>>
  /\ rebuildStep' = "unlink"
  /\ UNCHANGED <<published, headersZip, nodeLib, copying, built, rebuilds>>

UnlinkZip ==
  /\ rebuildStep = "unlink"
  /\ headersZip' = "none" /\ rebuildStep' = "seed"
  /\ UNCHANGED <<published, present, headers, nodeHeaders, nodeLib, copying, built, rebuilds>>

(* ensureWindowsNodeLib: for each configuration its directory is made, and *)
(* v<version> with it, and the library is copied.  A library that exists   *)
(* is not copied again; where the lynxtron package has none, none is.      *)
SeedNodeLib ==
  /\ rebuildStep = "seed"
  /\ \/ \E c \in Configurations :
          /\ Windows /\ copying = "none" /\ nodeLib[c] = "none"
          /\ present' = TRUE /\ copying' = c /\ UNCHANGED <<nodeLib, rebuildStep>>
     \/ /\ copying # "none"
        /\ nodeLib' = [nodeLib EXCEPT ![copying] = IF @ = "none" THEN "part" ELSE "whole"]
        /\ copying' = IF nodeLib[copying] = "none" THEN copying ELSE "none"
        /\ UNCHANGED <<present, rebuildStep>>
     \/ copying = "none" /\ rebuildStep' = "build" /\ UNCHANGED <<present, nodeLib, copying>>
     \/ rebuildStep' = "failed" /\ copying' = "none" /\ UNCHANGED <<present, nodeLib>>
  /\ UNCHANGED <<fetchVars, built, rebuilds>>

(* One node-gyp per module, in order; the first that fails ends the loop.  *)
BuildModule ==
  /\ rebuildStep = "build"
  /\ \/ built < NativeModules /\ built' = built + 1 /\ UNCHANGED rebuildStep
     \/ built < NativeModules /\ rebuildStep' = "failed" /\ UNCHANGED built
     \/ built = NativeModules /\ rebuildStep' = "done" /\ UNCHANGED built
  /\ UNCHANGED <<fetchVars, present, nodeLib, copying, rebuilds>>

RebuildKilled ==
  /\ rebuildStep \notin RebuildEnded
  /\ rebuildStep' = "killed" /\ copying' = "none"
  /\ UNCHANGED <<fetchVars, present, nodeLib, built, rebuilds>>

RebuildAgain ==
  /\ rebuildStep \in RebuildEnded /\ rebuilds < MaxRebuilds
  /\ rebuilds' = rebuilds + 1
  /\ rebuildStep' = "look" /\ built' = 0
  /\ UNCHANGED <<fetchVars, present, nodeLib, copying>>

RebuildStep ==
  \/ LookForHeaders \/ DownloadHeaders \/ ExtractHeaders \/ RenameHeaders
  \/ UnlinkZip \/ SeedNodeLib \/ BuildModule
RebuildNext == RebuildStep \/ RebuildKilled \/ RebuildAgain

RebuildSpec == RebuildInit /\ [][RebuildNext]_rebuildVars
-----------------------------------------------------------------------------
(* downloadHeaders: where what is published has its files in node_headers, *)
(* the directory whose existence makes later rebuilds skip the download    *)
(* has all of them, whatever killed or failed rebuilds left in the places  *)
(* where they are prepared, and nothing is built before it is there.       *)
(* Where it has not, the directory never holds headers, and rebuilds go on *)
(* without them: nobody looks.                                             *)
HeadersWhole ==
  /\ headers \in {{}, IF published THEN HeaderFiles ELSE {}}
  /\ published /\ (present \/ rebuildStep \in {"unlink", "seed", "build", "done"}) => headers = HeaderFiles
=============================================================================
