------------------------------ MODULE Installed ------------------------------
(***************************************************************************)
(* What the installers of the packages promise to whoever starts them: the *)
(* thing they install is there as a whole or not at all, it is never taken *)
(* away again, and nobody is told it is there while it is not.             *)
(***************************************************************************)
CONSTANT Installer

VARIABLES
  store,   \* "absent" or "whole"
  told     \* the installers that reported success

InstalledTypes == store \in {"absent", "whole"} /\ told \subseteq Installer

InstalledInit == store \in {"absent", "whole"} /\ told = {}

Install ==
  /\ store = "absent" /\ store' = "whole"
  /\ UNCHANGED told

Tell(p) ==
  /\ store = "whole" /\ told' = told \cup {p}
  /\ UNCHANGED store

(* An installer that starts again has not been told yet. *)
Forget(p) ==
  /\ told' = told \ {p}
  /\ UNCHANGED store

InstalledNext == Install \/ \E p \in Installer : Tell(p) \/ Forget(p)

InstalledSpec == InstalledInit /\ [][InstalledNext]_<<store, told>>
=============================================================================
