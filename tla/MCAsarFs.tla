------------------------------ MODULE MCAsarFs ------------------------------
(* One archive in a directory.  Its second version has a directory where   *)
(* the first has a link, and a link that points to nothing.                *)
EXTENDS AsarFs

MCArchives == <<"a.asar">>
MCEntries == {"", "main", "void", "addon", "ln"}
MCKind ==
  [v1 |-> [x \in MCEntries |->
             CASE x = "" -> "dir" [] x = "main" -> "packed" [] x = "void" -> "empty"
               [] x = "addon" -> "unpacked" [] OTHER -> "link"],
   v2 |-> [x \in MCEntries |->
             CASE x \in {"", "ln"} -> "dir" [] x = "main" -> "packed"
               [] x = "void" -> "link" [] OTHER -> "none"]]
MCTarget ==
  [v1 |-> [x \in MCEntries |-> IF x = "ln" THEN "main" ELSE x],
   v2 |-> [x \in MCEntries |-> IF x = "void" THEN "addon" ELSE x]]
=============================================================================
