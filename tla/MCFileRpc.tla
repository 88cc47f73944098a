------------------------------ MODULE MCFileRpc ------------------------------
(* Instances of FileRpc for TLC.                                           *)
EXTENDS FileRpc, TLC

(* One directory with a file f and a link l to it, or with nothing in it,   *)
(* and then it may itself be missing.                                       *)
MCPaths == {"f", "l"}
MCDirs == {"d"}
MCDirOf == [p \in MCPaths |-> "d"]
MCInitDirs ==
    { [f |-> [id |-> 1, to |-> "f"], l |-> [id |-> 0, to |-> "f"]],
      [f |-> [id |-> 0, to |-> "f"], l |-> [id |-> 0, to |-> "l"]] }

(* A read through the link, an edit built on it, a write of the file itself *)
(* that comes in between, and a listing.                                    *)
MCTasks == {"r", "e", "w", "s"}
MCOp == [r |-> "read", e |-> "edit", w |-> "write", s |-> "list"]
MCTarget == [r |-> "l", e |-> "l", w |-> "f", s |-> "d"]
MCMaxBytes == [t \in MCTasks |-> 5]
MCSize(v) == IF v = 3 THEN 9 ELSE 4

MCPolicies ==
    { [mode |-> "Unrestricted", roots |-> {}, allowlist |-> {}],
      [mode |-> "ReadOnly", roots |-> {{"f", "l", "d"}}, allowlist |-> {}],
      [mode |-> "Workspace", roots |-> {{"d"}}, allowlist |-> {}] }

(* Two edits of f built on the same reading.                               *)
MCEditTasks == {"r", "e1", "e2"}
MCEditOp == [r |-> "read", e1 |-> "edit", e2 |-> "edit"]
MCEditTarget == [t \in MCEditTasks |-> "f"]
MCEditMaxBytes == [t \in MCEditTasks |-> 5]
=============================================================================
