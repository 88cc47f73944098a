------------------------------ MODULE MCExecRpc ------------------------------
(* Instances of ExecRpc for TLC.                                           *)
EXTENDS ExecRpc, TLC

MCStreams == {"out", "err"}
MCBin == [name |-> "/usr/bin/git", base |-> "git"]
MCPolicies ==
    { [mode |-> "ReadOnly", roots |-> {}, allowlist |-> {}],
      [mode |-> "WorkspaceAllowlistExec", roots |-> {},
       allowlist |-> {[name |-> "git", base |-> "git"]}] }

(* A process writes more than a pipe holds to one stream, or a byte to the  *)
(* other; one that writes less closes its streams before, or is signalled.  *)
MCPlans == { "out" :> 3 @@ "err" :> 0, "out" :> 0 @@ "err" :> 1 }
=============================================================================
