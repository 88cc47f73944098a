------------------------------- MODULE Policy -------------------------------
(***************************************************************************)
(* The policy questions of config.rs, asked by every handler before it     *)
(* touches the machine.  A policy is a record:                             *)
(*   mode      one of the four variants of PolicyMode                      *)
(*   roots     the workspace roots, each given as the set of places below  *)
(*             it ("starts_with" of canonical paths is set membership)     *)
(*   allowlist the allow-listed programs, [name, base] where base is the   *)
(*             last component of name                                      *)
(***************************************************************************)
EXTENDS Naturals

Modes == {"Unrestricted", "Workspace", "WorkspaceAllowlistExec", "ReadOnly"}

PolicyType(Places, Programs) ==
    [mode : Modes, roots : SUBSET SUBSET Places, allowlist : SUBSET Programs]

(* path_allowed, given the canonical form of the path: an unbounded policy *)
(* allows everything, a bounded one what lies below one of its roots.      *)
PathAllowed(policy, canon) ==
    \/ policy.mode = "Unrestricted"
    \/ \E root \in policy.roots : canon \in root

(* Variant: read-only taken to mean "no roots".                            *)
WritesAllowedWithRoots(policy) == ~(policy.mode = "ReadOnly" /\ policy.roots = {})

WritesAllowed(policy) == policy.mode # "ReadOnly"

(* exec_allowed: bin is the first token of the command, as [name, base].   *)
ExecAllowed(policy, bin) ==
    \/ policy.mode \in {"Unrestricted", "Workspace"}
    \/ /\ policy.mode = "WorkspaceAllowlistExec"
       /\ \E a \in policy.allowlist :
             a.name = bin.name \/ a.name = bin.base \/ a.base = bin.base

Lesser(a, b) == IF a <= b THEN a ELSE b

(* effective_exec_timeout_ms: a request of 0 asks for the maximum.         *)
EffectiveTimeout(requested, max) ==
    Lesser(IF requested = 0 THEN max ELSE requested, max)
=============================================================================
