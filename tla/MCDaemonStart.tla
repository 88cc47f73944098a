---------------------------- MODULE MCDaemonStart ----------------------------
(* An instance of DaemonStart for TLC.                                      *)
EXTENDS DaemonStart

MCPolicies == {"default", "ReadOnly", "Workspace"}

(* A request, an installation by token, an enrolment and two changes of     *)
(* mode.                                                                    *)
MCKind == [r |-> "csr", t |-> "token", e |-> "enrol", m |-> "mode", n |-> "mode"]
MCCommands == DOMAIN MCKind
MCMode == [c \in MCCommands |-> IF c = "n" THEN "Workspace" ELSE "ReadOnly"]
MCSystems == { Defaults, [policy |-> "Workspace", endpoint |-> "A"] }

(* URLs of both clouds with something pasted behind, and of neither.        *)
MCUrls == { Base("A") \o <<"v1", "mcp", "">>, Base("B") \o <<"", "account">>,
            Base("B") \o <<"v2">> }
=============================================================================
