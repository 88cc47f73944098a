----------------------------- MODULE DaemonStart -----------------------------
(***************************************************************************)
(* `membrane-daemon run` beside the commands of Setup: the daemon loads the *)
(* configuration, looks for its files, reads pin, certificate and key one   *)
(* after another, and dials with what it read for as long as it runs.  It   *)
(* may be started, die and be started again at any time.                    *)
(***************************************************************************)
EXTENDS Setup

VARIABLES
    at,   \* where the daemon stands
    held, \* what it has read
    owed  \* history: the policy chosen when it was started with all in place
          \* and no installation begun since, or "none"

dvars == <<at, held, owed>>

Held == [conf : Config, pin : Clouds \cup {"none"}, cert : Token \cup {Nothing}]
Nowhere == [conf |-> Defaults, pin |-> "none", cert |-> Nothing]

DaemonTypeOK ==
    /\ TypeOK
    /\ at \in {"off", "look", "pin", "cert", "key", "up", "quit"}
    /\ held \in Held
    /\ owed \in Policies \cup {"none"}

DaemonInit == Init /\ at = "off" /\ held = Nowhere /\ owed = "none"

(* A finished installation, and no command in the middle of policy.toml.    *)
InPlace == fits /\ \A c \in Commands : pc[c] # "write"

-----------------------------------------------------------------------------
(* Variant: the system-wide file is left out.                               *)
LaunchAsUser ==
    /\ at = "off"
    /\ at' = "look"
    /\ held' = [Nowhere EXCEPT !.conf = user]
    /\ owed' = IF InPlace THEN chosen ELSE "none"
    /\ UNCHANGED vars

(* main loads the configuration, whatever state policy.toml is in.          *)
Launch ==
    /\ at = "off"
    /\ at' = "look"
    /\ held' = [Nowhere EXCEPT !.conf = Merge(user, sys)]
    /\ owed' = IF InPlace THEN chosen ELSE "none"
    /\ UNCHANGED vars

(* run wants all three files to be there, an empty key too.                 *)
Look ==
    /\ at = "look"
    /\ at' = IF cert # Nothing /\ key # "none" /\ pin # "none" THEN "pin" ELSE "quit"
    /\ UNCHANGED <<vars, held, owed>>

ReadPin ==
    /\ at = "pin" /\ at' = "cert"
    /\ held' = [held EXCEPT !.pin = pin]
    /\ UNCHANGED <<vars, owed>>

ReadCert ==
    /\ at = "cert" /\ at' = "key"
    /\ held' = [held EXCEPT !.cert = cert]
    /\ UNCHANGED <<vars, owed>>

(* An empty key does not parse, and rustls refuses another one's.           *)
ReadKey ==
    /\ at = "key"
    /\ at' = IF key = held.cert.key THEN "up" ELSE "quit"
    /\ UNCHANGED <<vars, held, owed>>

(* It fails, is killed or restarted, as pairing asks for in the end.        *)
Die ==
    /\ at # "off" /\ at' = "off"
    /\ owed' = "none"
    /\ UNCHANGED <<vars, held>>

(* A command takes a step; the daemon never looks at the files again.       *)
Setting ==
    /\ Next
    /\ owed' = IF at # "up" /\ fits /\ ~fits' THEN "none" ELSE owed
    /\ UNCHANGED <<at, held>>

DaemonNext == Launch \/ Look \/ ReadPin \/ ReadCert \/ ReadKey \/ Die \/ Setting

DaemonSpec == DaemonInit /\ [][DaemonNext]_<<vars, dvars>>

-----------------------------------------------------------------------------
(* The cloud at the endpoint it dials is the one pinned, and issued the     *)
(* certificate it shows.                                                    *)
Reaches == held.conf.endpoint = held.pin /\ held.cert.cloud = held.pin

(* A daemon started with everything in place, and not overtaken by another   *)
(* installation while it reads, comes up, reaches the cloud it was paired    *)
(* with, unless the system file names another, and serves the policy in      *)
(* force, whatever mode commands or failures run beside it.                  *)
StartsAsInstalled ==
    owed # "none" =>
        /\ at # "quit"
        /\ at = "up" => Reaches \/ sys.endpoint # "default"
        /\ held.conf.policy = IF sys.policy # "default" THEN sys.policy ELSE owed
=============================================================================
