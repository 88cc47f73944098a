-------------------------------- MODULE Setup --------------------------------
(***************************************************************************)
(* The daemon's own files and the commands that read and rewrite them:      *)
(* `mode`, and `pair` in its three forms.  A command loads the              *)
(* configuration first and saves what it loaded, changed, last.  The        *)
(* credential files are replaced atomically; policy.toml and the key are    *)
(* truncated and written.  A command may fail or be killed at any step.     *)
(*                                                                          *)
(* A key is named after the command that generated it; a cloud is its pin   *)
(* and its endpoint.  An absent or empty policy.toml reads as the defaults. *)
(***************************************************************************)
EXTENDS FiniteSets, CloudUrl

CONSTANTS
    Commands, \* the commands of a run, each given once
    Kind,     \* [Commands -> Kinds]
    Mode,     \* [Commands -> Policies], what a `mode` command sets
    Policies, \* policies, "default" among them
    Clouds,   \* clouds that may issue tokens, each its host
    Urls,     \* what `pair --enrol` may be given, see CloudUrl
    Systems,  \* system-wide policy files there may be
    Overlap,  \* whether commands may run side by side
    MaxStops  \* bound: commands that fail or are killed

Kinds == {"mode", "csr", "token", "enrol"}
Pairings == {c \in Commands : Kind[c] \in {"token", "enrol"}}
Config == [policy : Policies, endpoint : Clouds \cup {"default"}]
Token == [key : Commands, cloud : Clouds]
Nothing == [key |-> "none", cloud |-> "none"]
Defaults == [policy |-> "default", endpoint |-> "default"]

ASSUME SetupAssumption ==
    /\ Kind \in [Commands -> Kinds] /\ Mode \in [Commands -> Policies]
    /\ "default" \in Policies /\ {"default", "none"} \cap Clouds = {}
    /\ {"none", "torn"} \cap Commands = {}
    /\ Systems \subseteq Config /\ Urls \subseteq Seq(STRING)
    /\ Overlap \in BOOLEAN /\ MaxStops \in Nat

(* An enrolment is checked for clouds whose host is not named like a path.  *)
ASSUME HostAssumption == \A cloud \in Clouds : IsHost(cloud)

VARIABLES
    sys,    \* the system-wide policy.toml, which no command writes
    user,   \* the user's policy.toml
    key, cert, pin,
    csrs,   \* keys for which a request has been printed
    tokens, \* tokens issued by operators
    pc,     \* [Commands -> step]
    cfg,    \* [Commands -> Config], the configuration it loaded
    own,    \* [Commands -> key], the key its request is for
    tok,    \* [Commands -> Token], the token it installs
    fits,   \* history: the last installation begun was finished and not lost
    chosen, \* history: the policy of the last finished `mode` not lost since
    stops   \* history: commands stopped so far

files   == <<user, key, cert, pin>>
local   == <<cfg, own, tok>>
history == <<fits, chosen>>
vars    == <<sys, user, key, cert, pin, csrs, tokens, pc, cfg, own, tok,
             fits, chosen, stops>>

Steps == {"idle", "key", "keytrunc", "keywrite", "request", "check", "cert", "pin",
          "trunc", "write", "done", "failed"}
Underway(c) == pc[c] \notin {"idle", "done", "failed"}

TypeOK ==
    /\ sys \in Systems /\ user \in Config
    /\ key \in Commands \cup {"none", "torn"}
    /\ cert \in Token \cup {Nothing} /\ pin \in Clouds \cup {"none"}
    /\ csrs \subseteq Commands /\ tokens \subseteq Token
    /\ pc \in [Commands -> Steps]
    /\ cfg \in [Commands -> Config]
    /\ own \in [Commands -> Commands \cup {"none"}]
    /\ tok \in [Commands -> Token \cup {Nothing}]
    /\ fits \in BOOLEAN /\ chosen \in Policies
    /\ stops \in 0 .. MaxStops

Init ==
    /\ sys \in Systems
    /\ user = Defaults /\ key = "none" /\ cert = Nothing /\ pin = "none"
    /\ csrs = {} /\ tokens = {}
    /\ pc = [c \in Commands |-> "idle"]
    /\ cfg = [c \in Commands |-> Defaults]
    /\ own = [c \in Commands |-> "none"]
    /\ tok = [c \in Commands |-> Nothing]
    /\ fits = FALSE /\ chosen = "default" /\ stops = 0

Goto(c, step) == pc' = [pc EXCEPT ![c] = step]

-----------------------------------------------------------------------------
(* merge_into: a field of the system file counts unless it has its default. *)
Merge(u, s) ==
    [f \in {"policy", "endpoint"} |-> IF s[f] # Defaults[f] THEN s[f] ELSE u[f]]

(* Where a command goes once the configuration is loaded.                   *)
FirstStep(c) ==
    CASE Kind[c] = "mode"  -> "trunc"
      [] Kind[c] = "token" -> "check"
      [] OTHER             -> "key"

(* Config::load, the first thing every command does.                        *)
Load(c) ==
    /\ pc[c] = "idle"
    /\ Overlap \/ ~ \E d \in Commands : Underway(d)
    /\ cfg' = [cfg EXCEPT ![c] = Merge(user, sys)]
    /\ Goto(c, FirstStep(c))
    /\ UNCHANGED <<sys, files, csrs, tokens, own, tok, history, stops>>

(* Variant: a new key for every pairing.                                    *)
EnsureKeyFresh(c) ==
    /\ pc[c] = "key"
    /\ Goto(c, "keytrunc")
    /\ UNCHANGED <<sys, files, csrs, tokens, local, history, stops>>

(* Variant: the key on disk is taken as it is.                              *)
EnsureKeyUnread(c) ==
    /\ pc[c] = "key"
    /\ \/ key = "none" /\ Goto(c, "keytrunc") /\ own' = own
       \/ key # "none" /\ Goto(c, "request") /\ own' = [own EXCEPT ![c] = key]
    /\ UNCHANGED <<sys, files, csrs, tokens, cfg, tok, history, stops>>

(* ensure_keypair: the key on disk, which must parse, or else a new one.    *)
EnsureKey(c) ==
    /\ pc[c] = "key"
    /\ \/ key = "none" /\ Goto(c, "keytrunc") /\ own' = own
       \/ key = "torn" /\ Goto(c, "failed") /\ own' = own
       \/ key \in Commands /\ Goto(c, "request") /\ own' = [own EXCEPT ![c] = key]
    /\ UNCHANGED <<sys, files, csrs, tokens, cfg, tok, history, stops>>

TruncateKey(c) ==
    /\ pc[c] = "keytrunc"
    /\ key' = "torn"
    /\ Goto(c, "keywrite")
    /\ UNCHANGED <<sys, user, cert, pin, csrs, tokens, local, history, stops>>

WriteKey(c) ==
    /\ pc[c] = "keywrite"
    /\ key' = c /\ own' = [own EXCEPT ![c] = c]
    /\ Goto(c, "request")
    /\ UNCHANGED <<sys, user, cert, pin, csrs, tokens, cfg, tok, history, stops>>

(* The request is printed, or posted to the cloud of the URL.               *)
PrintRequest(c) ==
    /\ pc[c] = "request" /\ Kind[c] = "csr"
    /\ csrs' = csrs \cup {own[c]}
    /\ Goto(c, "done")
    /\ UNCHANGED <<sys, files, tokens, local, history, stops>>

PostRequest(c) ==
    /\ pc[c] = "request" /\ Kind[c] = "enrol"
    /\ \E url \in Urls :
          \/ /\ \A cloud \in Clouds : Normalise(url) # Base(cloud)
             /\ Goto(c, "failed") /\ tok' = tok
          \/ \E cloud \in Clouds :
                /\ Normalise(url) = Base(cloud)
                /\ tok' = [tok EXCEPT ![c] = [key |-> own[c], cloud |-> cloud]]
                /\ Goto(c, "cert")
    /\ UNCHANGED <<sys, files, csrs, tokens, cfg, own, history, stops>>

(* An operator signs a printed request.                                     *)
Issue ==
    /\ \E k \in csrs, cloud \in Clouds : tokens' = tokens \cup {[key |-> k, cloud |-> cloud]}
    /\ UNCHANGED <<sys, files, csrs, pc, local, history, stops>>

(* `pair --token`: a key must exist, whole or not, and the token decode.    *)
CheckToken(c) ==
    /\ pc[c] = "check"
    /\ \/ key = "none" /\ Goto(c, "failed") /\ tok' = tok
       \/ /\ key # "none"
          /\ \E t \in tokens : tok' = [tok EXCEPT ![c] = t]
          /\ Goto(c, "cert")
    /\ UNCHANGED <<sys, files, csrs, tokens, cfg, own, history, stops>>

(* install_token: certificate, pin, policy.toml.                            *)
InstallCert(c) ==
    /\ pc[c] = "cert"
    /\ cert' = tok[c] /\ fits' = FALSE
    /\ Goto(c, "pin")
    /\ UNCHANGED <<sys, user, key, pin, csrs, tokens, local, chosen, stops>>

(* Variant: a pin that is there already is kept.                            *)
InstallPinOnce(c) ==
    /\ pc[c] = "pin"
    /\ pin' = IF pin = "none" THEN tok[c].cloud ELSE pin
    /\ Goto(c, "trunc")
    /\ UNCHANGED <<sys, user, key, cert, csrs, tokens, local, history, stops>>

InstallPin(c) ==
    /\ pc[c] = "pin"
    /\ pin' = tok[c].cloud
    /\ Goto(c, "trunc")
    /\ UNCHANGED <<sys, user, key, cert, csrs, tokens, local, history, stops>>

(* save_user truncates the file, then writes it.                            *)
TruncateUser(c) ==
    /\ pc[c] = "trunc"
    /\ user' = Defaults
    /\ Goto(c, "write")
    /\ UNCHANGED <<sys, key, cert, pin, csrs, tokens, local, fits, chosen, stops>>

(* Variant: pairing writes the token's endpoint and nothing else.           *)
SavePairingBare(c) ==
    /\ c \in Pairings
    /\ user' = [Defaults EXCEPT !.endpoint = tok[c].cloud]
    /\ fits' = TRUE /\ chosen' = chosen

(* install_token saves what the command loaded, with the token's endpoint.  *)
SavePairing(c) ==
    /\ c \in Pairings
    /\ user' = [cfg[c] EXCEPT !.endpoint = tok[c].cloud]
    /\ fits' = TRUE /\ chosen' = chosen

(* cmd_mode saves it with the policy it was given.                          *)
SaveMode(c) ==
    /\ Kind[c] = "mode"
    /\ user' = [cfg[c] EXCEPT !.policy = Mode[c]]
    /\ chosen' = Mode[c] /\ fits' = fits

WriteUser(c) ==
    /\ pc[c] = "write"
    /\ SavePairing(c) \/ SaveMode(c)
    /\ Goto(c, "done")
    /\ UNCHANGED <<sys, key, cert, pin, csrs, tokens, local, stops>>

(* A command fails or is killed; the files stay as they are.                *)
Stop(c) ==
    /\ Underway(c) /\ stops < MaxStops
    /\ stops' = stops + 1
    /\ Goto(c, "failed")
    /\ IF pc[c] = "write" THEN chosen' = "default" /\ fits' = FALSE ELSE UNCHANGED history
    /\ UNCHANGED <<sys, files, csrs, tokens, local>>

Command(c) ==
    \/ Load(c) \/ EnsureKey(c) \/ TruncateKey(c) \/ WriteKey(c) \/ PrintRequest(c)
    \/ PostRequest(c) \/ CheckToken(c) \/ InstallCert(c) \/ InstallPin(c)
    \/ TruncateUser(c) \/ WriteUser(c) \/ Stop(c)

Next == (\E c \in Commands : Command(c)) \/ Issue

Spec == Init /\ [][Next]_vars

-----------------------------------------------------------------------------
Settled == ~ \E c \in Commands : Underway(c)
Effective == Merge(user, sys)

(* What the daemon wants of the credential files when it starts.            *)
Loads == cert # Nothing /\ key \in Commands /\ pin # "none"

(* An installation that was finished can be used, whatever failed before or  *)
(* after it and whatever mode commands came since: certificate, key and pin  *)
(* on disk belong together, and the daemon will dial the cloud they are for  *)
(* unless the system file names another.                                     *)
PairedIsUsable ==
    Settled /\ fits =>
        /\ Loads /\ cert.key = key /\ cert.cloud = pin
        /\ Effective.endpoint = pin \/ sys.endpoint # "default"

(* Commands given one after another never disturb the policy: the one in     *)
(* force is the system's, or else the one chosen last, whatever was paired   *)
(* since; only a command stopped while it rewrote the file resets it.        *)
PolicyKept ==
    Settled => Effective.policy = IF sys.policy # "default" THEN sys.policy ELSE chosen

(* The key a certificate was asked for stays: a key that is on disk whole is *)
(* never replaced, and every request and token is for the key on disk.       *)
KeyKept == csrs \cup {t.key : t \in tokens \cup {cert}} \subseteq {key, "none"}

(* main.rs:325-328: a customer may paste known paths of the cloud behind its *)
(* address, one after another and with any slashes between: an enrolment     *)
(* about to post finds the cloud all the same.                               *)
PastesStripped ==
    \A cloud \in Clouds : \A url \in PastedOnto(cloud) : Normalise(url) = Base(cloud)

EnrolReachesCloud ==
    \A c \in Commands : pc[c] = "request" /\ Kind[c] = "enrol" => PastesStripped
=============================================================================
