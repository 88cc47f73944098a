----------------------------- MODULE SetupProofs -----------------------------
(* Theorems about Setup and, in the second half, about DaemonStart, for any *)
(* commands, policies and clouds.                                           *)
EXTENDS DaemonStart, SequenceTheorems, TLAPS

(* What merging two configurations gives, kept opaque below.               *)
LEMMA DefaultsIn == Defaults \in Config /\ Defaults.policy = "default"
  BY SetupAssumption DEF Defaults, Config

LEMMA MergeIn ==
    ASSUME NEW u \in Config, NEW s \in Config
    PROVE  /\ Merge(u, s) \in Config
           /\ Merge(u, s).policy = IF s.policy # "default" THEN s.policy ELSE u.policy
<1>1. /\ Merge(u, s).policy = IF s.policy # "default" THEN s.policy ELSE u.policy
      /\ Merge(u, s).endpoint = IF s.endpoint # "default" THEN s.endpoint ELSE u.endpoint
      /\ Merge(u, s) = [policy |-> Merge(u, s).policy, endpoint |-> Merge(u, s).endpoint]
  BY DEF Merge, Defaults
<1>2. u.policy \in Policies /\ u.endpoint \in Clouds \cup {"default"}
  BY DEF Config
<1>3. s.policy \in Policies /\ s.endpoint \in Clouds \cup {"default"}
  BY DEF Config
<1> QED
  BY <1>1, <1>2, <1>3 DEF Config

LEMMA PolicyIn ==
    ASSUME NEW g \in Config, NEW p \in Policies
    PROVE  [g EXCEPT !.policy = p] \in Config /\ [g EXCEPT !.policy = p].policy = p
  BY DEF Config

LEMMA EndpointIn ==
    ASSUME NEW g \in Config, NEW k \in Clouds
    PROVE  /\ [g EXCEPT !.endpoint = k] \in Config
           /\ [g EXCEPT !.endpoint = k].policy = g.policy
  BY DEF Config

LEMMA TokenIn ==
    ASSUME NEW k \in Commands, NEW a \in Clouds
    PROVE  [key |-> k, cloud |-> a] \in Token /\ [key |-> k, cloud |-> a].key = k
  BY DEF Token

-----------------------------------------------------------------------------
(* Type correctness.  A pairing that installs holds a token.               *)
Holding == \A c \in Commands :
    /\ pc[c] \in {"trunc", "write"} => Kind[c] # "csr"
    /\ pc[c] \in {"cert", "pin"} => tok[c] \in Token /\ c \in Pairings
    /\ pc[c] \in {"trunc", "write"} /\ c \in Pairings => tok[c] \in Token
    /\ pc[c] = "request" => own[c] \in Commands
    /\ pc[c] = "check" => c \in Pairings

LEMMA TypedCommand ==
    ASSUME TypeOK, Holding, NEW c \in Commands, Command(c)
    PROVE  TypeOK'
<1> USE DEF TypeOK, Goto, Steps
<1>1. CASE Load(c)
  <2>1. Merge(user, sys) \in Config
    BY MergeIn, SetupAssumption
  <2> QED
    BY <1>1, <2>1 DEF Load, FirstStep, files, history
<1>2. CASE EnsureKey(c)
  BY <1>2 DEF EnsureKey, files, history
<1>3. CASE TruncateKey(c)
  BY <1>3 DEF TruncateKey, local, history
<1>4. CASE WriteKey(c)
  BY <1>4 DEF WriteKey, history
<1>5. CASE PrintRequest(c)
  BY <1>5 DEF PrintRequest, Holding, files, local, history
<1>6. CASE PostRequest(c)
  BY <1>6, TokenIn DEF PostRequest, Holding, files, history
<1>7. CASE CheckToken(c)
  BY <1>7 DEF CheckToken, files, history
<1>8. CASE InstallCert(c)
  BY <1>8 DEF InstallCert, local
<1>9. CASE InstallPin(c)
  BY <1>9 DEF InstallPin, Holding, Token, local, history
<1>10. CASE TruncateUser(c)
  BY <1>10, DefaultsIn DEF TruncateUser, local
<1>11. CASE WriteUser(c)
  <2>1. /\ cfg[c] \in Config /\ Mode[c] \in Policies
        /\ c \in Pairings => tok[c].cloud \in Clouds
    BY <1>11, SetupAssumption DEF WriteUser, Holding, Token
  <2>2. user' \in Config /\ chosen' \in Policies /\ fits' \in BOOLEAN
    <3>1. CASE SavePairing(c)
      <4>1. /\ c \in Pairings
            /\ user' = [cfg[c] EXCEPT !.endpoint = tok[c].cloud] /\ fits' = TRUE /\ chosen' = chosen
        BY <3>1 DEF SavePairing
      <4>2. [cfg[c] EXCEPT !.endpoint = tok[c].cloud] \in Config
        BY <2>1, <4>1, EndpointIn
      <4> QED
        BY <4>1, <4>2
    <3>2. CASE SaveMode(c)
      <4>1. user' = [cfg[c] EXCEPT !.policy = Mode[c]] /\ chosen' = Mode[c] /\ fits' = fits
        BY <3>2 DEF SaveMode
      <4>2. [cfg[c] EXCEPT !.policy = Mode[c]] \in Config
        BY <2>1, <3>2, PolicyIn
      <4> QED
        BY <2>1, <4>1, <4>2
    <3> QED
      BY <1>11, <3>1, <3>2 DEF WriteUser
  <2> QED
    BY <1>11, <2>2 DEF WriteUser, local
<1>12. CASE Stop(c)
  <2>1. chosen' \in Policies /\ fits' \in BOOLEAN
    <3>1. CASE pc[c] = "write"
      BY <1>12, <3>1, SetupAssumption DEF Stop
    <3>2. CASE pc[c] # "write"
      BY <1>12, <3>2 DEF Stop, history
    <3> QED
      BY <3>1, <3>2
  <2>2. stops' \in 0 .. MaxStops
    BY <1>12, SetupAssumption DEF Stop
  <2> QED
    BY <1>12, <2>1, <2>2 DEF Stop, files, local
<1> QED
  BY <1>1, <1>2, <1>3, <1>4, <1>5, <1>6, <1>7, <1>8, <1>9, <1>10, <1>11, <1>12 DEF Command

LEMMA TypedIssue ==
    ASSUME TypeOK, Issue PROVE TypeOK'
  BY TokenIn DEF TypeOK, Issue, files, local, history

LEMMA HeldCommand ==
    ASSUME TypeOK, Holding, NEW c \in Commands, Command(c)
    PROVE  Holding'
<1> USE DEF TypeOK, Holding, Goto, Steps, Pairings
<1>1. CASE Load(c)
  BY <1>1, SetupAssumption DEF Load, FirstStep, Kinds
<1>2. CASE EnsureKey(c)
  BY <1>2 DEF EnsureKey
<1>3. CASE TruncateKey(c)
  BY <1>3 DEF TruncateKey, local
<1>4. CASE WriteKey(c)
  BY <1>4 DEF WriteKey
<1>5. CASE PrintRequest(c)
  BY <1>5 DEF PrintRequest, local
<1>6. CASE PostRequest(c)
  BY <1>6, TokenIn DEF PostRequest
<1>7. CASE CheckToken(c)
  BY <1>7 DEF CheckToken
<1>8. CASE InstallCert(c)
  BY <1>8 DEF InstallCert, local
<1>9. CASE InstallPin(c)
  BY <1>9 DEF InstallPin, local
<1>10. CASE TruncateUser(c)
  BY <1>10 DEF TruncateUser, local
<1>11. CASE WriteUser(c)
  BY <1>11 DEF WriteUser, local
<1>12. CASE Stop(c)
  BY <1>12 DEF Stop, local
<1> QED
  BY <1>1, <1>2, <1>3, <1>4, <1>5, <1>6, <1>7, <1>8, <1>9, <1>10, <1>11, <1>12 DEF Command

LEMMA Typed == Spec => [](TypeOK /\ Holding)
<1>1. Init => TypeOK /\ Holding
  <2> SUFFICES ASSUME Init PROVE TypeOK /\ Holding
    OBVIOUS
  <2>1. user \in Config /\ cfg \in [Commands -> Config]
    BY DefaultsIn DEF Init
  <2>2. chosen \in Policies /\ stops \in 0 .. MaxStops
    BY SetupAssumption DEF Init
  <2> QED
    BY <2>1, <2>2 DEF Init, TypeOK, Holding, Steps
<1>2. TypeOK /\ Holding /\ [Next]_vars => TypeOK' /\ Holding'
  <2> SUFFICES ASSUME TypeOK, Holding, [Next]_vars PROVE TypeOK' /\ Holding'
    OBVIOUS
  <2>1. CASE \E c \in Commands : Command(c)
    BY <2>1, TypedCommand, HeldCommand
  <2>2. CASE Issue
    BY <2>2, TypedIssue DEF Issue, Holding, local
  <2>3. CASE UNCHANGED vars
    BY <2>3 DEF vars, TypeOK, Holding
  <2> QED
    BY <2>1, <2>2, <2>3 DEF Next
<1> QED
  BY <1>1, <1>2, PTL DEF Spec

(* The type invariant.                                                     *)
THEOREM TypeCorrect == Spec => []TypeOK
  BY Typed, PTL

-----------------------------------------------------------------------------
(* How commands must keep out of each other's way: one at a time creates a   *)
(* key, and one at a time goes on to save policy.toml.  A printed request    *)
(* saves nothing and may be made beside anything.                           *)
Making(c) == pc[c] \in {"keytrunc", "keywrite"}
Saving(c) == Underway(c) /\ Kind[c] # "csr"
OneMaker == \A c, d \in Commands : Making(c) /\ Making(d) => c = d
OneSaver == \A c, d \in Commands : Saving(c) /\ Saving(d) => c = d

(* What each step knows of the key, and what all of the requests and tokens  *)
(* say: they are for the key on disk.                                       *)
KeyKnown == \A c \in Commands :
    /\ pc[c] = "keytrunc" => key = "none"
    /\ pc[c] = "keywrite" => key = "torn"
    /\ pc[c] = "request" => own[c] = key
    /\ pc[c] = "cert" => tok[c].key = key

(* The parts of KeyKept, one set at a time.                                 *)
Fitting == /\ \A k \in csrs : k = key
           /\ \A t \in tokens : t.key = key
           /\ cert.key \in {key, "none"}

LEMMA FittingIsKept ==
    ASSUME TypeOK, Fitting PROVE KeyKept
  BY SetupAssumption DEF TypeOK, Fitting, KeyKept, Token

LEMMA FreshKey ==
    ASSUME TypeOK, Fitting, key \in {"none", "torn"}
    PROVE  csrs = {} /\ tokens = {} /\ cert.key = "none"
  BY SetupAssumption DEF TypeOK, Fitting, Token, Nothing

LEMMA KeyCommand ==
    ASSUME TypeOK, Holding, OneMaker, KeyKnown, Fitting, NEW c \in Commands, Command(c)
    PROVE  KeyKnown' /\ Fitting'
<1> USE DEF TypeOK, KeyKnown, Goto, Steps
<1>1. CASE Load(c)
  BY <1>1 DEF Load, FirstStep, files, Fitting
<1>2. CASE EnsureKey(c)
  BY <1>2 DEF EnsureKey, files, Fitting
<1>3. CASE TruncateKey(c)
  <2>1. key = "none" /\ \A d \in Commands : pc[d] \notin {"request", "cert", "keywrite"}
    BY <1>3, SetupAssumption DEF TruncateKey, Holding, Token
  <2>2. \A d \in Commands : d # c => pc[d] # "keytrunc"
    BY <1>3 DEF TruncateKey, OneMaker, Making
  <2> QED
    BY <1>3, <2>1, <2>2, FreshKey DEF TruncateKey, local, Fitting
<1>4. CASE WriteKey(c)
  <2>1. key = "torn" /\ \A d \in Commands : pc[d] \notin {"request", "cert", "keytrunc"}
    BY <1>4, SetupAssumption DEF WriteKey, Holding, Token
  <2>2. \A d \in Commands : d # c => pc[d] # "keywrite"
    BY <1>4 DEF WriteKey, OneMaker, Making
  <2> QED
    BY <1>4, <2>1, <2>2, FreshKey DEF WriteKey, Fitting
<1>5. CASE PrintRequest(c)
  BY <1>5 DEF PrintRequest, files, local, Fitting
<1>6. CASE PostRequest(c)
  BY <1>6, TokenIn DEF PostRequest, Holding, files, Fitting
<1>7. CASE CheckToken(c)
  BY <1>7 DEF CheckToken, files, Fitting
<1>8. CASE InstallCert(c)
  BY <1>8 DEF InstallCert, local, Fitting
<1>9. CASE InstallPin(c)
  BY <1>9 DEF InstallPin, local, Fitting
<1>10. CASE TruncateUser(c)
  BY <1>10 DEF TruncateUser, local, Fitting
<1>11. CASE WriteUser(c)
  BY <1>11 DEF WriteUser, local, Fitting
<1>12. CASE Stop(c)
  BY <1>12 DEF Stop, files, local, Fitting
<1> QED
  BY <1>1, <1>2, <1>3, <1>4, <1>5, <1>6, <1>7, <1>8, <1>9, <1>10, <1>11, <1>12 DEF Command

LEMMA Keyed == Spec /\ []OneMaker => [](KeyKnown /\ Fitting)
<1>1. Init => KeyKnown /\ Fitting
  BY DEF Init, KeyKnown, Fitting, Nothing
<1>2. TypeOK /\ Holding /\ OneMaker /\ KeyKnown /\ Fitting /\ [Next]_vars
      => KeyKnown' /\ Fitting'
  <2> SUFFICES ASSUME TypeOK, Holding, OneMaker, KeyKnown, Fitting, [Next]_vars
               PROVE  KeyKnown' /\ Fitting'
    OBVIOUS
  <2>1. CASE \E c \in Commands : Command(c)
    BY <2>1, KeyCommand
  <2>2. CASE Issue
    BY <2>2, TokenIn DEF Issue, files, local, KeyKnown, Fitting, TypeOK
  <2>3. CASE UNCHANGED vars
    BY <2>3 DEF vars, KeyKnown, Fitting
  <2> QED
    BY <2>1, <2>2, <2>3 DEF Next
<1> QED
  BY <1>1, <1>2, Typed, PTL DEF Spec

(* As long as no two commands create a key at the same time, whatever else   *)
(* they do side by side, none replaces a whole key: what was asked for,      *)
(* issued and installed is for the key on disk.                             *)
THEOREM KeyTheorem == Spec /\ []OneMaker => []KeyKept
  BY Keyed, Typed, FittingIsKept, PTL

-----------------------------------------------------------------------------
(* The policy in force, what a command that will save has loaded of it, and  *)
(* what the files say while no command rewrites them.                       *)
InForce == IF sys.policy # "default" THEN sys.policy ELSE chosen
Loaded == \A c \in Commands :
    /\ Saving(c) => cfg[c].policy = InForce
    /\ pc[c] = "write" => user.policy = "default"
Standing == (\A c \in Commands : pc[c] # "write") => Effective.policy = InForce

LEMMA EffectiveIs ==
    ASSUME TypeOK
    PROVE  /\ sys \in Config /\ user \in Config
           /\ Effective.policy = IF sys.policy # "default" THEN sys.policy ELSE user.policy
  BY MergeIn, SetupAssumption DEF Effective, TypeOK

(* A step that leaves the files and the choice alone, and what was loaded by *)
(* those that will save.                                                    *)
LEMMA PolicyQuiet ==
    ASSUME TypeOK, Loaded, Standing, NEW c \in Commands,
           pc[c] # "write", pc'[c] # "write", UNCHANGED <<sys, user, chosen>>,
           Saving(c)' => Saving(c) /\ cfg'[c] = cfg[c],
           \A d \in Commands : d # c => pc'[d] = pc[d] /\ cfg'[d] = cfg[d]
    PROVE  Loaded' /\ Standing'
<1>1. InForce' = InForce /\ Effective' = Effective
  BY DEF InForce, Effective
<1>2. \A d \in Commands : pc'[d] = "write" <=> pc[d] = "write"
  OBVIOUS
<1>3. \A d \in Commands : Saving(d)' => Saving(d) /\ cfg'[d] = cfg[d]
  BY DEF Saving, Underway
<1> QED
  BY <1>1, <1>2, <1>3 DEF Loaded, Standing

(* No other command saves while one is about to.                            *)
LEMMA NoneBeside ==
    ASSUME OneSaver, Holding, NEW c \in Commands, Saving(c), NEW d \in Commands, d # c
    PROVE  ~Saving(d) /\ pc[d] \notin {"check", "cert", "pin", "trunc", "write"}
  BY DEF OneSaver, Saving, Underway, Holding, Pairings

LEMMA PolicyCommand ==
    ASSUME TypeOK, TypeOK', Holding, Holding', OneSaver, OneSaver', Loaded, Standing,
           NEW c \in Commands, Command(c)
    PROVE  Loaded' /\ Standing'
<1> USE DEF Goto
<1>0. pc \in [Commands -> Steps] /\ cfg \in [Commands -> Config]
  BY DEF TypeOK
<1>1. CASE Load(c)
  <2>1. UNCHANGED <<sys, user, chosen>> /\ cfg' = [cfg EXCEPT ![c] = Effective]
    BY <1>1 DEF Load, files, history, Effective
  <2>2. /\ pc[c] # "write" /\ pc'[c] \notin {"write", "idle", "done", "failed"}
        /\ \A d \in Commands : d # c => pc'[d] = pc[d]
    BY <1>0, <1>1 DEF Load, FirstStep
  <2>3. cfg'[c] = Effective /\ \A d \in Commands : d # c => cfg'[d] = cfg[d]
    BY <1>0, <2>1
  <2>4. CASE Kind[c] = "csr"
    BY <2>1, <2>2, <2>3, <2>4, PolicyQuiet DEF Saving
  <2>5. CASE Kind[c] # "csr"
    <3>1. Saving(c)'
      BY <2>2, <2>5 DEF Saving, Underway
    <3>2. \A d \in Commands : d # c => ~Saving(d)' /\ pc'[d] # "write"
      BY <3>1 DEF OneSaver, Saving, Underway, Holding
    <3>3. Effective.policy = InForce /\ InForce' = InForce /\ Effective' = Effective
      BY <2>1, <2>2, <3>2 DEF Standing, InForce, Effective
    <3> QED
      BY <2>2, <2>3, <3>2, <3>3 DEF Loaded, Standing
  <2> QED
    BY <2>4, <2>5
<1>2. CASE EnsureKey(c) \/ TruncateKey(c) \/ WriteKey(c) \/ PrintRequest(c) \/ PostRequest(c)
           \/ CheckToken(c) \/ InstallCert(c) \/ InstallPin(c)
  <2>1. Underway(c) /\ pc[c] # "write" /\ UNCHANGED <<sys, user, chosen, cfg>>
    BY <1>2 DEF EnsureKey, TruncateKey, WriteKey, PrintRequest, PostRequest, CheckToken,
                InstallCert, InstallPin, files, local, history, Underway
  <2>2. pc'[c] # "write" /\ \A d \in Commands : d # c => pc'[d] = pc[d]
    BY <1>0, <1>2 DEF EnsureKey, TruncateKey, WriteKey, PrintRequest, PostRequest, CheckToken,
                      InstallCert, InstallPin
  <2> QED
    BY <2>1, <2>2, PolicyQuiet DEF Saving
<1>3. CASE TruncateUser(c)
  <2>1. user'.policy = "default" /\ pc'[c] = "write" /\ UNCHANGED <<sys, chosen, cfg>>
    BY <1>0, <1>3, DefaultsIn DEF TruncateUser, local
  <2>2. Saving(c)
    BY <1>3 DEF TruncateUser, Holding, Saving, Underway
  <2>3. \A d \in Commands : d # c => pc'[d] = pc[d] /\ ~Saving(d)' /\ pc'[d] # "write"
    BY <1>0, <1>3, <2>2, NoneBeside DEF TruncateUser, Saving, Underway
  <2>4. InForce' = InForce
    BY <2>1 DEF InForce
  <2> QED
    BY <2>1, <2>2, <2>3, <2>4 DEF Loaded, Standing
<1>4. ASSUME pc[c] = "write", pc'[c] \in {"done", "failed"}, UNCHANGED <<sys, cfg>>,
             \A d \in Commands : d # c => pc'[d] = pc[d],
             Effective'.policy = InForce'
      PROVE  Loaded' /\ Standing'
  <2>1. Saving(c)
    BY <1>4 DEF Holding, Saving, Underway
  <2>2. \A d \in Commands : ~Saving(d)' /\ pc'[d] # "write"
    BY <1>4, <2>1, NoneBeside DEF Saving, Underway
  <2> QED
    BY <1>4, <2>2 DEF Loaded, Standing
<1>5. CASE WriteUser(c)
  <2>1. /\ pc[c] = "write" /\ pc'[c] = "done" /\ UNCHANGED <<sys, cfg>>
        /\ \A d \in Commands : d # c => pc'[d] = pc[d]
    BY <1>0, <1>5 DEF WriteUser, local
  <2>2. Effective'.policy = IF sys.policy # "default" THEN sys.policy ELSE user'.policy
    <3>1. sys' \in Config /\ user' \in Config /\ sys' = sys
      BY <2>1, SetupAssumption DEF TypeOK
    <3> QED
      BY <3>1, MergeIn DEF Effective
  <2>3. cfg[c] \in Config /\ cfg[c].policy = InForce
    BY <1>0, <2>1 DEF Loaded, Holding, Saving, Underway
  <2>4. CASE SavePairing(c)
    <3>1. user' = [cfg[c] EXCEPT !.endpoint = tok[c].cloud] /\ chosen' = chosen
      BY <2>4 DEF SavePairing
    <3>2. tok[c].cloud \in Clouds
      BY <2>1, <2>4 DEF SavePairing, Holding, Token
    <3>3. user'.policy = InForce /\ InForce' = InForce
      BY <2>1, <2>3, <3>1, <3>2, EndpointIn DEF InForce
    <3> QED
      BY <1>4, <2>1, <2>2, <3>3 DEF InForce
  <2>5. CASE SaveMode(c)
    <3>1. user' = [cfg[c] EXCEPT !.policy = Mode[c]] /\ chosen' = Mode[c]
      BY <2>5 DEF SaveMode
    <3>2. user'.policy = chosen'
      BY <2>3, <3>1, PolicyIn, SetupAssumption
    <3> QED
      BY <1>4, <2>1, <2>2, <3>2 DEF InForce
  <2> QED
    BY <1>5, <2>4, <2>5 DEF WriteUser
<1>6. CASE Stop(c)
  <2>1. /\ Underway(c) /\ pc'[c] = "failed" /\ UNCHANGED <<sys, user, cfg>>
        /\ \A d \in Commands : d # c => pc'[d] = pc[d]
    BY <1>0, <1>6 DEF Stop, files, local
  <2>2. CASE pc[c] = "write"
    <3>1. user.policy = "default" /\ chosen' = "default"
      BY <1>6, <2>2 DEF Stop, Loaded
    <3>2. Effective' = Effective
      BY <2>1 DEF Effective
    <3> QED
      BY <1>4, <2>1, <2>2, <3>1, <3>2, EffectiveIs DEF InForce
  <2>3. CASE pc[c] # "write"
    <3>1. chosen' = chosen
      BY <1>6, <2>3 DEF Stop, history
    <3> QED
      BY <2>1, <2>3, <3>1, PolicyQuiet DEF Saving, Underway
  <2> QED
    BY <2>2, <2>3
<1> QED
  BY <1>1, <1>2, <1>3, <1>5, <1>6 DEF Command

LEMMA PolicyStands == Spec /\ []OneSaver => [](Loaded /\ Standing)
<1>1. Init => Loaded /\ Standing
  <2> SUFFICES ASSUME Init PROVE Loaded /\ Standing
    OBVIOUS
  <2>1. Loaded
    BY DEF Init, Loaded, Saving, Underway
  <2>2. user \in Config /\ sys \in Config /\ user.policy = "default" /\ chosen = "default"
    BY DefaultsIn, SetupAssumption DEF Init
  <2> QED
    BY <2>1, <2>2, MergeIn DEF Standing, Effective, InForce
<1>2. TypeOK /\ TypeOK' /\ Holding /\ Holding' /\ OneSaver /\ OneSaver' /\ Loaded /\ Standing
      /\ [Next]_vars => Loaded' /\ Standing'
  <2> SUFFICES ASSUME TypeOK, TypeOK', Holding, Holding', OneSaver, OneSaver', Loaded, Standing,
                      [Next]_vars
               PROVE  Loaded' /\ Standing'
    OBVIOUS
  <2>1. CASE \E c \in Commands : Command(c)
    BY <2>1, PolicyCommand
  <2>2. CASE Issue \/ UNCHANGED vars
    BY <2>2 DEF Issue, vars, files, local, history, Loaded, Standing, InForce, Effective, Saving,
                Underway
  <2> QED
    BY <2>1, <2>2 DEF Next
<1> QED
  BY <1>1, <1>2, Typed, PTL DEF Spec

(* As long as no two commands that save run side by side, and beside any     *)
(* number of printed requests, the policy never changes by the way.         *)
THEOREM PolicyTheorem == Spec /\ []OneSaver => []PolicyKept
<1>1. Standing => PolicyKept
  BY DEF Standing, PolicyKept, Settled, InForce, Underway
<1> QED
  BY <1>1, PolicyStands, PTL

-----------------------------------------------------------------------------
(* What belongs together: the credential files once an installation is      *)
(* finished, those installed so far while one is under way, and the         *)
(* endpoint of policy.toml or of what will be saved there.                  *)
Points(conf) == sys.endpoint # "default" \/ conf.endpoint = pin
Finished == fits => cert \in Token /\ cert.key = key /\ cert.cloud = pin
Installing == \A c \in Commands :
    /\ pc[c] = "pin" => ~fits /\ cert = tok[c]
    /\ pc[c] \in {"trunc", "write"} /\ c \in Pairings =>
           ~fits /\ cert = tok[c] /\ pin = tok[c].cloud
Pointing ==
    /\ fits /\ (\A c \in Commands : pc[c] # "write") => Points(user)
    /\ \A c \in Commands : fits /\ Saving(c) => Points(cfg[c])
Together == Finished /\ Installing /\ Pointing

LEMMA MergeEndpoint ==
    ASSUME NEW u \in Config, NEW s \in Config
    PROVE  Merge(u, s).endpoint = IF s.endpoint # "default" THEN s.endpoint ELSE u.endpoint
  BY DEF Merge, Defaults

LEMMA EndpointOf ==
    ASSUME NEW g \in Config, NEW k, NEW p
    PROVE  /\ [g EXCEPT !.endpoint = k].endpoint = k
           /\ [g EXCEPT !.policy = p].endpoint = g.endpoint
  BY DEF Config

(* A step of one command that leaves the files, and all that was loaded by   *)
(* those that will save.                                                    *)
LEMMA TogetherQuiet ==
    ASSUME TypeOK, Together, NEW c \in Commands, pc[c] # "write", pc'[c] \notin {"pin", "write"},
           pc'[c] = "trunc" => c \notin Pairings,
           UNCHANGED <<sys, user, key, cert, pin, fits>>,
           Saving(c)' => Saving(c) /\ cfg'[c] = cfg[c],
           \A d \in Commands : d # c => /\ pc'[d] = pc[d] /\ cfg'[d] = cfg[d]
                                        /\ tok'[d] = tok[d]
    PROVE  Together'
<1>1. \A d \in Commands : pc'[d] = "write" <=> pc[d] = "write"
  OBVIOUS
<1>2. Installing'
  BY DEF Together, Installing
<1>3. \A d \in Commands : Saving(d)' => Saving(d) /\ cfg'[d] = cfg[d]
  BY DEF Saving, Underway
<1> QED
  BY <1>1, <1>2, <1>3 DEF Together, Finished, Pointing, Points

(* A pairing without a finished installation before it, or that has begun.  *)
LEMMA TogetherUnfinished ==
    ASSUME ~fits', Installing' PROVE Together'
  BY DEF Together, Finished, Pointing

LEMMA TogetherCommand ==
    ASSUME TypeOK, TypeOK', Holding, Holding', OneSaver, OneSaver', KeyKnown, Fitting, Together,
           NEW c \in Commands, Command(c)
    PROVE  Together'
<1> USE DEF Goto
<1>0. pc \in [Commands -> Steps] /\ cfg \in [Commands -> Config] /\ tok \in [Commands -> Token \cup {Nothing}]
  BY DEF TypeOK
<1>1. CASE Load(c)
  <2>1. /\ UNCHANGED <<sys, user, key, cert, pin, fits, tok>> /\ pc[c] = "idle"
        /\ cfg' = [cfg EXCEPT ![c] = Merge(user, sys)]
        /\ pc'[c] = FirstStep(c) /\ \A d \in Commands : d # c => pc'[d] = pc[d]
    BY <1>0, <1>1 DEF Load, files, history
  <2>2. cfg'[c] = Merge(user, sys) /\ \A d \in Commands : d # c => cfg'[d] = cfg[d]
    BY <1>0, <2>1
  <2>3. CASE Kind[c] = "csr"
    BY <2>1, <2>2, <2>3, TogetherQuiet DEF Saving, FirstStep
  <2>4. CASE Kind[c] # "csr"
    <3>1. Saving(c)' /\ pc'[c] \in {"trunc", "check", "key"}
      BY <2>1, <2>4 DEF Saving, Underway, FirstStep
    <3>2. pc'[c] = "trunc" => c \notin Pairings
      BY <2>1 DEF FirstStep, Pairings
    <3>3. \A d \in Commands : d # c => ~Saving(d)' /\ pc'[d] \notin {"pin", "trunc", "write"}
      BY <3>1 DEF OneSaver, Saving, Underway, Holding, Pairings
    <3>4. Installing'
      BY <3>1, <3>2, <3>3 DEF Installing
    <3>5. Merge(user, sys).endpoint = IF sys.endpoint # "default" THEN sys.endpoint ELSE user.endpoint
      BY MergeEndpoint, SetupAssumption DEF TypeOK
    <3>6. fits => Points(user)
      BY <2>1, <3>3 DEF Together, Pointing
    <3> QED
      BY <2>1, <2>2, <3>3, <3>4, <3>5, <3>6 DEF Together, Finished, Pointing, Points
  <2> QED
    BY <2>3, <2>4
<1>2. CASE EnsureKey(c) \/ PrintRequest(c) \/ PostRequest(c) \/ CheckToken(c)
  <2>1. /\ Underway(c) /\ pc[c] # "write" /\ pc'[c] \notin {"pin", "trunc", "write"}
        /\ \A d \in Commands : d # c => pc'[d] = pc[d]
    BY <1>0, <1>2 DEF EnsureKey, PrintRequest, PostRequest, CheckToken, Underway
  <2>2. UNCHANGED <<sys, user, key, cert, pin, cfg, fits>>
    BY <1>2 DEF EnsureKey, PrintRequest, PostRequest, CheckToken, files, local, history
  <2>3. \A d \in Commands : d # c => tok'[d] = tok[d]
    BY <1>0, <1>2 DEF EnsureKey, PrintRequest, PostRequest, CheckToken, local
  <2> QED
    BY <2>1, <2>2, <2>3, TogetherQuiet DEF Saving
<1>3. CASE TruncateKey(c) \/ WriteKey(c)
  <2>1. key \in {"none", "torn"} /\ UNCHANGED <<fits, cert, pin, tok>>
    BY <1>3 DEF TruncateKey, WriteKey, KeyKnown, local, history
  <2>2. ~fits
    BY <2>1, SetupAssumption DEF Together, Finished, Token
  <2>3. /\ pc'[c] \notin {"pin", "trunc", "write"}
        /\ \A d \in Commands : d # c => pc'[d] = pc[d]
    BY <1>0, <1>3 DEF TruncateKey, WriteKey
  <2> QED
    BY <2>1, <2>2, <2>3, TogetherUnfinished DEF Together, Installing
<1>4. CASE InstallCert(c)
  <2>1. ~fits' /\ pc'[c] = "pin" /\ cert' = tok'[c]
    BY <1>0, <1>4 DEF InstallCert, local
  <2>2. Saving(c)
    BY <1>4 DEF InstallCert, Holding, Pairings, Saving, Underway
  <2>3. \A d \in Commands : d # c => pc'[d] \notin {"pin", "trunc", "write"}
    BY <1>0, <1>4, <2>2, NoneBeside DEF InstallCert
  <2> QED
    BY <2>1, <2>3, TogetherUnfinished DEF Installing
<1>5. CASE InstallPin(c)
  <2>1. ~fits' /\ pc'[c] = "trunc" /\ cert' = tok'[c] /\ pin' = tok'[c].cloud
    BY <1>0, <1>5 DEF InstallPin, Together, Installing, local, history
  <2>2. Saving(c)
    BY <1>5 DEF InstallPin, Holding, Pairings, Saving, Underway
  <2>3. \A d \in Commands : d # c => pc'[d] \notin {"pin", "trunc", "write"}
    BY <1>0, <1>5, <2>2, NoneBeside DEF InstallPin
  <2> QED
    BY <2>1, <2>3, TogetherUnfinished DEF Installing
<1>6. CASE TruncateUser(c)
  <2>1. /\ pc[c] = "trunc" /\ pc'[c] = "write" /\ UNCHANGED <<sys, key, cert, pin, cfg, tok, fits>>
        /\ \A d \in Commands : d # c => pc'[d] = pc[d]
    BY <1>0, <1>6 DEF TruncateUser, local
  <2>2. Installing' /\ \A d \in Commands : Saving(d)' => Saving(d)
    BY <2>1 DEF Together, Installing, Saving, Underway
  <2> QED
    BY <2>1, <2>2 DEF Together, Finished, Pointing, Points
<1>7. CASE WriteUser(c)
  <2>1. /\ pc[c] = "write" /\ pc'[c] = "done" /\ UNCHANGED <<sys, key, cert, pin, cfg, tok>>
        /\ \A d \in Commands : d # c => pc'[d] = pc[d]
    BY <1>0, <1>7 DEF WriteUser, local
  <2>2. Saving(c)
    BY <2>1 DEF Holding, Saving, Underway
  <2>3. \A d \in Commands : ~Saving(d)' /\ pc'[d] \notin {"pin", "trunc", "write"}
    BY <2>1, <2>2, NoneBeside DEF Saving, Underway
  <2>4. Installing' /\ cfg[c] \in Config
    BY <1>0, <2>3 DEF Installing
  <2>5. CASE SavePairing(c)
    <3>1. user'.endpoint = tok[c].cloud
      BY <2>4, <2>5, EndpointOf DEF SavePairing
    <3>2. cert = tok[c] /\ pin = tok[c].cloud /\ tok[c] \in Token
      BY <2>1, <2>5 DEF SavePairing, Together, Installing, Holding
    <3>3. cert.key = key
      BY <3>2, SetupAssumption DEF Fitting, Token
    <3> QED
      BY <2>1, <2>3, <2>4, <3>1, <3>2, <3>3 DEF Together, Finished, Pointing, Points
  <2>6. CASE SaveMode(c)
    <3>1. user'.endpoint = cfg[c].endpoint /\ fits' = fits
      BY <2>4, <2>6, EndpointOf DEF SaveMode
    <3>2. fits => Points(cfg[c])
      BY <2>2 DEF Together, Pointing
    <3> QED
      BY <2>1, <2>3, <2>4, <3>1, <3>2 DEF Together, Finished, Pointing, Points
  <2> QED
    BY <1>7, <2>5, <2>6 DEF WriteUser
<1>8. CASE Stop(c)
  <2>1. /\ Underway(c) /\ pc'[c] = "failed" /\ UNCHANGED <<sys, user, key, cert, pin, cfg, tok>>
        /\ \A d \in Commands : d # c => pc'[d] = pc[d]
    BY <1>0, <1>8 DEF Stop, files, local
  <2>2. CASE pc[c] = "write"
    <3>1. ~fits'
      BY <1>8, <2>2 DEF Stop
    <3>2. Saving(c)
      BY <2>2 DEF Holding, Saving, Underway
    <3>3. \A d \in Commands : pc'[d] \notin {"pin", "trunc", "write"}
      BY <2>1, <3>2, NoneBeside
    <3> QED
      BY <3>1, <3>3, TogetherUnfinished DEF Installing
  <2>3. CASE pc[c] # "write"
    <3>1. fits' = fits
      BY <1>8, <2>3 DEF Stop, history
    <3> QED
      BY <2>1, <2>3, <3>1, TogetherQuiet DEF Saving, Underway
  <2> QED
    BY <2>2, <2>3
<1> QED
  BY <1>1, <1>2, <1>3, <1>4, <1>5, <1>6, <1>7, <1>8 DEF Command

LEMMA InstalledTogether == Spec /\ []OneMaker /\ []OneSaver => []Together
<1>1. Init => Together
  BY DEF Init, Together, Finished, Installing, Pointing
<1>2. TypeOK /\ TypeOK' /\ Holding /\ Holding' /\ OneSaver /\ OneSaver' /\ KeyKnown /\ Fitting
      /\ Together /\ [Next]_vars => Together'
  <2> SUFFICES ASSUME TypeOK, TypeOK', Holding, Holding', OneSaver, OneSaver', KeyKnown, Fitting,
                      Together, [Next]_vars
               PROVE  Together'
    OBVIOUS
  <2>1. CASE \E c \in Commands : Command(c)
    BY <2>1, TogetherCommand
  <2>2. CASE Issue \/ UNCHANGED vars
    BY <2>2 DEF Issue, vars, files, local, history, Together, Finished, Installing, Pointing,
                Points, Saving, Underway
  <2> QED
    BY <2>1, <2>2 DEF Next
<1> QED
  BY <1>1, <1>2, Typed, Keyed, PTL DEF Spec

(* A finished installation stays usable: its files belong together and its  *)
(* endpoint is dialled, whatever failed and whatever commands came since, as *)
(* long as they keep out of each other's way.                               *)
THEOREM PairedTheorem == Spec /\ []OneMaker /\ []OneSaver => []PairedIsUsable
<1>1. TypeOK /\ Together => PairedIsUsable
  <2> SUFFICES ASSUME TypeOK, Together, Settled, fits
               PROVE  /\ Loads /\ cert.key = key /\ cert.cloud = pin
                      /\ Effective.endpoint = pin \/ sys.endpoint # "default"
    BY DEF PairedIsUsable
  <2>1. cert \in Token /\ cert.key = key /\ cert.cloud = pin
    BY DEF Together, Finished
  <2>2. Loads
    BY <2>1, SetupAssumption DEF Loads, Token, Nothing
  <2>3. Points(user)
    BY DEF Together, Pointing, Settled, Underway
  <2>4. Effective.endpoint = IF sys.endpoint # "default" THEN sys.endpoint ELSE user.endpoint
    BY MergeEndpoint, SetupAssumption DEF TypeOK, Effective
  <2> QED
    BY <2>1, <2>2, <2>3, <2>4 DEF Points
<1> QED
  BY <1>1, InstalledTogether, Typed, PTL

-----------------------------------------------------------------------------
(* The daemon reads its files while commands write them.                    *)
(* The commands go on beside the daemon as they do alone.                   *)
LEMMA CommandsGoOn == DaemonSpec => Spec
<1>1. DaemonInit => Init
  BY DEF DaemonInit
<1>2. [DaemonNext]_<<vars, dvars>> => [Next]_vars
  BY DEF DaemonNext, Launch, Look, ReadPin, ReadCert, ReadKey, Die, Setting
<1> QED
  BY <1>1, <1>2, PTL DEF DaemonSpec, Spec

-----------------------------------------------------------------------------
(* Type correctness.                                                        *)
LEMMA HeldIn ==
    ASSUME NEW h \in Held
    PROVE  /\ \A g \in Config : [Nowhere EXCEPT !.conf = g] \in Held
           /\ \A p \in Clouds \cup {"none"} : [h EXCEPT !.pin = p] \in Held
           /\ \A k \in Token \cup {Nothing} : [h EXCEPT !.cert = k] \in Held
  BY DefaultsIn DEF Held, Nowhere

LEMMA HeldHas ==
    ASSUME NEW h \in Held, NEW x
    PROVE  /\ [Nowhere EXCEPT !.conf = x].conf = x
           /\ [h EXCEPT !.pin = x].pin = x /\ [h EXCEPT !.pin = x].conf = h.conf
           /\ [h EXCEPT !.cert = x].cert = x /\ [h EXCEPT !.cert = x].conf = h.conf
           /\ [h EXCEPT !.cert = x].pin = h.pin
  BY DEF Held, Nowhere

LEMMA DaemonTyped ==
    ASSUME DaemonTypeOK, TypeOK', [DaemonNext]_<<vars, dvars>>
    PROVE  DaemonTypeOK'
<1> USE DEF DaemonTypeOK
<1>1. CASE Launch
  <2>1. Merge(user, sys) \in Config /\ chosen \in Policies
    BY MergeIn, SetupAssumption DEF TypeOK
  <2> QED
    BY <1>1, <2>1, HeldIn DEF Launch
<1>2. CASE Look
  BY <1>2 DEF Look
<1>3. CASE ReadPin
  BY <1>3, HeldIn DEF ReadPin, TypeOK
<1>4. CASE ReadCert
  BY <1>4, HeldIn DEF ReadCert, TypeOK
<1>5. CASE ReadKey
  BY <1>5 DEF ReadKey
<1>6. CASE Die
  BY <1>6 DEF Die
<1>7. CASE Setting
  BY <1>7 DEF Setting
<1>8. CASE UNCHANGED <<vars, dvars>>
  BY <1>8 DEF dvars
<1> QED
  BY <1>1, <1>2, <1>3, <1>4, <1>5, <1>6, <1>7, <1>8 DEF DaemonNext

(* The type invariant of the daemon and the commands beside it.             *)
THEOREM DaemonTypeCorrect == DaemonSpec => []DaemonTypeOK
<1>1. DaemonInit /\ TypeOK => DaemonTypeOK
  BY DefaultsIn DEF DaemonInit, DaemonTypeOK, Held, Nowhere
<1>2. DaemonTypeOK /\ TypeOK' /\ [DaemonNext]_<<vars, dvars>> => DaemonTypeOK'
  BY DaemonTyped
<1> QED
  BY <1>1, <1>2, CommandsGoOn, Typed, PTL DEF DaemonSpec

-----------------------------------------------------------------------------
(* What a daemon holds that was started with everything in place: until it  *)
(* is up the installation stands, and what it has read is what is on disk.  *)
Starting == owed # "none" =>
    /\ at \in {"look", "pin", "cert", "key", "up"}
    /\ held.conf.policy = IF sys.policy # "default" THEN sys.policy ELSE owed
    /\ at # "up" => fits /\ Points(held.conf)
    /\ at \in {"cert", "key"} => held.pin = pin
    /\ at = "key" => held.cert = cert
    /\ at = "up" => Reaches \/ sys.endpoint # "default"

(* A finished installation is only replaced by one that is not.             *)
LEMMA StillInstalled ==
    ASSUME Together, [Next]_vars, fits, fits'
    PROVE  UNCHANGED <<sys, cert, pin>>
<1>1. ASSUME NEW c \in Commands, Command(c) PROVE UNCHANGED <<sys, cert, pin>>
  BY <1>1 DEF Command, Load, EnsureKey, TruncateKey, WriteKey, PrintRequest, PostRequest, CheckToken,
              InstallCert, InstallPin, TruncateUser, WriteUser, Stop, files, Together, Installing
<1> QED
  BY <1>1 DEF Next, Issue, files, vars

LEMMA StartingStep ==
    ASSUME DaemonTypeOK, Together, Standing, Starting, [DaemonNext]_<<vars, dvars>>
    PROVE  Starting'
<1> SUFFICES ASSUME owed' # "none"
             PROVE  Starting'
  BY DEF Starting
<1>1. CASE Launch
  <2>1. /\ at' = "look" /\ held'.conf = Merge(user, sys) /\ owed' = chosen /\ InPlace
        /\ UNCHANGED vars
    BY <1>1, HeldHas DEF Launch, DaemonTypeOK
  <2>2. held'.conf.policy = IF sys.policy # "default" THEN sys.policy ELSE chosen
    BY <2>1 DEF Standing, InPlace, Effective, InForce
  <2>3. Points(user)
    BY <2>1 DEF InPlace, Together, Pointing
  <2>4. held'.conf.endpoint = IF sys.endpoint # "default" THEN sys.endpoint ELSE user.endpoint
    BY <2>1, MergeEndpoint, SetupAssumption DEF DaemonTypeOK, TypeOK
  <2> QED
    BY <2>1, <2>2, <2>3, <2>4 DEF Starting, Points, InPlace, vars
<1>2. CASE Look
  <2>1. at = "look" /\ owed' = owed /\ held' = held /\ UNCHANGED vars
    BY <1>2 DEF Look
  <2>2. fits
    BY <2>1 DEF Starting
  <2>3. cert # Nothing /\ key # "none" /\ pin # "none"
    BY <2>2, SetupAssumption DEF Together, Finished, Token, Nothing
  <2>4. at' = "pin"
    BY <1>2, <2>3 DEF Look
  <2> QED
    BY <2>1, <2>4 DEF Starting, Points, vars
<1>3. CASE ReadPin
  <2>1. at = "pin" /\ at' = "cert" /\ owed' = owed /\ UNCHANGED vars
    BY <1>3 DEF ReadPin
  <2>2. held'.pin = pin /\ held'.conf = held.conf
    BY <1>3, HeldHas DEF ReadPin, DaemonTypeOK
  <2> QED
    BY <2>1, <2>2 DEF Starting, Points, vars
<1>4. CASE ReadCert
  <2>1. at = "cert" /\ at' = "key" /\ owed' = owed /\ UNCHANGED vars
    BY <1>4 DEF ReadCert
  <2>2. held'.cert = cert /\ held'.pin = held.pin /\ held'.conf = held.conf
    BY <1>4, HeldHas DEF ReadCert, DaemonTypeOK
  <2> QED
    BY <2>1, <2>2 DEF Starting, Points, vars
<1>5. CASE ReadKey
  <2>1. at = "key" /\ owed' = owed /\ held' = held /\ UNCHANGED vars
    BY <1>5 DEF ReadKey
  <2>2. fits /\ Points(held.conf) /\ held.pin = pin /\ held.cert = cert
    BY <2>1 DEF Starting
  <2>3. cert.key = key /\ cert.cloud = pin
    BY <2>2 DEF Together, Finished
  <2>4. at' = "up"
    BY <1>5, <2>2, <2>3 DEF ReadKey
  <2> QED
    BY <2>1, <2>2, <2>3, <2>4 DEF Starting, Points, Reaches, vars
<1>6. CASE Die
  BY <1>6 DEF Die
<1>7. CASE Setting
  <2>1. UNCHANGED <<at, held, owed>> /\ [Next]_vars
    BY <1>7 DEF Setting
  <2>2. CASE at = "up"
    <3>1. sys' = sys
      BY <1>7 DEF Setting, Next, Command, Load, EnsureKey, TruncateKey, WriteKey, PrintRequest,
                  PostRequest, CheckToken, InstallCert, InstallPin, TruncateUser, WriteUser, Stop, Issue
    <3> QED
      BY <2>1, <2>2, <3>1 DEF Starting, Reaches
  <2>3. CASE at # "up"
    <3>1. fits /\ fits'
      BY <1>7, <2>1, <2>3 DEF Setting, Starting
    <3>2. UNCHANGED <<sys, cert, pin>>
      BY <2>1, <3>1, StillInstalled
    <3> QED
      BY <2>1, <2>3, <3>1, <3>2 DEF Starting, Points
  <2> QED
    BY <2>2, <2>3
<1>8. CASE UNCHANGED <<vars, dvars>>
  BY <1>8 DEF dvars, vars, Starting, Points, Reaches
<1> QED
  BY <1>1, <1>2, <1>3, <1>4, <1>5, <1>6, <1>7, <1>8 DEF DaemonNext

(* A daemon started with everything in place comes up, reaches its cloud and *)
(* serves the policy in force, whatever commands run, fail or are killed     *)
(* beside it, as long as they keep out of each other's way.                  *)
THEOREM StartTheorem == DaemonSpec /\ []OneMaker /\ []OneSaver => []StartsAsInstalled
<1>1. DaemonInit => Starting
  BY DEF DaemonInit, Starting
<1>2. DaemonTypeOK /\ Together /\ Standing /\ Starting /\ [DaemonNext]_<<vars, dvars>> => Starting'
  BY StartingStep
<1>3. Starting => StartsAsInstalled
  BY DEF Starting, StartsAsInstalled
<1> QED
  BY <1>1, <1>2, <1>3, CommandsGoOn, DaemonTypeCorrect, InstalledTogether, PolicyStands, PTL
     DEF DaemonSpec

-----------------------------------------------------------------------------
(* Commands given one after another keep out of each other's way: only one   *)
(* is under way.                                                            *)
Alone == \A c, d \in Commands : Underway(c) /\ Underway(d) => c = d

LEMMA AloneStep ==
    ASSUME TypeOK, Alone, ~Overlap, [Next]_vars
    PROVE  Alone'
<1> USE DEF TypeOK, Alone, Underway, Goto, Steps
<1>1. CASE \E c \in Commands : Load(c)
  BY <1>1 DEF Load, FirstStep, Underway
<1>2. ASSUME NEW c \in Commands, Command(c), ~Load(c)
      PROVE  Underway(c) /\ \A d \in Commands : d # c => pc'[d] = pc[d]
  BY <1>2 DEF Command, EnsureKey, TruncateKey, WriteKey, PrintRequest, PostRequest,
              CheckToken, InstallCert, InstallPin, TruncateUser, WriteUser, Stop
<1>3. CASE Issue \/ UNCHANGED vars
  BY <1>3 DEF Issue, vars
<1> QED
  BY <1>1, <1>2, <1>3 DEF Next

LEMMA OneAtATime == ASSUME ~Overlap PROVE Spec => [](OneMaker /\ OneSaver)
<1>1. Init => Alone
  BY DEF Init, Alone, Underway
<1>2. TypeOK /\ Alone /\ [Next]_vars => Alone'
  BY AloneStep
<1>3. Alone => OneMaker /\ OneSaver
  BY DEF Alone, OneMaker, OneSaver, Making, Saving, Underway
<1> QED
  BY <1>1, <1>2, <1>3, Typed, PTL DEF Spec

(* So with commands given one after another, a daemon beside them or not,    *)
(* nothing of this is ever disturbed.                                       *)
THEOREM OneByOneTheorem ==
    ASSUME ~Overlap
    PROVE  /\ Spec => [](KeyKept /\ PolicyKept /\ PairedIsUsable)
           /\ DaemonSpec => [](KeyKept /\ PolicyKept /\ PairedIsUsable /\ StartsAsInstalled)
<1>1. Spec => [](KeyKept /\ PolicyKept /\ PairedIsUsable)
  BY OneAtATime, KeyTheorem, PolicyTheorem, PairedTheorem, PTL
<1>2. DaemonSpec => [](KeyKept /\ PolicyKept /\ PairedIsUsable /\ StartsAsInstalled)
  BY <1>1, CommandsGoOn, OneAtATime, StartTheorem, PTL
<1> QED
  BY <1>1, <1>2

-----------------------------------------------------------------------------
(* The normalisation of a URL.  A clean one has something after its last     *)
(* slash; behind it any number of slashes, a paste, and so on.              *)
Words == {"https:", Gap, "v1", "mcp", "agent", "enroll", "account", "agents", "signup",
          "login", "admin", "tenants", "docs"} \cup Clouds
Clean(w) == w \in Seq(Words) /\ w # <<>> /\ w[Len(w)] # Gap
Slashes == Seq({Gap})

LEMMA GapIsNoWord ==
    Gap \notin {"v1", "mcp", "agent", "enroll", "account", "agents", "signup",
                "login", "admin", "tenants", "docs"}
  BY DEF Gap

(* No two pastes end alike, so that at most one ends a URL.                 *)
LEMMA PasteEnds ==
    /\ \A p \in Pastes : p \in Seq(Words) /\ Len(p) \in 1 .. 3 /\ p[Len(p)] # Gap
    /\ \A p, q \in Pastes : p[Len(p)] = q[Len(q)] => p = q
<1>1. \A a, b, c \in Words :
        /\ <<a>> \in Seq(Words) /\ Len(<<a>>) = 1 /\ <<a>>[1] = a
        /\ <<a, b>> \in Seq(Words) /\ Len(<<a, b>>) = 2 /\ <<a, b>>[2] = b
        /\ <<a, b, c>> \in Seq(Words) /\ Len(<<a, b, c>>) = 3 /\ <<a, b, c>>[3] = c
  OBVIOUS
<1> DEFINE End(p) == p[Len(p)]
<1>2. ASSUME NEW p \in Pastes
      PROVE  /\ p \in Seq(Words) /\ Len(p) \in 1 .. 3
             /\ \/ p = <<"v1", "mcp">> /\ End(p) = "mcp"
                \/ p = <<"v1", "agent", "enroll">> /\ End(p) = "enroll"
                \/ p = <<"v1", "agent">> /\ End(p) = "agent"
                \/ p = <<"v1">> /\ End(p) = "v1"
                \/ p = <<"account", "agents">> /\ End(p) = "agents"
                \/ p = <<"account", "signup">> /\ End(p) = "signup"
                \/ p = <<"account", "login">> /\ End(p) = "login"
                \/ p = <<"account">> /\ End(p) = "account"
                \/ p = <<"admin", "tenants">> /\ End(p) = "tenants"
                \/ p = <<"admin">> /\ End(p) = "admin"
                \/ p = <<"docs">> /\ End(p) = "docs"
  <2>1. {"v1", "mcp", "agent", "enroll", "account", "agents", "signup",
         "login", "admin", "tenants", "docs"} \subseteq Words
    BY DEF Words
  <2>2. \/ p = <<"v1", "mcp">>
        \/ p = <<"v1", "agent", "enroll">>
        \/ p = <<"v1", "agent">>
        \/ p = <<"v1">>
        \/ p = <<"account", "agents">>
        \/ p = <<"account", "signup">>
        \/ p = <<"account", "login">>
        \/ p = <<"account">>
        \/ p = <<"admin", "tenants">>
        \/ p = <<"admin">>
        \/ p = <<"docs">>
    BY DEF Pastes
  <2>3. CASE p = <<"v1", "mcp">>
    BY <1>1, <2>1, <2>3
  <2>4. CASE p = <<"v1", "agent", "enroll">>
    BY <1>1, <2>1, <2>4
  <2>5. CASE p = <<"v1", "agent">>
    BY <1>1, <2>1, <2>5
  <2>6. CASE p = <<"v1">>
    BY <1>1, <2>1, <2>6
  <2>7. CASE p = <<"account", "agents">>
    BY <1>1, <2>1, <2>7
  <2>8. CASE p = <<"account", "signup">>
    BY <1>1, <2>1, <2>8
  <2>9. CASE p = <<"account", "login">>
    BY <1>1, <2>1, <2>9
  <2>10. CASE p = <<"account">>
    BY <1>1, <2>1, <2>10
  <2>11. CASE p = <<"admin", "tenants">>
    BY <1>1, <2>1, <2>11
  <2>12. CASE p = <<"admin">>
    BY <1>1, <2>1, <2>12
  <2>13. CASE p = <<"docs">>
    BY <1>1, <2>1, <2>13
  <2> QED
    BY <2>2, <2>3, <2>4, <2>5, <2>6, <2>7, <2>8, <2>9, <2>10, <2>11, <2>12, <2>13
<1> HIDE DEF End
<1>3. \A p, q \in Pastes : End(p) = End(q) => p = q
  BY <1>2
<1>4. \A p \in Pastes : End(p) # Gap
  BY <1>2, GapIsNoWord
<1> QED
  BY <1>2, <1>3, <1>4 DEF End

LEMMA TrimBack ==
    ASSUME NEW w, Clean(w), NEW s \in Slashes
    PROVE  Trim(w \o s) = w
<1> DEFINE u == w \o s
           full == {n \in 1 .. Len(u) : u[n] # Gap}
           last == CHOOSE n \in full : \A k \in full : k <= n
<1>1. /\ w \in Seq(Words) /\ s \in Seq(Words) /\ Len(w) \in Nat \ {0} /\ Len(s) \in Nat
      /\ w[Len(w)] # Gap
  BY DEF Clean, Slashes, Words
<1>2. /\ u \in Seq(Words) /\ Len(u) = Len(w) + Len(s)
      /\ \A i \in 1 .. Len(u) : u[i] = IF i <= Len(w) THEN w[i] ELSE s[i - Len(w)]
  BY <1>1, ConcatProperties
<1>3. \A j \in 1 .. Len(s) : s[j] = Gap
  BY DEF Slashes
<1>4. Len(w) \in full /\ \A k \in full : k <= Len(w)
  BY <1>1, <1>2, <1>3
<1>5. last = Len(w)
  <2>1. \A n \in full : (\A k \in full : k <= n) => n = Len(w)
    BY <1>4
  <2> HIDE DEF full
  <2> QED
    BY <1>4, <2>1
<1>6. SubSeq(u, 1, Len(w)) = w
  <2>1. \A i \in 1 .. Len(w) : u[i] = w[i] /\ u[i] \in Words
    BY <1>1, <1>2
  <2>2. /\ SubSeq(u, 1, Len(w)) \in Seq(Words) /\ Len(SubSeq(u, 1, Len(w))) = Len(w)
        /\ \A i \in 1 .. Len(w) : SubSeq(u, 1, Len(w))[i] = w[i]
    BY <1>1, <2>1, SubSeqProperties
  <2> QED
    BY <1>1, <2>2, SeqEqual
<1>7. full # {}
  BY <1>4
<1>8. Trim(u) = Front(u, last)
  BY <1>7 DEF Trim
<1> QED
  BY <1>5, <1>6, <1>8 DEF Front

LEMMA StripBack ==
    ASSUME NEW w, Clean(w), NEW s \in Slashes, NEW q \in Pastes
    PROVE  Strip((w \o s) \o q) = w /\ Clean((w \o s) \o q)
<1> DEFINE v == w \o s
           u == v \o q
<1>1. /\ w \in Seq(Words) /\ s \in Seq(Words) /\ Len(w) \in Nat \ {0} /\ Len(s) \in Nat
      /\ q \in Seq(Words) /\ Len(q) \in 1 .. 3 /\ q[Len(q)] # Gap
  BY PasteEnds DEF Clean, Slashes, Words
<1>2. v \in Seq(Words) /\ Len(v) = Len(w) + Len(s)
  BY <1>1, ConcatProperties
<1> HIDE DEF v
<1>3. /\ u \in Seq(Words) /\ Len(u) = Len(v) + Len(q)
      /\ \A i \in 1 .. Len(u) : u[i] = IF i <= Len(v) THEN v[i] ELSE q[i - Len(v)]
  <2>1. v \in Seq(Words) /\ q \in Seq(Words)
    BY <1>1, <1>2
  <2>2. /\ u \in Seq(Words) /\ Len(u) = Len(v) + Len(q)
        /\ \A i \in 1 .. Len(v) + Len(q) : u[i] = IF i <= Len(v) THEN v[i] ELSE q[i - Len(v)]
    BY <2>1, ConcatProperties
  <2> HIDE DEF u
  <2> QED
    BY <2>2
<1> HIDE DEF u
<1>4. u[Len(u)] = q[Len(q)] /\ Clean(u)
  <2>1. Len(u) \in 1 .. Len(u) /\ ~(Len(u) <= Len(v)) /\ Len(u) - Len(v) = Len(q)
    <3>1. \A l, m, n \in Nat : m \in 1 .. 3 /\ n = l + m
             => n \in 1 .. n /\ ~(n <= l) /\ n - l = m
      OBVIOUS
    <3>2. Len(v) \in Nat /\ Len(q) \in Nat /\ Len(u) \in Nat
      BY <1>1, <1>2, <1>3
    <3> QED
      BY <1>1, <1>3, <3>1, <3>2
  <2>2. u[Len(u)] = q[Len(q)]
    BY <1>3, <2>1
  <2> QED
    BY <1>1, <1>3, <2>1, <2>2, EmptySeq DEF Clean
<1>5. EndsWith(u, q)
  <2>1. \A i \in Len(u) - Len(q) + 1 .. Len(u) : u[i] \in Words
    BY <1>1, <1>2, <1>3
  <2>2. /\ SubSeq(u, Len(u) - Len(q) + 1, Len(u)) \in Seq(Words)
        /\ Len(SubSeq(u, Len(u) - Len(q) + 1, Len(u))) = Len(q)
        /\ \A i \in 1 .. Len(q) : SubSeq(u, Len(u) - Len(q) + 1, Len(u))[i] = q[i]
    <3> DEFINE m == Len(u) - Len(q) + 1
               n == Len(u)
               z == SubSeq(u, m, n)
    <3>1. /\ m \in Int /\ n \in Int /\ m <= n /\ n - m + 1 = Len(q)
          /\ \A i \in m .. n : u[i] \in Words
      <4>1. Len(v) \in Nat /\ Len(q) \in 1 .. 3 /\ Len(u) = Len(v) + Len(q)
        BY <1>1, <1>2, <1>3
      <4>2. m \in Int /\ n \in Int /\ m <= n /\ n - m + 1 = Len(q)
        <5>1. \A b, c \in Int : 1 <= b =>
                  c - b + 1 \in Int /\ c - b + 1 <= c /\ c - (c - b + 1) + 1 = b
          OBVIOUS
        <5>2. \A a \in Nat, b \in 1 .. 3 : \A c : c = a + b => c \in Int /\ b \in Int /\ 1 <= b
          OBVIOUS
        <5>3. Len(u) \in Int /\ Len(q) \in Int /\ 1 <= Len(q)
          BY <4>1, <5>2
        <5> QED
          BY <5>1, <5>3
      <4> QED
        BY <2>1, <4>2
    <3>2. \A i \in 1 .. Len(q) : u[m + i - 1] = q[i]
      <4> SUFFICES ASSUME NEW i \in 1 .. Len(q) PROVE u[m + i - 1] = q[i]
        OBVIOUS
      <4>1. /\ m + i - 1 \in 1 .. Len(u) /\ ~(m + i - 1 <= Len(v))
            /\ m + i - 1 - Len(v) = i
        BY <1>1, <1>2, <1>3
      <4> DEFINE j == m + i - 1
      <4>2. j \in 1 .. Len(u) /\ ~(j <= Len(v)) /\ j - Len(v) = i
        BY <4>1
      <4> HIDE DEF j
      <4>3. u[j] = q[j - Len(v)]
        BY <1>3, <4>2
      <4> QED
        BY <4>2, <4>3 DEF j
    <3> HIDE DEF m, n
    <3>3. z \in Seq(Words) /\ Len(z) = n - m + 1 /\ \A i \in 1 .. n - m + 1 : z[i] = u[m + i - 1]
      BY <3>1, SubSeqProperties
    <3> HIDE DEF z
    <3>4. z \in Seq(Words) /\ Len(z) = Len(q) /\ \A i \in 1 .. Len(q) : z[i] = q[i]
      BY <3>1, <3>2, <3>3
    <3> QED
      BY <3>4 DEF m, n, z
  <2>3. SubSeq(u, Len(u) - Len(q) + 1, Len(u)) = q
    BY <1>1, <2>2, SeqEqual
  <2> QED
    BY <1>1, <1>2, <1>3, <2>3 DEF EndsWith
<1>6. \A p \in Pastes : EndsWith(u, p) => p = q
  <2> SUFFICES ASSUME NEW p \in Pastes, EndsWith(u, p) PROVE p[Len(p)] = q[Len(q)]
    BY PasteEnds
  <2>1. Len(p) \in 1 .. 3 /\ Len(u) > Len(p) /\ SubSeq(u, Len(u) - Len(p) + 1, Len(u)) = p
    BY PasteEnds DEF EndsWith
  <2>2. \A i \in Len(u) - Len(p) + 1 .. Len(u) : u[i] \in Words
    BY <1>1, <1>2, <1>3, <2>1
  <2>3. SubSeq(u, Len(u) - Len(p) + 1, Len(u))[Len(p)] = u[Len(u)]
    BY <1>1, <1>2, <1>3, <2>1, <2>2, SubSeqProperties
  <2> QED
    BY <1>4, <2>1, <2>3
<1>7. Strip(u) = Trim(Front(u, Len(u) - Len(q)))
  <2>1. (CHOOSE p \in Pastes : EndsWith(u, p)) = q
    BY <1>5, <1>6
  <2> QED
    BY <1>5, <2>1 DEF Strip
<1>8. Front(u, Len(u) - Len(q)) = v
  <2>1. Len(u) - Len(q) = Len(v) /\ \A i \in 1 .. Len(v) : u[i] = v[i] /\ u[i] \in Words
    BY <1>1, <1>2, <1>3
  <2>2. /\ SubSeq(u, 1, Len(v)) \in Seq(Words) /\ Len(SubSeq(u, 1, Len(v))) = Len(v)
        /\ \A i \in 1 .. Len(v) : SubSeq(u, 1, Len(v))[i] = v[i]
    BY <1>1, <1>2, <2>1, SubSeqProperties
  <2> QED
    BY <1>2, <2>1, <2>2, SeqEqual DEF Front
<1>9. Trim(v) = w
  BY TrimBack DEF v
<1> QED
  BY <1>4, <1>7, <1>8, <1>9 DEF u, v

(* The bare address stays as it is.                                         *)
LEMMA BareStays ==
    ASSUME NEW cloud \in Clouds
    PROVE  Clean(Base(cloud)) /\ Strip(Base(cloud)) = Base(cloud)
<1> DEFINE u == Base(cloud)
<1>1. /\ u \in Seq(Words) /\ Len(u) = 3 /\ u # <<>>
      /\ u[1] = "https:" /\ u[2] = Gap /\ u[3] = cloud
  BY DEF Base, Words
<1>2. cloud # Gap /\ <<cloud>> \notin Pastes
  BY HostAssumption DEF IsHost
<1>3. ASSUME NEW p \in Pastes, EndsWith(u, p) PROVE FALSE
  <2> HIDE DEF u
  <2>1. /\ Len(p) \in 1 .. 2 /\ p \in Seq(Words) /\ SubSeq(u, 3 - Len(p) + 1, 3) = p
    <3>1. Len(p) \in 1 .. 3 /\ p \in Seq(Words)
      BY PasteEnds
    <3>2. 3 > Len(p) /\ SubSeq(u, 3 - Len(p) + 1, 3) = p
      BY <1>1, <1>3 DEF EndsWith
    <3> QED
      BY <3>1, <3>2
  <2>2. CASE Len(p) = 1
    <3>1. p[1] = cloud
      BY <1>1, <2>1, <2>2
    <3>2. p = <<cloud>>
      BY <2>1, <2>2, <3>1
    <3> QED
      BY <1>2, <3>2
  <2>3. CASE Len(p) = 2
    <3>1. p[1] = Gap
      BY <1>1, <2>1, <2>3
    <3>2. \A r \in Pastes : r[1] \in {"v1", "account", "admin", "docs"}
      BY DEF Pastes
    <3> QED
      BY <3>1, <3>2, GapIsNoWord
  <2> QED
    BY <2>1, <2>2, <2>3
<1> HIDE DEF u
<1>4. Clean(u) /\ Strip(u) = u
  BY <1>1, <1>2, <1>3 DEF Clean, Strip
<1> QED
  BY <1>4 DEF u

(* The rounds, one by one.                                                  *)
LEMMA SixRounds ==
    ASSUME NEW u
    PROVE  Normalise(u) = Strip(Strip(Strip(Strip(Strip(Strip(Trim(u)))))))
<1> DEFINE Solves(f) == f = [n \in 0 .. Rounds |-> IF n = 0 THEN Trim(u) ELSE Strip(f[n - 1])]
           after == CHOOSE f : Solves(f)
           x0 == Trim(u) x1 == Strip(x0) x2 == Strip(x1) x3 == Strip(x2)
           x4 == Strip(x3) x5 == Strip(x4) x6 == Strip(x5)
           g == [n \in 0 .. 6 |-> IF n = 0 THEN x0 ELSE IF n = 1 THEN x1 ELSE IF n = 2 THEN x2
                   ELSE IF n = 3 THEN x3 ELSE IF n = 4 THEN x4 ELSE IF n = 5 THEN x5 ELSE x6]
<1>1. x1 = Strip(x0) /\ x2 = Strip(x1) /\ x3 = Strip(x2) /\ x4 = Strip(x3) /\ x5 = Strip(x4) /\ x6 = Strip(x5)
  OBVIOUS
<1>2. Normalise(u) = after[6]
  BY DEF Normalise, Rounds
<1> HIDE DEF x0, x1, x2, x3, x4, x5, x6
<1>3. g = [n \in 0 .. 6 |-> IF n = 0 THEN x0 ELSE Strip(g[n - 1])]
  BY <1>1
<1>4. Solves(g)
  BY <1>3 DEF Rounds, x0
<1>5. Solves(after)
  <2> HIDE DEF Solves, g
  <2> QED
    BY <1>4
<1> HIDE DEF after
<1>6. after = [n \in 0 .. 6 |-> IF n = 0 THEN x0 ELSE Strip(after[n - 1])]
  BY <1>5 DEF Rounds, x0
<1> HIDE DEF Solves
<1>7. after[0] = x0 /\ \A n \in 1 .. 6 : after[n] = Strip(after[n - 1])
  BY <1>6
<1>8. after[1] = x1 /\ after[2] = x2 /\ after[3] = x3
  BY <1>1, <1>7
<1>9. after[6] = x6
  BY <1>1, <1>7, <1>8
<1> QED
  BY <1>1, <1>2, <1>9 DEF x0

(* A URL that is a clean one and slashes: more slashes change nothing, a      *)
(* paste makes another clean one.                                           *)
Stem(x, u) == Clean(x) /\ \E s \in Slashes : u = x \o s

LEMMA StemSlashes ==
    ASSUME NEW x, NEW u, Stem(x, u), NEW t \in Slashes
    PROVE  Stem(x, u \o t)
<1>1. PICK s \in Slashes : u = x \o s
  BY DEF Stem
<1>2. x \in Seq(Words) /\ s \in Seq(Words) /\ t \in Seq(Words) /\ s \o t \in Slashes
  BY DEF Stem, Clean, Slashes, Words
<1>3. (x \o s) \o t = x \o (s \o t)
  BY <1>2, ConcatAssociative
<1> QED
  BY <1>1, <1>2, <1>3 DEF Stem

LEMMA StemPaste ==
    ASSUME NEW x, NEW u, Stem(x, u), NEW p \in Pastes
    PROVE  Stem(u \o p, u \o p) /\ Strip(u \o p) = x
<1>1. PICK s \in Slashes : u = x \o s
  BY DEF Stem
<1>2. Clean(x)
  BY DEF Stem
<1>3. Strip((x \o s) \o p) = x /\ Clean((x \o s) \o p)
  BY <1>2, StripBack
<1>4. u \o p \in Seq(Words) /\ <<>> \in Slashes
  BY <1>1, <1>3 DEF Clean, Slashes
<1>5. (u \o p) \o <<>> = u \o p
  BY <1>4, ConcatEmptySeq
<1> QED
  BY <1>1, <1>3, <1>4, <1>5 DEF Stem

LEMMA StemTrim ==
    ASSUME NEW x, NEW u, Stem(x, u)
    PROVE  Trim(u) = x
  BY TrimBack DEF Stem

(* Whatever known path of a cloud a customer pastes behind its address, and   *)
(* a second behind that, with up to two slashes more than needed around each: *)
(* an enrolment posts to that cloud's bare address.                           *)
THEOREM EnrolTheorem == Spec => []EnrolReachesCloud
<1>1. ASSUME NEW cloud \in Clouds, NEW url \in PastedOnto(cloud)
      PROVE  Normalise(url) = Base(cloud)
  <2> DEFINE w == Base(cloud)
             Bare(u) == Stem(w, u)
             Once(u) == \E x : Stem(x, u) /\ Strip(x) = w
             Twice(u) == \E x : Stem(x, u) /\ Strip(Strip(x)) = w
             None == {w}
             One == Pasted(Slashed(None))
             Two == Pasted(Slashed(One))
  <2>1. Clean(w) /\ Strip(w) = w
    BY BareStays
  <2> HIDE DEF w
  <2>2. ASSUME NEW u, NEW s \in Slashes
        PROVE  (Bare(u) => Bare(u \o s)) /\ (Once(u) => Once(u \o s)) /\ (Twice(u) => Twice(u \o s))
    BY StemSlashes
  <2>3. ASSUME NEW u, NEW p \in Pastes
        PROVE  (Bare(u) => Once(u \o p)) /\ (Once(u) => Twice(u \o p))
    BY StemPaste
  <2>4. \A u : (Bare(u) => Once(u)) /\ (Once(u) => Twice(u))
    BY <2>1
  <2>5. ASSUME NEW u, Twice(u) PROVE Normalise(u) = w
    <3>1. PICK x : Stem(x, u) /\ Strip(Strip(x)) = w
      BY <2>5
    <3>2. Trim(u) = x
      BY <3>1, StemTrim
    <3> QED
      BY <2>1, <3>1, <3>2, SixRounds
  <2>6. Bare(w)
    <3>1. w \in Seq(Words) /\ <<>> \in Slashes
      BY <2>1 DEF Clean, Slashes
    <3>2. w \o <<>> = w
      BY <3>1, ConcatEmptySeq
    <3> QED
      BY <2>1, <3>1, <3>2 DEF Stem
  <2> HIDE DEF Bare, Once, Twice
  <2>7. {<<>>, <<Gap>>, <<Gap, Gap>>} \subseteq Slashes
    BY DEF Slashes
  <2>8. ASSUME NEW urls, NEW v \in Slashed(urls)
        PROVE  \E u \in urls, s \in Slashes : v = u \o s
    <3> DEFINE few == {<<>>, <<Gap>>, <<Gap, Gap>>}
    <3>1. v \in {u \o s : u \in urls, s \in few}
      BY <2>8 DEF Slashed
    <3>2. few \subseteq Slashes
      BY <2>7
    <3> HIDE DEF few
    <3> QED
      BY <3>1, <3>2
  <2>9. ASSUME NEW urls, NEW v \in Pasted(urls)
        PROVE  v \in urls \/ \E u \in urls, p \in Pastes : v = u \o p
    BY <2>9 DEF Pasted
  <2> HIDE DEF None
  <2>10. ASSUME NEW v \in Slashed(None) PROVE Bare(v)
    <3>1. PICK u \in None, s \in Slashes : v = u \o s
      BY <2>8
    <3> QED
      BY <2>2, <2>6, <3>1 DEF None
  <2>11. ASSUME NEW v \in One PROVE Once(v)
    <3>1. v \in Slashed(None) \/ \E u \in Slashed(None), p \in Pastes : v = u \o p
      BY <2>9
    <3> QED
      BY <2>3, <2>4, <2>10, <3>1
  <2> HIDE DEF One
  <2>12. ASSUME NEW v \in Slashed(One) PROVE Once(v)
    <3>1. PICK u \in One, s \in Slashes : v = u \o s
      BY <2>8
    <3> QED
      BY <2>2, <2>11, <3>1
  <2>13. ASSUME NEW v \in Two PROVE Twice(v)
    <3>1. v \in Slashed(One) \/ \E u \in Slashed(One), p \in Pastes : v = u \o p
      BY <2>9
    <3> QED
      BY <2>3, <2>4, <2>12, <3>1
  <2> HIDE DEF Two
  <2>14. ASSUME NEW v \in Slashed(Two) PROVE Twice(v)
    <3>1. PICK u \in Two, s \in Slashes : v = u \o s
      BY <2>8
    <3> QED
      BY <2>2, <2>13, <3>1
  <2> QED
    BY <2>5, <2>14 DEF PastedOnto, None, One, Two, w
<1>2. EnrolReachesCloud
  BY <1>1 DEF EnrolReachesCloud, PastesStripped
<1> QED
  BY <1>2, PTL

(* Six rounds take off six pastes, whichever they are and however many        *)
(* slashes stand around each: the URLs are built up one paste at a time.      *)
THEOREM SixPastes ==
    ASSUME NEW cloud \in Clouds, NEW p \in [1 .. 6 -> Pastes], NEW s \in [0 .. 6 -> Slashes],
           NEW url, url[0] = Base(cloud) \o s[0],
           \A n \in 1 .. 6 : url[n] = (url[n - 1] \o p[n]) \o s[n]
    PROVE  \A n \in 0 .. 6 : Normalise(url[n]) = Base(cloud)
<1> DEFINE w == Base(cloud)
           x(n) == IF n = 0 THEN w ELSE url[n - 1] \o p[n]
<1>1. Clean(w) /\ Strip(w) = w
  BY BareStays
<1>2. Stem(w, url[0])
  <2> HIDE DEF w
  <2>1. s[0] \in Slashes /\ url[0] = w \o s[0]
    BY DEF w
  <2> QED
    BY <1>1, <2>1 DEF Stem
<1>3. ASSUME NEW n \in 1 .. 6, Stem(x(n - 1), url[n - 1])
      PROVE  Stem(x(n), url[n]) /\ Strip(x(n)) = x(n - 1)
  <2> DEFINE y == url[n - 1] \o p[n]
             z == x(n - 1)
  <2>1. p[n] \in Pastes /\ s[n] \in Slashes /\ url[n] = y \o s[n] /\ x(n) = y
    <3>1. n \in 0 .. 6 /\ n # 0
      OBVIOUS
    <3>2. p[n] \in Pastes /\ s[n] \in Slashes
      BY <3>1
    <3> QED
      BY <3>1, <3>2
  <2>2. Stem(z, url[n - 1])
    BY <1>3
  <2> HIDE DEF z
  <2>3. Stem(y, y) /\ Strip(y) = z
    BY <2>1, <2>2, StemPaste
  <2> HIDE DEF y
  <2>4. Clean(y)
    BY <2>3 DEF Stem
  <2>5. Stem(y, url[n])
    BY <2>1, <2>4 DEF Stem
  <2> QED
    BY <2>1, <2>3, <2>5 DEF z
<1>4. x(0) = w
  OBVIOUS
<1> HIDE DEF w, x
<1>5. Stem(x(0), url[0])
  BY <1>2, <1>4
<1>6. Stem(x(1), url[1]) /\ Strip(x(1)) = x(0)
  <2>1. 1 - 1 = 0 /\ 1 \in 1 .. 6
    OBVIOUS
  <2>2. Stem(x(1 - 1), url[1 - 1])
    BY <1>5, <2>1
  <2>3. Stem(x(1), url[1]) /\ Strip(x(1)) = x(1 - 1)
    BY <1>3, <2>1, <2>2
  <2> QED
    BY <2>1, <2>3
<1>7. Stem(x(2), url[2]) /\ Strip(x(2)) = x(1)
  BY <1>3, <1>6
<1>8. Stem(x(3), url[3]) /\ Strip(x(3)) = x(2)
  BY <1>3, <1>7
<1>9. Stem(x(4), url[4]) /\ Strip(x(4)) = x(3)
  BY <1>3, <1>8
<1>10. Stem(x(5), url[5]) /\ Strip(x(5)) = x(4)
  BY <1>3, <1>9
<1>11. Stem(x(6), url[6]) /\ Strip(x(6)) = x(5)
  BY <1>3, <1>10
<1>12. \A n \in 0 .. 6 : Stem(x(n), url[n])
  <2>1. \A n \in 0 .. 6 : n = 0 \/ n = 1 \/ n = 2 \/ n = 3 \/ n = 4 \/ n = 5 \/ n = 6
    OBVIOUS
  <2> QED
    BY ZenonT(30), <2>1, <1>5, <1>6, <1>7, <1>8, <1>9, <1>10, <1>11
<1>13. \A n \in 0 .. 6 : Strip(Strip(Strip(Strip(Strip(Strip(x(n))))))) = w
  BY <1>1, <1>4, <1>6, <1>7, <1>8, <1>9, <1>10, <1>11
<1>14. ASSUME NEW n \in 0 .. 6 PROVE Normalise(url[n]) = w
  <2>1. Trim(url[n]) = x(n)
    BY <1>12, StemTrim
  <2> QED
    BY <1>13, <2>1, SixRounds
<1> QED
  BY <1>14 DEF w
=============================================================================
