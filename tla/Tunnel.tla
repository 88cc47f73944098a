-------------------------------- MODULE Tunnel --------------------------------
(***************************************************************************)
(* The daemon process as the supervisor and the cloud see it: `run` of the  *)
(* tunnel dials, backs off and serves; every stream the cloud opens becomes *)
(* a task whose handler runs on a bounded pool of blocking threads and      *)
(* outlives its connection.  When `run` returns, main drops the runtime,    *)
(* which waits for the handlers that have started; then the process ends    *)
(* with an error and the supervisor starts another.                         *)
(***************************************************************************)
EXTENDS Naturals, FiniteSets

CONSTANTS
    Streams,    \* requests the cloud makes, a stream each
    PoolSize,   \* blocking threads of the runtime
    MaxBackoff, \* longest pause between two attempts, in seconds
    MaxFails,   \* bound: failures in a row that are told apart
    MaxKills    \* bound: times the process is killed

ASSUME TunnelAssumption ==
    /\ PoolSize \in Nat \ {0}
    /\ MaxBackoff \in Nat \ {0}
    /\ MaxFails \in Nat \ {0}
    /\ MaxKills \in Nat

VARIABLES
    proc,    \* the process
    paired,  \* whether certificate, key and pin are on disk
    loop,    \* where `run` stands
    backoff, \* backoff_secs
    fails,   \* history: failed attempts since the last handshake
    st,      \* [Streams -> step of its task]
    alive,   \* [Streams -> BOOLEAN], the stream and its connection are up
    bad,     \* history: streams whose frame was too large or undecodable
    kills    \* history: how often the process was killed

vars == <<proc, paired, loop, backoff, fails, st, alive, bad, kills>>

(* A task reads its request, waits for a thread, runs and writes its answer. *)
(* At its end it was answered, ran in vain, was lost before it ran, or was   *)
(* cut short while it ran.                                                   *)
Steps == {"idle", "read", "queue", "run", "write", "answered", "void", "lost", "cut"}
Over == {"answered", "void", "lost", "cut"}
In(step) == {s \in Streams : st[s] = step}

TypeOK ==
    /\ proc \in {"up", "exiting", "failed", "stopped"}
    /\ paired \in BOOLEAN
    /\ loop \in {"start", "resolve", "dial", "sleep", "serve", "returned"}
    /\ backoff \in 1 .. MaxBackoff
    /\ fails \in 0 .. MaxFails
    /\ st \in [Streams -> Steps]
    /\ alive \in [Streams -> BOOLEAN]
    /\ bad \subseteq Streams
    /\ kills \in 0 .. MaxKills

Init ==
    /\ proc = "up" /\ loop = "start" /\ paired \in BOOLEAN
    /\ backoff = 1 /\ fails = 0
    /\ st = [s \in Streams |-> "idle"]
    /\ alive = [s \in Streams |-> FALSE]
    /\ bad = {} /\ kills = 0

Smaller(a, b) == IF a <= b THEN a ELSE b
Up == proc = "up"
Dead == [s \in Streams |-> FALSE]

-----------------------------------------------------------------------------
(* `run`.  When it returns, the asynchronous halves of the tasks go with    *)
(* the runtime, and so do the handlers that wait for a thread.              *)
Return ==
    /\ loop' = "returned" /\ proc' = "exiting"
    /\ alive' = Dead
    /\ st' = [s \in Streams |-> CASE st[s] \in {"read", "queue"} -> "lost"
                                  [] st[s] = "write"             -> "void"
                                  [] OTHER                       -> st[s]]

(* Certificate, key and pin must be there.                                  *)
Begin ==
    /\ Up /\ loop = "start" /\ paired
    /\ loop' = "resolve"
    /\ UNCHANGED <<proc, paired, backoff, fails, st, alive, bad, kills>>

(* One of them is missing, or anything else on the way to the loop fails:   *)
(* the startup entry, the pin's file, the certificate, the socket.          *)
BeginFails ==
    /\ Up /\ loop = "start"
    /\ Return
    /\ UNCHANGED <<paired, backoff, fails, bad, kills>>

Resolved ==
    /\ Up /\ loop = "resolve"
    /\ loop' = "dial"
    /\ UNCHANGED <<proc, paired, backoff, fails, st, alive, bad, kills>>

(* A name that does not resolve ends `run`.                                 *)
ResolveFails ==
    /\ Up /\ loop = "resolve"
    /\ Return
    /\ UNCHANGED <<paired, backoff, fails, bad, kills>>

(* Setting up the attempt fails, or the handshake does.                     *)
DialFails ==
    /\ Up /\ loop = "dial"
    /\ loop' = "sleep"
    /\ fails' = Smaller(fails + 1, MaxFails)
    /\ UNCHANGED <<proc, paired, backoff, st, alive, bad, kills>>

(* Variant: the pause is doubled without a limit.                           *)
WakeUncapped ==
    /\ Up /\ loop = "sleep"
    /\ loop' = "resolve"
    /\ backoff' = 2 * backoff
    /\ UNCHANGED <<proc, paired, fails, st, alive, bad, kills>>

Wake ==
    /\ Up /\ loop = "sleep"
    /\ loop' = "resolve"
    /\ backoff' = Smaller(2 * backoff, MaxBackoff)
    /\ UNCHANGED <<proc, paired, fails, st, alive, bad, kills>>

(* Variant: the pause is not reset.                                         *)
ConnectedStillBacking ==
    /\ Up /\ loop = "dial"
    /\ loop' = "serve"
    /\ fails' = 0
    /\ UNCHANGED <<proc, paired, backoff, st, alive, bad, kills>>

Connected ==
    /\ Up /\ loop = "dial"
    /\ loop' = "serve"
    /\ backoff' = 1 /\ fails' = 0
    /\ UNCHANGED <<proc, paired, st, alive, bad, kills>>

(* accept_bi ends, by a close or an error: back to dialling, at once.       *)
Disconnected ==
    /\ Up /\ loop = "serve"
    /\ loop' = "resolve"
    /\ alive' = Dead
    /\ UNCHANGED <<proc, paired, backoff, fails, st, bad, kills>>

Loop == Begin \/ BeginFails \/ Resolved \/ ResolveFails \/ DialFails \/ Wake \/ Connected

-----------------------------------------------------------------------------
(* The tasks.                                                               *)
Move(s, step) ==
    /\ st' = [st EXCEPT ![s] = step]
    /\ UNCHANGED <<proc, paired, loop, backoff, fails, kills>>

Accept(s) ==
    /\ Up /\ loop = "serve" /\ st[s] = "idle"
    /\ alive' = [alive EXCEPT ![s] = TRUE]
    /\ Move(s, "read") /\ UNCHANGED bad

(* Variant: a request is turned away while all threads are busy.            *)
ReadRequestIfIdle(s) ==
    /\ Up /\ st[s] = "read" /\ alive[s]
    /\ Move(s, IF Cardinality(In("run")) < PoolSize THEN "queue" ELSE "lost")
    /\ UNCHANGED <<alive, bad>>

(* The frame arrives whole and well-formed, or is refused without answer.   *)
ReadRequest(s) ==
    /\ Up /\ st[s] = "read" /\ alive[s]
    /\ \/ Move(s, "queue") /\ bad' = bad
       \/ Move(s, "lost") /\ bad' = bad \cup {s}
    /\ UNCHANGED alive

ReadAborted(s) ==
    /\ Up /\ st[s] = "read" /\ ~alive[s]
    /\ Move(s, "lost") /\ UNCHANGED <<alive, bad>>

(* Variant: one request at a time.                                          *)
RunAlone(s) ==
    /\ Up /\ st[s] = "queue"
    /\ In("run") = {}
    /\ Move(s, "run") /\ UNCHANGED <<alive, bad>>

(* spawn_blocking: the handler starts when a thread is free, whether or not *)
(* anybody still waits for its answer.                                      *)
Run(s) ==
    /\ Up /\ st[s] = "queue"
    /\ Cardinality(In("run")) < PoolSize
    /\ Move(s, "run") /\ UNCHANGED <<alive, bad>>

(* The handler returns.                                                     *)
RunEnds(s) ==
    /\ st[s] = "run"
    /\ Move(s, IF Up THEN "write" ELSE "void") /\ UNCHANGED <<alive, bad>>

(* The cloud gives up one stream, by a reset or a stop, and keeps the       *)
(* connection.                                                              *)
Abandon(s) ==
    /\ alive[s]
    /\ alive' = [alive EXCEPT ![s] = FALSE]
    /\ UNCHANGED <<proc, paired, loop, backoff, fails, st, bad, kills>>

WriteAnswer(s) ==
    /\ Up /\ st[s] = "write"
    /\ Move(s, IF alive[s] THEN "answered" ELSE "void") /\ UNCHANGED <<alive, bad>>

Task(s) ==
    \/ Accept(s) \/ ReadRequest(s) \/ ReadAborted(s) \/ Run(s) \/ RunEnds(s)
    \/ Abandon(s) \/ WriteAnswer(s)

-----------------------------------------------------------------------------
(* Variants: the process does not wait for the handlers; its end looks like *)
(* success.                                                                 *)
ExitAtOnce ==
    /\ proc = "exiting"
    /\ proc' = "failed"
    /\ UNCHANGED <<paired, loop, backoff, fails, st, alive, bad, kills>>

ExitQuietly ==
    /\ proc = "exiting" /\ In("run") = {}
    /\ proc' = "stopped"
    /\ UNCHANGED <<paired, loop, backoff, fails, st, alive, bad, kills>>

(* main returns the error once the runtime has been dropped, which waits    *)
(* for every handler that runs.                                             *)
Exit ==
    /\ proc = "exiting" /\ In("run") = {}
    /\ proc' = "failed"
    /\ UNCHANGED <<paired, loop, backoff, fails, st, alive, bad, kills>>

Kill ==
    /\ proc \in {"up", "exiting"} /\ kills < MaxKills
    /\ kills' = kills + 1
    /\ proc' = "failed" /\ loop' = "returned"
    /\ alive' = Dead
    /\ st' = [s \in Streams |-> CASE st[s] \in {"read", "queue"} -> "lost"
                                  [] st[s] = "run"               -> "cut"
                                  [] st[s] = "write"             -> "void"
                                  [] OTHER                       -> st[s]]
    /\ UNCHANGED <<paired, backoff, fails, bad>>

(* The supervisor restarts a process that failed.                           *)
Restart ==
    /\ proc = "failed"
    /\ proc' = "up" /\ loop' = "start"
    /\ backoff' = 1 /\ fails' = 0
    /\ UNCHANGED <<paired, st, alive, bad, kills>>

(* `membrane-daemon pair` installs certificate and pin.                     *)
Pair ==
    /\ ~paired
    /\ paired' = TRUE
    /\ UNCHANGED <<proc, loop, backoff, fails, st, alive, bad, kills>>

Next ==
    \/ Loop \/ Disconnected \/ (\E s \in Streams : Task(s))
    \/ Exit \/ Kill \/ Restart \/ Pair

Spec == Init /\ [][Next]_vars

(* The daemon's own steps are taken; starts succeed, names resolve and the  *)
(* cloud answers again and again; the supervisor and the customer do their  *)
(* part.                                                                    *)
FairSpec ==
    /\ Spec
    /\ WF_vars(Loop) /\ SF_vars(Begin) /\ SF_vars(Resolved) /\ SF_vars(Connected)
    /\ \A s \in Streams : WF_vars(Run(s)) /\ WF_vars(WriteAnswer(s)) /\ WF_vars(ReadAborted(s))
    /\ WF_vars(Exit) /\ WF_vars(Restart) /\ WF_vars(Pair)

-----------------------------------------------------------------------------
(* 2^n, by its recursion, which proofs can use.  Enough failures are told    *)
(* apart for the pause to meet its limit.                                    *)
PowerOfTwo[n \in 0 .. MaxFails] == IF n = 0 THEN 1 ELSE 2 * PowerOfTwo[n - 1]

ASSUME BoundAssumption == PowerOfTwo[MaxFails - 1] >= MaxBackoff

(* tunnel.rs:14-16: the n-th failed attempt in a row is followed by a pause  *)
(* of 2^(n-1) seconds, 60 at most, whichever of the two ways it failed and   *)
(* however often the connection came and went before.                        *)
BackoffSchedule ==
    loop = "sleep" => backoff = Smaller(PowerOfTwo[fails - 1], MaxBackoff)

(* A request is left without an answer only if the cloud gave up its stream, *)
(* its connection or its process has gone, or its frame was no request.      *)
SilentOnlyWhenGone ==
    \A s \in Streams : st[s] \in {"void", "lost", "cut"} => ~alive[s] \/ s \in bad

(* A handler that has started runs to its end unless the process is killed,  *)
(* and none runs on beside the next process: what it changes is never seen   *)
(* to happen after a restart.                                                *)
RunsToEnd ==
    /\ In("cut") # {} => kills > 0
    /\ proc = "failed" \/ loop = "start" => In("run") = {}

(* Fewer handlers than threads may hang: every other request that was read   *)
(* runs, or its process is gone.  Stuck names those that may hang.           *)
ServedBeside(Stuck) ==
    (\A t \in Streams \ Stuck : WF_vars(RunEnds(t)))
        => \A s \in Streams \ Stuck : st[s] = "queue" ~> st[s] \in Over \cup {"write"}

(* If handlers end, the daemon is connected again and again, whatever fails  *)
(* in between: starts, names, handshakes, connections, the process itself.   *)
Reconnects ==
    (\A s \in Streams : WF_vars(RunEnds(s))) => []<>(loop = "serve")

(* tunnel.rs:34-35 says so of any handlers: "serve RPCs forever (with        *)
(* reconnect on failure)".                                                   *)
ReconnectsRegardless == []<>(loop = "serve")
=============================================================================
