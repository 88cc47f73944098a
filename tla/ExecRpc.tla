------------------------------- MODULE ExecRpc -------------------------------
(***************************************************************************)
(* exec of the daemon: the handler spawns a shell, two reader threads       *)
(* empty its pipes, and a polling loop waits for its exit or the deadline.  *)
(* The command may start a process of its own that outlives it, and either  *)
(* may let go of a pipe before it ends.  Handler, readers, processes and    *)
(* clock interleave.                                                        *)
(***************************************************************************)
EXTENDS Policy, Sequences

CONSTANTS
    Streams,     \* the piped streams of the child
    Policies,    \* policies the daemon may have been started with
    Bin,         \* first token of the command, [name, base]
    CapRequests, \* values of req.max_output_bytes
    MaxOutput,   \* cfg.max_output_bytes
    TimeRequests,\* values of req.timeout_ms
    MaxTimeout,  \* cfg.max_exec_timeout_ms
    PipeCap,     \* bytes a pipe holds
    Chunk,       \* bytes one read asks for
    Plans,       \* what a process may write, [Streams -> Nat] each
    IoMayFail    \* whether spawn, try_wait, kill, wait, read and the audit may fail

ASSUME SizesAssumption ==
    /\ MaxOutput \in Nat /\ CapRequests \subseteq Nat
    /\ MaxTimeout \in Nat /\ TimeRequests \subseteq Nat
    /\ PipeCap \in Nat \ {0} /\ Chunk \in Nat \ {0}
    /\ Plans \subseteq [Streams -> Nat]
    /\ IoMayFail \in BOOLEAN

VARIABLES
    policy,  \* the policy of this daemon
    cap,     \* max_output, per stream
    timeout, \* the effective timeout
    elapsed, \* time since the spawn, counted up to the timeout
    hpc,     \* where the handler stands
    child,   \* the shell
    kid,     \* a process the shell started, given its pipes
    open,    \* [{"child", "kid"} -> SUBSET Streams], the pipes a process holds
    left,    \* [{"child", "kid"} -> [Streams -> Nat]], bytes yet to be written
    end,     \* how the shell ended
    wrote,   \* history: [Streams -> Nat], bytes written in all
    pipe,    \* [Streams -> 0..PipeCap], bytes in the pipe
    reader,  \* [Streams -> mode of the reader thread]
    kept,    \* [Streams -> Nat], bytes in the reader's buffer
    trunc,   \* [Streams -> BOOLEAN], the reader's "truncated"
    out,     \* the result on its way out
    audit,   \* entries this request left in the audit log
    ignored  \* history: the wait or append that failed, unknown to the handler

request == <<policy, cap, timeout>>
procs   == <<child, kid, open, left, end>>
data    == <<wrote, pipe, reader, kept, trunc>>
vars    == <<policy, cap, timeout, elapsed, hpc, child, kid, open, left, end,
             wrote, pipe, reader, kept, trunc, out, audit, ignored>>

Outcome(error, code, truncated) == [error |-> error, code |-> code, truncated |-> truncated]
Outcomes == [error : {"none", "PermissionDenied", "Io", "Timeout"},
             code : {"none", "status"}, truncated : BOOLEAN]
Ended(s) == reader[s] \in {"ended", "broken"}
Late == elapsed >= timeout

TypeOK ==
    /\ policy \in Policies
    /\ cap \in Nat /\ timeout \in Nat /\ elapsed \in 0 .. timeout
    /\ hpc \in {"policy", "spawn", "poll", "check", "kill", "wait", "join", "audit",
                "reply", "done"}
    /\ child \in {"none", "running", "zombie", "reaped"}
    /\ kid \in {"none", "running", "gone"}
    /\ open \in [{"child", "kid"} -> SUBSET Streams]
    /\ left \in [{"child", "kid"} -> [Streams -> Nat]]
    /\ end \in {"none", "exited", "signalled", "killed"}
    /\ wrote \in [Streams -> Nat] /\ kept \in [Streams -> 0 .. cap]
    /\ pipe \in [Streams -> 0 .. PipeCap]
    /\ reader \in [Streams -> {"none", "copy", "drain", "ended", "broken"}]
    /\ trunc \in [Streams -> BOOLEAN]
    /\ out \in Outcomes
    /\ audit \in Seq(Outcomes) /\ ignored \subseteq {"wait", "audit"}

Init ==
    /\ policy \in Policies
    /\ cap \in {Lesser(c, MaxOutput) : c \in CapRequests}
    /\ timeout \in {EffectiveTimeout(t, MaxTimeout) : t \in TimeRequests}
    /\ elapsed = 0 /\ hpc = "policy"
    /\ child = "none" /\ kid = "none" /\ end = "none"
    /\ open = [p \in {"child", "kid"} |-> {}]
    /\ left = [p \in {"child", "kid"} |-> [s \in Streams |-> 0]]
    /\ wrote = [s \in Streams |-> 0] /\ pipe = wrote /\ kept = wrote
    /\ reader = [s \in Streams |-> "none"]
    /\ trunc = [s \in Streams |-> FALSE]
    /\ out = Outcome("none", "none", FALSE) /\ audit = <<>> /\ ignored = {}

-----------------------------------------------------------------------------
(* The handler.  Every way out sets the outcome and goes on to the audit.   *)
Finish(outcome) == hpc' = "audit" /\ out' = outcome

CheckPolicy ==
    /\ hpc = "policy"
    /\ \/ /\ ~ExecAllowed(policy, Bin)
          /\ Finish(Outcome("PermissionDenied", "none", FALSE))
       \/ /\ ExecAllowed(policy, Bin)
          /\ hpc' = "spawn" /\ out' = out
    /\ UNCHANGED <<request, elapsed, procs, data, audit, ignored>>

(* Variant: a failed spawn is answered at once.                            *)
SpawnUnrecorded ==
    /\ hpc = "spawn"
    /\ IoMayFail
    /\ hpc' = "reply" /\ out' = Outcome("Io", "none", FALSE)
    /\ UNCHANGED <<request, elapsed, procs, data, audit, ignored>>

Spawn ==
    /\ hpc = "spawn"
    /\ \/ /\ IoMayFail
          /\ Finish(Outcome("Io", "none", FALSE))
          /\ UNCHANGED <<child, open, left, reader>>
       \/ /\ hpc' = "poll" /\ child' = "running"
          /\ open' = [open EXCEPT !["child"] = Streams]
          /\ \E plan \in Plans : left' = [left EXCEPT !["child"] = plan]
          /\ reader' = [s \in Streams |-> "copy"]
          /\ out' = out
    /\ UNCHANGED <<request, elapsed, kid, end, wrote, pipe, kept, trunc, audit, ignored>>

(* try_wait: the exit is seen and the shell reaped, it still runs, or the   *)
(* call fails, upon which the handler answers and leaves the shell and the  *)
(* readers to themselves.                                                   *)
Poll ==
    /\ hpc = "poll"
    /\ \/ /\ child = "zombie"
          /\ child' = "reaped" /\ hpc' = "join"
          /\ out' = Outcome("none", IF end = "exited" THEN "status" ELSE "none", FALSE)
       \/ /\ child = "running"
          /\ hpc' = "check"
          /\ UNCHANGED <<child, out>>
       \/ /\ IoMayFail
          /\ Finish(Outcome("Io", "none", FALSE))
          /\ child' = child
    /\ UNCHANGED <<request, elapsed, kid, open, left, end, data, audit, ignored>>

(* Variant: elapsed > timeout, never true of a clock that stops there.      *)
CheckElapsedStrict ==
    /\ hpc = "check"
    /\ hpc' = IF elapsed > timeout THEN "kill" ELSE "poll"
    /\ UNCHANGED <<request, elapsed, procs, data, out, audit, ignored>>

CheckElapsed ==
    /\ hpc = "check"
    /\ hpc' = IF Late THEN "kill" ELSE "poll"
    /\ UNCHANGED <<request, elapsed, procs, data, out, audit, ignored>>

(* The shell is no more; its pipes are closed.                             *)
Die(how) ==
    /\ child' = "zombie" /\ end' = how
    /\ open' = [open EXCEPT !["child"] = {}]

(* child.kill(): the shell may have ended by itself in the meantime, and    *)
(* nobody looks at a failure.                                               *)
Kill ==
    /\ hpc = "kill"
    /\ hpc' = "wait"
    /\ \/ child = "running" /\ Die("killed")
       \/ (child # "running" \/ IoMayFail) /\ UNCHANGED <<child, end, open>>
    /\ UNCHANGED <<request, elapsed, kid, left, data, out, audit, ignored>>

(* Variants: the shell is not waited for; the timeout is not remembered.   *)
WaitSkipped ==
    /\ hpc = "wait"
    /\ hpc' = "join"
    /\ out' = Outcome("Timeout", "none", FALSE)
    /\ UNCHANGED <<request, elapsed, procs, data, audit, ignored>>

WaitForgetting ==
    /\ hpc = "wait" /\ child = "zombie"
    /\ child' = "reaped" /\ hpc' = "join"
    /\ out' = Outcome("none", "none", FALSE)
    /\ UNCHANGED <<request, elapsed, kid, open, left, end, data, audit, ignored>>

(* child.wait(), which has no deadline of its own: it returns once the      *)
(* shell has ended, or fails.  Status and failure are both dropped.         *)
Wait ==
    /\ hpc = "wait"
    /\ \/ child = "zombie" /\ child' = "reaped" /\ ignored' = ignored
       \/ IoMayFail /\ ignored' = ignored \cup {"wait"} /\ child' = child
    /\ hpc' = "join"
    /\ out' = Outcome("Timeout", "none", FALSE)
    /\ UNCHANGED <<request, elapsed, kid, open, left, end, data, audit>>

(* Both readers are joined, however long that takes.                       *)
Join ==
    /\ hpc = "join"
    /\ \A s \in Streams : Ended(s)
    /\ Finish([out EXCEPT !.truncated = \E s \in Streams : trunc[s]])
    /\ UNCHANGED <<request, elapsed, procs, data, audit, ignored>>

(* The append may fail, which nobody looks at either.                      *)
Audit ==
    /\ hpc = "audit"
    /\ hpc' = "reply"
    /\ \/ audit' = Append(audit, out) /\ ignored' = ignored
       \/ IoMayFail /\ ignored' = ignored \cup {"audit"} /\ audit' = audit
    /\ UNCHANGED <<request, elapsed, procs, data, out>>

Reply ==
    /\ hpc = "reply"
    /\ hpc' = "done"
    /\ UNCHANGED <<request, elapsed, procs, data, out, audit, ignored>>

Handler ==
    CheckPolicy \/ Spawn \/ Poll \/ CheckElapsed \/ Kill \/ Wait \/ Join \/ Audit \/ Reply

-----------------------------------------------------------------------------
(* A reader thread (read_capped).  A read returns some of what the pipe     *)
(* holds; once the buffer is full and more arrives, the rest is discarded   *)
(* so that the writer never blocks.                                         *)
Take(s, n) ==
    /\ pipe' = [pipe EXCEPT ![s] = @ - n]
    /\ UNCHANGED <<request, elapsed, hpc, procs, wrote, out, audit, ignored>>

Buffer(s, n, full) ==
    /\ kept' = [kept EXCEPT ![s] = @ + Lesser(n, cap - @)]
    /\ trunc' = [trunc EXCEPT ![s] = full]
    /\ reader' = [reader EXCEPT ![s] = IF full THEN "drain" ELSE "copy"]

(* Variants: all of the chunk is kept; a full buffer counts as truncated    *)
(* although nothing was lost; nothing is read before the shell has ended.  *)
CopyUncapped(s) ==
    /\ reader[s] = "copy"
    /\ \E n \in 1 .. Lesser(pipe[s], Chunk) :
          Take(s, n) /\ kept' = [kept EXCEPT ![s] = @ + n] /\ UNCHANGED <<trunc, reader>>

CopyOffByOne(s) ==
    /\ reader[s] = "copy"
    /\ \E n \in 1 .. Lesser(pipe[s], Chunk) : Take(s, n) /\ Buffer(s, n, cap - kept[s] <= n)

CopyAtJoin(s) ==
    /\ reader[s] = "copy" /\ hpc = "join"
    /\ \E n \in 1 .. Lesser(pipe[s], Chunk) : Take(s, n) /\ Buffer(s, n, cap - kept[s] < n)

Copy(s) ==
    /\ reader[s] = "copy"
    /\ \E n \in 1 .. Lesser(pipe[s], Chunk) : Take(s, n) /\ Buffer(s, n, cap - kept[s] < n)

Drain(s) ==
    /\ reader[s] = "drain"
    /\ \E n \in 1 .. Lesser(pipe[s], Chunk) : Take(s, n)
    /\ UNCHANGED <<reader, kept, trunc>>

(* End of file: the pipe is empty and no process has it open.              *)
ReadEof(s) ==
    /\ reader[s] \in {"copy", "drain"}
    /\ pipe[s] = 0 /\ \A p \in {"child", "kid"} : s \notin open[p]
    /\ reader' = [reader EXCEPT ![s] = "ended"]
    /\ UNCHANGED <<request, elapsed, hpc, procs, wrote, pipe, kept, trunc, out, audit, ignored>>

(* A failing read ends the thread and closes the pipe.                     *)
ReadError(s) ==
    /\ IoMayFail
    /\ reader[s] \in {"copy", "drain"}
    /\ reader' = [reader EXCEPT ![s] = "broken"]
    /\ UNCHANGED <<request, elapsed, hpc, procs, wrote, pipe, kept, trunc, out, audit, ignored>>

Reader(s) == Copy(s) \/ Drain(s) \/ ReadEof(s)

-----------------------------------------------------------------------------
(* The processes.  A write blocks while the pipe is full; into a pipe       *)
(* without reader it kills the writer or goes nowhere.                      *)
Running(p) == IF p = "child" THEN child = "running" ELSE kid = "running"

Write(p, s) ==
    /\ Running(p) /\ s \in open[p] /\ left[p][s] > 0
    /\ left' = [left EXCEPT ![p][s] = @ - 1]
    /\ \/ /\ reader[s] # "broken" /\ pipe[s] < PipeCap
          /\ pipe' = [pipe EXCEPT ![s] = @ + 1]
          /\ wrote' = [wrote EXCEPT ![s] = @ + 1]
       \/ /\ reader[s] = "broken"
          /\ UNCHANGED <<pipe, wrote>>
    /\ UNCHANGED <<request, elapsed, hpc, child, kid, open, end, reader, kept, trunc, out,
                   audit, ignored>>

(* A process lets go of a pipe and lives on: what it still has to write     *)
(* goes elsewhere, as after > /dev/null.                                    *)
Close(p, s) ==
    /\ s \in open[p]
    /\ open' = [open EXCEPT ![p] = @ \ {s}]
    /\ left' = [left EXCEPT ![p][s] = 0]
    /\ UNCHANGED <<request, elapsed, hpc, child, kid, end, data, out, audit, ignored>>

(* The shell starts a process in the background, which is given the pipes   *)
(* the shell has at that moment.                                            *)
Fork ==
    /\ child = "running" /\ kid = "none"
    /\ kid' = "running"
    /\ open' = [open EXCEPT !["kid"] = open["child"]]
    /\ \E plan \in Plans :
          left' = [left EXCEPT !["kid"] =
                      [s \in Streams |-> IF s \in open["child"] THEN plan[s] ELSE 0]]
    /\ UNCHANGED <<request, elapsed, hpc, child, end, data, out, audit, ignored>>

(* A process ends when it has written everything.                          *)
Exit ==
    /\ child = "running" /\ \A s \in Streams : left["child"][s] = 0
    /\ Die("exited")
    /\ UNCHANGED <<request, elapsed, hpc, kid, left, data, out, audit, ignored>>

(* A signal from elsewhere, SIGPIPE for one.                               *)
Signal ==
    /\ child = "running"
    /\ Die("signalled")
    /\ UNCHANGED <<request, elapsed, hpc, kid, left, data, out, audit, ignored>>

KidExit ==
    /\ kid = "running" /\ \A s \in Streams : left["kid"][s] = 0
    /\ kid' = "gone" /\ open' = [open EXCEPT !["kid"] = {}]
    /\ UNCHANGED <<request, elapsed, hpc, child, left, end, data, out, audit, ignored>>

Shell == (\E s \in Streams : Write("child", s)) \/ Exit
Kid   == (\E s \in Streams : Write("kid", s)) \/ KidExit

Tick ==
    /\ child # "none" /\ elapsed < timeout
    /\ elapsed' = elapsed + 1
    /\ UNCHANGED <<request, hpc, procs, data, out, audit, ignored>>

Next ==
    \/ Handler
    \/ \E s \in Streams : Reader(s) \/ ReadError(s)
    \/ \E p \in {"child", "kid"}, s \in Streams : Close(p, s)
    \/ Shell \/ Kid \/ Fork \/ Signal
    \/ Tick

Spec == Init /\ [][Next]_vars

(* The threads of the daemon that can go on do.                            *)
FairSpec == Spec /\ WF_vars(Handler) /\ \A s \in Streams : WF_vars(Reader(s))

-----------------------------------------------------------------------------
Answered == hpc \in {"audit", "reply", "done"}
Ran == Answered /\ out.error \in {"none", "Timeout"}

(* Both caps are exact (exec.rs:164-205): when a reader has met the end of  *)
(* its stream it kept the first cap bytes of all that was ever written, and *)
(* truncated says whether there were more, at the boundary as well.         *)
OutputExact ==
    \A s \in Streams :
        reader[s] = "ended" =>
            /\ kept[s] = Lesser(wrote[s], cap)
            /\ trunc[s] <=> wrote[s] > cap

(* What is answered of a command is final (exec.rs:97-127): the shell is    *)
(* reaped, except when the wait after the kill failed; both readers are     *)
(* gone; and of a stream that was read to its end nothing is on the way and *)
(* nobody is left who could add to it.  A process that let go of its pipes  *)
(* may live on.                                                             *)
AnswerIsFinal ==
    Ran => /\ child = "reaped" \/ "wait" \in ignored
           /\ \A s \in Streams :
                 /\ Ended(s)
                 /\ reader[s] = "ended" =>
                       pipe[s] = 0 /\ \A p \in {"child", "kid"} : s \notin open[p]

(* A timeout is answered only past the deadline; Ok never for a shell the   *)
(* handler killed, and an exit code only for one that wrote all it had to.  *)
TruthfulEnd ==
    Answered =>
        /\ out.error = "Timeout" => Late /\ out.code = "none"
        /\ Ran /\ out.error = "none" => end \in {"exited", "signalled"}
        /\ out.code = "status" => \A s \in Streams : left["child"][s] = 0

(* Every return of the handler, early ones too, comes after exactly one     *)
(* audit entry that says what the answer says, or after one append that     *)
(* failed ("let _ = audit.write", exec.rs:32, 76, 113 and 129).             *)
AuditedBeforeAnswer ==
    IF hpc \in {"reply", "done"}
    THEN audit = IF "audit" \in ignored THEN <<>> ELSE <<out>>
    ELSE audit = <<>> /\ "audit" \notin ignored

(* Output never stops a command: however much it writes, past the caps and  *)
(* past what the pipes hold, a shell that keeps going ends by itself, or is *)
(* still at it when its time is up ("so child can exit cleanly", 178).      *)
NoOutputStall ==
    WF_vars(Shell) => (child = "running" ~> (child # "running" \/ Late))

(* A command that hangs is answered all the same, if what it started in the *)
(* background ends or lets go of the pipes, and if the kill at the deadline *)
(* has not failed on a shell that hangs: the wait that follows (105) has no *)
(* deadline.                                                                *)
Answers ==
    /\ WF_vars(Tick) /\ WF_vars(Kid)
    /\ WF_vars(Shell) \/ [](hpc = "wait" => child # "running")
    => <>(hpc = "done")

(* exec.rs:7-8 has the timeout as a guardrail "regardless of policy": once  *)
(* time passes, every request is answered.                                  *)
TimeoutBinds == WF_vars(Tick) => <>(hpc = "done")
=============================================================================
