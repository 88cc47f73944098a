# Membrane daemon: a TLA+ verification project

Membrane-daemon runs on a customer's machine. It dials the one cloud it is paired with, and serves the cloud's
requests (read a file, write a file, list a directory, run a command) under a policy the customer sets, leaving an audit
entry for each. This directory holds TLA+ models of the daemon's own logic, TLC configurations that check them on
small instances, and proofs, checked by TLAPS, of the properties that matter most for every value of the constants.

Paths below are relative to the repository; `daemon/` stands for `membrane-daemon/src/`.

## 1. Inventory

| Component | State it keeps | Operations | Talks to | What is hard |
|---|---|---|---|---|
| File handlers (`daemon/handlers/{read_file,write_file,list_dir}.rs`) | none of their own; the file system | `read_file`, `write_file` with the optional mtime check, `list_dir` | policy, file system, audit log | parallel handlers and local programs interleave between any two system calls; every early return must audit |
| Policy (`daemon/config.rs`) | the configuration, fixed at start | `path_allowed`, `writes_allowed`, `exec_allowed`, `effective_exec_timeout_ms` | asked by all handlers | boundaries, paths that cannot be canonicalised |
| Atomic replacement (`atomic_write` in `write_file.rs`) | temp files, directory entries, the kernel's cache | create, fill, sync, rename | kernel | kills and power loss between any two steps |
| Command handler (`daemon/handlers/exec.rs`) | child, two reader threads, a deadline | spawn, poll, kill, wait, join, answer | policy, processes, pipes, audit log | threads, processes and clock interleave; a full pipe; processes that outlive the shell |
| Tunnel (`daemon/tunnel.rs`) | dial loop, back-off, one task per stream | dial, back off, serve, read request, run handler, answer | cloud, handlers, runtime | reconnection, bounded blocking pool, tasks that outlive their connection |
| Process lifecycle (`cmd_run` in `daemon/main.rs`) | the process; what it read at its start | load, read credentials, run, return, drop of the runtime, restart | tunnel, supervisor, configuration files | an exit that waits for running handlers; a start beside a pairing |
| Configuration files (`daemon/config.rs`) | the user's and the system's `policy.toml` | load, merge, save | every command | truncate-and-write, a file loaded early and saved late |
| Pairing (`daemon/pairing.rs`, `cmd_pair*`) | key, certificate, pin | make a key, request, check and install a token | operator or cloud, configuration files | three files and a configuration that belong together, a failure between any two |
| Audit log (`daemon/audit.rs`, `cmd_audit`) | one JSONL file a day | append, list | all handlers and commands | appends from parallel writers, midnight |
| Stdio server and framing (`daemon/rpc.rs`, `membrane-wire`, `cmd_run_stdio`) | a buffer | `serve`, `encode`, `decode` | handlers, one client, audit log | frames in arbitrary pieces, an end inside a frame, two full pipes |
| Service integration (`daemon/service/`, `cmd_install` and its kin) | the unit file or plist; the supervisor's own state | `install`, `uninstall`, `start`, `stop`, `status` | systemd, launchd, the Windows service manager | ignored failures, commands over a daemon that is dying, commands cut short |
| Ping, paths, status, release tooling | none | constant answers, names, printing, downloads | | nothing |

How they interact. `main` loads the configuration once and hands it to the command. `cmd_run` starts a multi-threaded
runtime and blocks on `tunnel::run`. For each stream the cloud opens, the tunnel spawns a task, which reads one frame,
runs `handlers::dispatch` on a blocking thread and writes the answer; nothing orders two handlers with respect to
each other. Handlers share only the file system, the audit directory and the pool. `mode` and `pair` are separate
processes that share the configuration and credential files with the daemon, which reads them once, at start.

What makes each part correct:

- *File handlers*: an edit never silently replaces what the cloud has not read; a failed write changes no file; replacing
  a file never makes it seem absent; read-only means no change; one audit entry before each answer.
- *Atomic replacement*: old or new, whole, at every moment and after every crash.
- *Commands*: exact caps; no stall by output; a truthful ending; an answer, and one that is final.
- *Tunnel and process*: the documented back-off; no silent loss while connection and process last; a hanging handler
  harms only itself; the daemon is connected again and again.
- *Configuration and pairing*: what a finished pairing left can be used; no command changes what is not its business.
- *Start*: a daemon holds what one finished installation left, and serves the policy in force.
- *Audit log*: what was acknowledged can be found.
- *Stdio server*: the requests of the stream, in order, once each, however it is cut; the end is told as it was.
- *Service*: what was uninstalled is gone, what was stopped stays down, what was installed is what starts.

The full list of what is hard to test in this code, at its lines, is `hazards` in `PROJECT.json`.

## 2. Modules

| Module | Models | Instance | Proofs |
|---|---|---|---|
| `Policy` | the policy questions, as operators used by the handlers | | |
| `FileRpc` | the file handlers, one action per system call | `MCFileRpc` | `FileRpcProofs` |
| `FileStore` | abstract: what the file handlers promise | (property of `FileRpc`) | `FileRpcProofs` |
| `AtomicWrite` | `atomic_write` against the page cache | itself | `AtomicWriteProofs` |
| `ExecRpc` | the command handler with its threads and processes | `MCExecRpc` | `ExecRpcProofs` |
| `Tunnel` | dial loop, streams, blocking pool, process, supervisor | `MCTunnel` | `TunnelProofs` |
| `Setup` | the files of the daemon and the commands that rewrite them | `MCDaemonStart` | `SetupProofs` |
| `CloudUrl` | `normalise_cloud_url`, as an operator of `Setup` | `MCDaemonStart` | `SetupProofs` |
| `DaemonStart` | composes `Setup` with a daemon that starts beside the commands | `MCDaemonStart` | `SetupProofs` |
| `AuditLog` | appending to the log and listing it | `MCAuditLog` | `AuditLogProofs` |
| `Wire` | `encode` and `decode`, as operators on bytes | `MCStdioRpc` | `StdioProofs` |
| `StdioRpc` | the stdio server between two pipes | `MCStdioRpc` | `StdioProofs` |
| `FrameStream` | abstract: what a serial server promises | (property of `StdioRpc`) | `StdioProofs` |
| `Service` | install, uninstall, start, stop, and the supervisor | itself | `ServiceProofs` |

A definition commented "Variant:" is a plausible wrong version of the definition below it.
It is used by no specification: it is there to show that the property named with it under `mutants` tells the two apart.

### FileRpc, FileStore, Policy

State: `dir` maps each name to a content or, for a link, to another name; `folders` are the directories that exist; `temps` are the
temporary files; each task has a step `pc`, the outcome on its way out and its audit entries. A content is the number of the moment it was written;
its mtime is that number seen through a clock of the given `Grain`. Actions: `Accept` (dispatch and the policy
questions), `Stat`, `ReadData` (`read_file.rs`), `OpenDir`, `ScanEntry` (`list_dir.rs`), `CasCheck`, `MakeParent`, `WriteTemp`,
`SyncTemp`, `Persist`, `PostStat` (`write_file.rs`), `Audit`, `Reply`; local programs save, remove, or are absent; the daemon may be killed.
An *edit* is a write that carries the mtime of a read the cloud was given before. `raced` is a history variable:
the task's target has changed since its last check. So are `holes`, the names a task has known to lead to no file, and `skipped`, those a listing could not
read and left out without a word (`list_dir.rs:55-56`).

`FileStore` is the abstract promise: every request is open until answered, a write takes effect at one instant, once,
before it is answered Ok, and a refused request changed no file. What a failed write may leave is the directory of its target, made by
`create_dir_all` (`write_file.rs:99-101`) and never taken back. `FileRpc!ImplementsStore` maps the rename to that instant.

Abstractions: links are one level deep and do not change; a path that cannot be canonicalised stands for itself, as in
`config.rs:65`; path roots are sets of places; an I/O error is one of a few kinds; a temp file's content is given its
mtime when it is filled. A directory and the missing ones above it are made in one step, and local programs remove files but no directories.
The names of an instance are those a listing shows: not hidden, and in UTF-8.

### AtomicWrite

A finer look at the four calls inside `atomic_write`: blocks reach the cache one at a time, the kernel writes blocks and
the directory back when it likes, `Kill` loses the process and `PowerLoss` everything not on disk. `FileRpc` takes the same
calls at the level at which other processes see them.

### ExecRpc

One request, since two exec handlers share nothing but the audit log and the pool (`AuditLog`, `Tunnel`). The handler's loop is
`Poll`, `CheckElapsed`, `Kill`, `Wait`, `Join`; a reader thread is `Copy` while its buffer has room, `Drain` afterwards,
`ReadEof` or `ReadError`; the shell writes, forks a process that is given the pipes it has, exits or dies of a signal. `open` says which process
holds which pipe: either may let go of one and live on (`Close`, as after `> /dev/null`), and the end of a stream comes when nobody holds it. An answered
command may therefore have left a process behind, but none that can add to a stream that was read to its end (`AnswerIsFinal`). The handler ignores
failures of `kill`, of `wait` and of the audit (`let _ =`): each of these steps may fail, and `ignored` remembers the last two. A byte is a unit:
only counts matter to the caps. Time is counted up to the deadline. Working directory, environment and duration are left out.

### Tunnel

`run` starts (credentials must exist, and the start may fail in other ways: `BeginFails`), resolves the cloud's name, dials, sleeps or serves; a failed lookup makes it return, a failed
dial or handshake makes it back off. A stream's task reads, queues for one of `PoolSize` blocking threads, runs, answers; the cloud may give up a stream and keep
the connection (`Abandon`).
When `run` returns, the runtime is dropped: queued blocking tasks are discarded and running ones waited for (the documented
behaviour of tokio), the process exits with an error and the supervisor starts another. A handshake succeeds or
fails; what it checks of the pin is in `DaemonStart`. Panics of handlers are left out.

### Setup

The user's `policy.toml`, key, certificate and pin; each command is a process that loads the configuration first. `policy.toml` and the key
are truncated and then written (two steps); certificate and pin are replaced atomically (one step; what that takes is
`AtomicWrite`). `Stop` lets a command fail or be killed at any step. A key is named after the command that made it, a cloud is
its pin and its endpoint together. Of the configuration, the policy and the endpoint are kept; the size and time limits are
merged in the same way. A single write of the small file is one step, so a reader finds it empty or whole.
`PostRequest` takes a URL from `Urls` and posts to the cloud whose address `Normalise` makes of it, or to none.

### CloudUrl

A URL is the sequence of what stands between its slashes, so that suffixes and runs of slashes are compared as the code compares text that
consists of whole segments. `Normalise` is the code's six rounds: strip one known suffix, then the slashes before it.
The table of suffixes is the code's. At most one of them can end a given URL (`PasteEnds`, proved), so their order does not matter. `PastedOnto` is what the
property is about: up to two known paths behind a host, with up to two slashes too many around each. `HostAssumption` of `Setup` takes the host of a cloud not to be
named like one of those paths: of `https://docs` the code leaves `https:`.

### DaemonStart

The states of `Setup` beside one daemon: `Launch` (`main` loads the configuration), `Look` (the three files must exist), `ReadPin`,
`ReadCert`, `ReadKey`, then `up` for as long as it runs, or `quit`; `Die` ends it at any time and a supervisor starts it again. `Reaches` is the
comparison of the pinned key with the server's. `owed` is a history variable: the policy chosen when a daemon was started with a finished
installation in place and no command in the middle of `policy.toml`; an installation that begins while it reads annuls it.

### AuditLog

Each writer stamps its entry, appends the text, appends the end of the line. `Listed` is what the `audit` command prints: lines
that hold one entry, since a time, the last so many, in the order of the files. The command is taken to read the files at one instant,
the clock not to run backwards, and a text to be appended whole or not at all.

### StdioRpc, Wire, FrameStream

`Wire` works on bytes: four of them, least significant first, then the body. `StdioRpc` has the client's `script`, how much of it was `sent`
and `taken`, the server's `buf` and the two pipes. One action per arm of `serve`: `Handle` (decode, drain, dispatch), `Write`, `NeedMore`, `Read`,
`ReadEnd`, `Refuse`, `ReadFails`; `Startup` and `Shutdown` are the log entries of `cmd_run_stdio`, which end it when they fail. Bodies are only told apart as
requests and others; what a request does is `FileRpc` and `ExecRpc`, and an answer is named by its request. A write to a pipe is one step.
`FrameStream` is the promise: the frames of the script are run and answered one after another, each once, and the session ends `ok` only at the end
of a script of whole frames, `cut` inside a frame, `invalid` at a body that is no request. `at <- taken - Len(buf)` is the refinement: what was decoded is what was
read less what waits.

### Service

A command is a script of steps on the unit file and calls of the supervisor; `Must` ends it where the code has `?`, `Try` goes on where it has
`let _ =`. `Possible` is what a call needs to succeed; `Succeed` is one step that works, `Fail` one that cannot (a `bootout` of what is not loaded) or that fails for a reason of its own;
`Abort` kills the command. The supervisors are external: what `systemctl --user` and `launchctl` do to the definition they hold, the link for the next
login and the process. `Crash` and `Respawn` are `Restart=on-failure` and `KeepAlive`, `Login` the end of a session and the start of the next. Commands are
given one at a time. systemd's limit on restarts in quick succession is left out.

## 3. Runs

| Run | Instance and bounds | Shows |
|---|---|---|
| `file_rpc` | a read through a link, an edit built on it, a write of the file itself, a listing, in a directory with the file and its link, in an empty one, and without the directory; one local change; three policies; one I/O error kind; kills | an edit not raced after its check replaces what was read; a read longer than its caps, which the code does answer, is recognisably stale; a replaced file never seems absent, and a listing lacks only what was gone or could not be read; the mtime answered is one's own unless raced; one audit entry; no stray temp files; read-only changes nothing; `FileStore` is implemented |
| `lost_update` (violation) | two edits on one reading | both pass the check, the second replaces the first unseen (`write_file.rs:7-8`) |
| `atomic_write` | two writers, two blocks, kills and power losses at will | never torn; a failed write leaves no trace |
| `acked_durable` (violation) | two writers, one block | an acknowledged content reverts after a power loss: the directory is not synced (`write_file.rs:11-12`) |
| `exec` | two streams, caps 0 and 2, pipe of 2, outputs below, at and above them, one background process, pipes let go of at any time, a deadline of 1, failing calls, the ignored ones included | exact caps, truthful ending, a final answer, one audit entry or a failed append, no stall, an answer |
| `exec_stuck` (violation) | the same with one cap, no failing calls | a background process that keeps the pipes holds the answer past the deadline (`exec.rs:7-8`) |
| `tunnel` | three streams, two threads, pauses up to 60 s, eight failures in a row told apart, starts that fail, streams given up, one kill | the back-off schedule, no silent loss, handlers run to their end, one hanging handler harms no other, reconnection |
| `tunnel_hang` (violation) | one stream, one thread | a hanging handler and a failed lookup: the process never exits and nothing dials (`tunnel.rs:34-35`) |
| `daemon_start` | one request, a token installation, an enrolment, two `mode`s, in any order, two of them stopped anywhere, beside a daemon that starts, dies and starts again; with a system file and without; two clouds; three pasted URLs | a daemon started with all in place comes up, reaches its cloud and serves the policy in force; a finished pairing is usable; the policy is the chosen one; no certificate loses its key; every documented paste, up to two deep with up to two slashes around each, leads to the bare address |
| `audit_log` | four entries, two writers at a time, two days of two instants, one failure | filed once under the right day; hidden only by an entry beside it; the listing is the most recent part |
| `stdio` | all scripts of up to two frames of four kinds (two requests, an empty body, an unknown one) and a third, cut anywhere, and one of six frames; reads and sends of every size; room for 12 bytes and one answer; failing reads, a failing log, a client that stops receiving | `FrameStream` is implemented; the session ends if the client sends and receives |
| `service` | two executables, systemd and launchd, commands in any order, two failing calls, kills, logins | uninstalled is gone; stopped stays down under systemd; what was installed is what starts |

Why the bounds are enough. The hazards are races between two actors with at most one disturbance: `file_rpc` has two writers, a reader
whose result an edit uses, a lister and a local change, so that each pair of system calls can be separated by each kind of step.
In `exec` the caps are below, at and above what is written (a process that writes less has closed its end before), and what is written overflows the pipe. Eight failures in a row
are two more than the pause needs to reach its limit. In `tunnel` one of two threads can hang while two other requests compete for the
other. Two stopped commands let a failure be followed by a second one during its repair. In `stdio` a pipe of 12 bytes holds two short frames and a part of a third, so that one read may bring a
part, one or several of them; one answer fills the other pipe. The script of six frames of five bytes is longer than what the server and the pipe to it can
hold, so that both pipes are full at once while the client has more to send and the server an answer to write. In `service` two failures can break an installation and the one that repairs it;
its commands never run out, so the run has no bound but the failures. Four entries allow two that
disturb each other, one after them, and one on the next day. Deadlock is checked in `service` alone: in the others the requests or commands of an
instance run out, and the system stops.

Fairness. `FileRpc`, `AtomicWrite`, `Setup`, `DaemonStart`, `AuditLog` and `Service` state safety only. In `StdioRpc` the server is one running thread and weakly fair; its handlers
return, since `Handle` is one step (what may hold one up is `ExecRpc`'s), and that the client sends and receives is a hypothesis of `Finishes`. In `ExecRpc` the handler and the reader threads are weakly
fair (they are running threads); the clock, the shell and the background process are fair only as the hypothesis of a
property that needs it (`WF_vars(...) => ...`). `Answers` takes a kill that fails (`exec.rs:104`) for what it is: the `wait` that follows has no
deadline, so that the shell must then end by itself. In `Tunnel` the loop, a task's own steps, the exit of a process, the supervisor's restart
(`Restart=on-failure` in `linux.rs`, `KeepAlive` with `SuccessfulExit` false in `macos.rs`; the service that
`windows.rs` creates has no failure actions, so `Reconnects` says nothing of Windows) and the customer's pairing are weakly fair; starts succeed, names resolve and the cloud
answers infinitely often if tried infinitely often (strong fairness), since all of them fail and recover. That a handler ends is nowhere
assumed, only a hypothesis, for `exec_stuck` shows that it need not.

## 4. Proofs

All theorems are for any constants that satisfy the named assumptions of their module. Each rests on an inductive invariant.

- `FileRpcProofs`. `Typed` (types, plus `OwnSteps`: a step fits the operation) gives `TypeCorrect`. `RecordTheorem` says what holds
  whatever becomes of the log, that a request has at most one entry and never a wrong one; with a log that can be written `AuditTheorem` follows. `ReadOnlyTheorem` needs that under a read-only policy no writer passes `Accept`. `TickTheorem`, for any
  `Grain`, says that the mtime check and the two system calls of a read err only where another content was saved within the same tick. It rests on `Fresh`, contents in the file system, in temporary files and in readings are never newer than the
  clock and no two names or temp files carry the same one, and on `Sound`, a reading's mtime is at most its data's, and equal only if they belong
  together or were saved in one tick. It is needed because a read is two system calls: what makes a mixed reading harmless is that its mtime is older
  than its data and can match no file again. With `Grain = 1` nothing shares a tick (`NothingShared`), and `EditTheorem` and `OversizeTheorem` follow. `TempsTheorem` is inductive by itself. `AckTheorem` needs no `Grain`: `OwnAck`, from the rename to the second stat the
  target holds the write's own content or `raced` says that it does not. `HidesTheorem` rests on `Accounted`, a name that leads to no file is among
  the `holes` of every task under way (a rename makes no new one, `NoNewHole`), and on `Covered`, a listing has each name of its directory before it, found, passed over as unreadable, or among its holes. `Housed`, a name that
  leads to a file is in a directory that exists, is what makes a listing's `NotFound` mean that nothing was there. `StoreTheorem` is the refinement: initial states and steps of `FileRpc` map to `FileStore`,
  the directory a failed write leaves behind to a step of its own there.
- `AtomicWriteProofs`. `IInv`: what the name stands for has been synced, synced means complete on disk, a failed writer was never renamed.
  Gives `NeverTornTheorem` and `NoTraceTheorem`.
- `ExecRpcProofs`. `Books` balances written bytes against those in the pipe, kept and dropped; `OutputTheorem` and, with the steps at which a
  shell is reaped (`Stage`), `TruthTheorem` and `CleanTheorem` follow: `Closed`, nobody holds the pipe of a stream that was read to its end, is kept because a new process is given
  what the shell has and no more. `AuditTheorem` is inductive by itself and covers the append that fails.
- `TunnelProofs`. `Attached` ties each task's step to the loop and the process, `Matched` the loop to the process: `SilentTheorem`,
  `RunsTheorem`, and `TypeCorrect` (a pause is never zero and never above its limit). `BackoffTheorem` needs, besides, the pause the next failure will cause, wherever the loop stands (`Pausing`).
  `PowerOfTwo` is a recursive function; that it is one, grows, and reaches the limit within `MaxFails` comes from a least counterexample (`Least`, by the well-foundedness
  of the numbers, since the induction theorems cannot be instantiated). `BoundAssumption` says that the bound on the count of failures lies beyond the limit of the pause: a bound of the
  model, the code counts none.
- `StdioProofs`. `RoundTrip`: `decode` undoes `encode` for every body below 2^32 bytes, whatever follows; `CutTheorem`: what it makes of the frame of any body, whose
  length `encode` cuts to 32 bits (`LowBits`). The invariant `InBuffer` says that the buffer is the piece of the
  script between what was decoded and what was read, `Stage` what each step has run and answered, `Ended` how the session ends. `StreamTheorem` needs two facts about pieces: a frame that is whole in
  the buffer is the same frame at the front of what is left of the script, and a buffer without a whole frame, at the end of the script, is all
  that is left. Hence no reading can be cut in a way that changes the frames. `EncodedTheorem` joins the two for a client
  that frames `n` requests with `encode` (`Speaks`; `g[k]` is what follows the first `k`): what is left of the script is always `g[k]` for the `k` requests that were run (`Along`), so that
  the requests run and answered are the client's own, and "cut" and "invalid" are never the ending. Its hypothesis is about the script alone and is met by every sequence of requests.
- `SetupProofs`. `Holding` (a step that installs holds a token) for `TypeCorrect`. Commands may fail or be killed anywhere and run side by side, under two
  conditions on those under way: `OneMaker`, no two have found no key and are yet to write one, and `OneSaver`, one at most is of those that save `policy.toml`. `KeyKnown`, what each step
  knows of the key on disk, and `Fitting`, that requests, tokens and certificate are for it, give `KeyTheorem` under `OneMaker`. `Loaded`, a saving command under way has loaded
  the policy in force, and `Standing`, the files say so unless one rewrites them, give `PolicyTheorem` under `OneSaver`. Each condition is needed: TLC finds `KeyKept` violated with `OneSaver` alone (two requests
  make a key each), `PolicyKept` with `OneMaker` alone (an enrolment beside a `mode` saves the policy it loaded before), and `PairedIsUsable` with either alone.
  Commands given one after another meet both (`OneAtATime`), whence `OneByOneTheorem`: for them the properties hold without a condition.
  `Together` gives `PairedTheorem`: while an installation stands its files fit and `policy.toml`, or what will be saved there, points to its cloud (`Pointing`, needed
  because a `mode` saves what it loaded); while one is under way it is not finished and what it has installed so far is its own token's (`Installing`).
  Beside the daemon: the steps of `DaemonStart` are steps of `Setup` or leave it alone (`CommandsGoOn`), so what is proved of the commands holds there as well.
  `Starting`, what such a daemon has read is what is on disk until it is up, gives `StartTheorem`; it rests on `StillInstalled`: a finished
  installation is only replaced by way of one that is not.
  `EnrolTheorem`, for every cloud that satisfies `HostAssumption`: no two known paths end in the same segment (`PasteEnds`), so that a round takes off the one paste that was put on, and
  the slashes before it, however many (`TrimBack`, `StripBack`, `StemPaste`); the bare address ends in none of them and stays (`BareStays`), and two of the six rounds are enough (`SixRounds`). `SixPastes` says the same of
  six pastes and any slashes, which is all that six rounds can do.
- `AuditLogProofs`. `Placing` and `Written`, an entry is nowhere before its text is appended and then in one place of its day's file, give `FiledTheorem`. `Lines` gives
  `HiddenTheorem`: writers under way know of each other, a text at the end of a file is of a writer that is still to end its line or has failed, and of two texts
  without an end of line between them the first has failed or they were written beside each other. `ListingTheorem` is about an order the code never sorts by: the listing goes
  by the place in the files, the property by time. `Timely` connects them: no entry is stamped later than now, one stamped while an older one still waits is written beside it, and an entry that
  follows an older one in its file was stamped after it or beside it. The rest is counting: a file of finitely many places has a first and a last one (`Smallest`, `FirstOf`, `LastOf`), and the
  last so many of a finite set are as many as asked for, or all (`LastFew`); hence `AuditAssumption` has the entries finite.
- `ServiceProofs`. A command cut short may leave anything behind, so each clause of `IInv` says what holds after which step: `OnScript` says that what is left is the end of a script, whence `Table` has the call that is
  next; `Settled` that an achievement stands until the next installation or removal; `Installing`, `Installed`, `Removing` and `Removed` what the steps done so far of an installation or a removal have established, `Halted` and `Launchd` the same of
  stopping and of launchd, which runs nothing it has not loaded; `Clear` is the second half of `UninstalledIsGone` with what it needs of the supervisor. `UninstalledTheorem`, `StoppedTheorem` and, as an action property, `InstalledTheorem` follow.

Model-checked only: the five liveness properties (`NoOutputStall`, `Answers`, `ServedBesideOne`, `Reconnects`, `Finishes`), since fairness and `ENABLED` are out of the provers' reach. Every invariant and
action property that a passing run checks is proved. The run of `Setup` and `DaemonStart` gives commands one after another; of the theorems, `TypeCorrect`, `DaemonTypeCorrect`
and `EnrolTheorem` hold for any commands, the others under `OneMaker` and `OneSaver`.

## 5. Where documents and code disagree

Four places are shown by a violation run and quoted under `findings`: the mtime check does not prevent all lost writes; the rename is not durable when it is acknowledged; the timeout does not bound a request; `run` does not serve for ever. Others were met on the way and are not runs:

- `audit.rs:8` says "one JSON object per line". `writeln!` on an unbuffered file writes the text and the newline apart, so that two appends at once may share
  a line, and `audit` passes over both (`HiddenOnlyByAnother` states what does hold).
- `membrane-wire/src/lib.rs:41` says of a read's `max_bytes` that the daemon "refuses if file exceeds this", `config.rs:128` calls `max_read_bytes` a "hard ceiling on a
  single file read", and `read_file.rs:6` lists the smaller of the two as a guardrail. Both are compared with the size of a first `stat` (`read_file.rs:34`, `59`); the data comes from a later
  `fs::read` (`68`) without a limit, so that a file that grew in between is answered whole, beyond either. In `file_rpc` this happens (the invariant that no answered read is
  longer than its caps is violated there); `OversizeIsStale` states what does hold of such an answer.
- `list_dir.rs:8` says that a listing "skips hidden entries". It skips as well, and answers Ok, every entry that cannot be read (`list_dir.rs:55-56`);
  `ReplacingNeverHides` states what does hold.
- `config.rs:124` has `max_output_bytes` as a ceiling of "stdout + stderr combined"; each stream gets all of it (`exec.rs:89-90`), as `exec.rs:9` says. `OutputExact` is about each.
- `config.rs:182` has `save_user` not write the system's policy. The commands save the merged configuration they loaded (`main.rs`, `pairing.rs:135`), so that the
  system's values end up in the user's file; and an installation saves the policy it loaded at its start, not only the endpoint (`pairing.rs:104-105`).
- `README.md:22` gives a single workspace as the default policy, `config.rs:45` has `Unrestricted`.
- `config.rs:203-204` lets a system file win "when the system file specified one"; a value equal to the built-in default does not count, as
  `config.rs:207-208` admits.
- `main.rs:327-328` has what people paste "always end up with a bare scheme://host". A path that is not in the table stays, a seventh paste is not taken off, and a host that is
  named like a path (`https://docs`) is taken for one; `EnrolTheorem` says what does hold.
- `main.rs:98` offers to stop the service; under launchd `stop` is a `SIGTERM`, which `KeepAlive` answers with a restart.

## 6. Not modelled

- TLS beyond the comparison of the pin, certificates and their signatures, encodings of bodies (a body is a request or is not).
- Argument parsing, `status` and other output; the log directory, names and paths.
- The Windows service: each command is one call of its manager, and no restart policy is set.
- The dev-cert feature, which release builds do not have; the download script; the ping handler, which is a constant.
- A temporary failure to append to the log (`audit.rs:99`) in the middle of a text, which may leave a part of it; a clock that is set back.
- Of `Tunnel`, a stream of which the cloud gives up one direction only: to the task it is the read or the write that fails.
- Two commands of `Service` at once, and an administrator who changes the system's file.

## 7. Plan

Done, in this order, the most important first: `Policy` and `FileRpc` with `FileStore` and their proofs; `AtomicWrite`; `ExecRpc`; `Tunnel`;
`Setup`; `AuditLog`; `Wire` and `StdioRpc` with `FrameStream` and their proofs; `DaemonStart` with `CloudUrl`; `Service`; the proofs about `Setup`, `DaemonStart`, `AuditLog`, `Service`,
the back-off, the normalisation of URLs, commands side by side, coarse clocks and a failing log, and a client that frames its requests with `encode`. Next:

1. A system file that sets a field to its default, as a value of its own in `Setup`.
2. `Tunnel` and `FileRpc` composed: a write whose answer is lost with its connection and is retried by the cloud.
