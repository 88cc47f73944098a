------------------------------- MODULE FileRpc -------------------------------
(***************************************************************************)
(* The file handlers of the daemon (read_file, write_file, list_dir) run   *)
(* as the tunnel runs them: one blocking task per request, any number at a *)
(* time, over a file system that local programs change as well.  One       *)
(* action per system call a handler makes; two tasks, or a task and a      *)
(* local program, interleave between any two of them.                      *)
(*                                                                         *)
(* A file's content is the number of the moment it was written (0: no      *)
(* file), so equal numbers are equal bytes; its modification time is that  *)
(* number seen through a clock of the given Grain.  A directory is there or *)
(* not; a write makes the one it needs, and nothing removes one.           *)
(***************************************************************************)
EXTENDS Policy, FiniteSets, Sequences

CONSTANTS
    Tasks,        \* requests, each served by one blocking task
    Paths,        \* names of files and of symbolic links
    Dirs,         \* directories
    DirOf,        \* [Paths -> Dirs], the directory a name is in
    Op,           \* [Tasks -> Ops], what each request asks for
    Target,       \* [Tasks -> Paths \cup Dirs], the path in the request
    MaxBytes,     \* [Tasks -> Nat], req.max_bytes
    MaxRead,      \* cfg.max_read_bytes
    Size(_),      \* length of a content in bytes
    Grain,        \* moments that share one modification time
    Policies,     \* policies the daemon may have been started with
    InitDirs,     \* directory contents the daemon may find at start
    InitClock,    \* the last moment of those contents
    IoKinds,      \* kinds of I/O error a system call may meet
    AuditMayFail, \* whether appending to the audit log may fail
    MayCrash,     \* whether the daemon may be killed
    MaxEdits      \* bound: changes made by local programs

Ops == {"read", "write", "edit", "list"}
Writers == {t \in Tasks : Op[t] \in {"write", "edit"}}
Lister(t) == Op[t] = "list"

(* What a name stands for: content id, or a link to another name.          *)
Entry == [id : Nat, to : Paths]

ASSUME GrainAssumption == Grain \in Nat \ {0}
ASSUME RequestAssumption ==
    /\ Op \in [Tasks -> Ops]
    /\ Target \in [Tasks -> Paths \cup Dirs]
    /\ \A t \in Tasks : Op[t] # "list" => Target[t] \in Paths
    /\ \A t \in Tasks : Op[t] = "list" => Target[t] \in Dirs
    /\ DirOf \in [Paths -> Dirs]
ASSUME EnvironmentAssumption ==
    /\ Policies \subseteq PolicyType(Paths \cup Dirs, {})
    /\ InitClock \in Nat /\ MaxEdits \in Nat
    /\ InitDirs \subseteq [Paths -> Entry]
    /\ \A d \in InitDirs : \A p \in Paths : d[p].id <= InitClock
    /\ IoKinds \subseteq {"NotFound", "PermissionDenied", "Io"}
    /\ AuditMayFail \in BOOLEAN /\ MayCrash \in BOOLEAN

VARIABLES
    policy,   \* the policy this daemon runs under, fixed at start
    dir,      \* [Paths -> Entry], the file system
    folders,  \* the directories that exist
    temps,    \* contents lying in temporary files beside their target
    clock,    \* the last moment at which a content was written
    edits,    \* local changes made so far
    learned,  \* what the cloud has been told by answered reads
    pc,       \* [Tasks -> step], where each handler stands
    base,     \* [Tasks -> reading], the read an edit was computed from
    got,      \* [Tasks -> Nat], mtime of the last stat of a read
    mine,     \* [Tasks -> Nat], the content a write puts in its temp file
    todo,     \* [Tasks -> SUBSET Paths], names a listing has yet to look at
    found,    \* [Tasks -> SUBSET Paths], names it has found
    skipped,  \* history: names whose entry it could not read
    out,      \* [Tasks -> outcome], the result on its way out
    audit,    \* [Tasks -> Seq], entries this request left in the audit log
    raced,    \* history: the target changed since the last check
    holes     \* history: names that led to no file when the task arrived,
              \*          or because a local program removed one since

env  == <<policy, clock, edits, learned>>
fs   == <<dir, folders, temps, raced, holes>>
work == <<base, got, mine, todo, found, skipped>>
vars == <<policy, dir, folders, temps, clock, edits, learned, pc, base, got, mine,
          todo, found, skipped, out, audit, raced, holes>>

(* Variant: a time before the epoch is not clamped.                        *)
MtimeUnclamped(v) == (v - 1) \div Grain

(* mtime_unix_ns of a content; 0 when there is no file to ask.             *)
Mtime(v) == (v + Grain - 1) \div Grain

(* The content reached through a name (links are followed), and the        *)
(* presence of the name itself.                                            *)
Shown(d, p)   == d[d[p].to].id
Present(d, p) == d[p].id # 0 \/ d[p].to # p
Missing(d)    == {p \in Paths : Shown(d, p) = 0}
InDir(t)      == {p \in Paths : DirOf[p] = Target[t]}
File(v, p)    == [id |-> v, to |-> p]

(* path.canonicalize(), or the path as given when that fails.              *)
Canonical(q) == IF q \in Paths /\ Shown(dir, q) # 0 THEN dir[q].to ELSE q

Cap(t) == Lesser(MaxBytes[t], MaxRead)

Outcome(result, error, data, mtime) ==
    [result |-> result, error |-> error, data |-> data, mtime |-> mtime]
Pending == Outcome("none", "none", 0, 0)
NoReading == [path |-> "none", data |-> 0, mtime |-> 0]

Results == {"none", "Ok", "Denied", "Error"}
Errors == {"none", "PathNotAllowed", "ReadOnlyMode", "NotFound", "PermissionDenied",
           "Io", "SizeLimitExceeded", "MtimeMismatch"}
Steps == {"idle", "stat", "read", "open", "scan", "cas", "parent", "temp", "sync",
          "rename", "poststat", "audit", "reply", "done", "lost"}
Outcomes == [result : Results, error : Errors, data : Nat, mtime : Nat]
Active(t) == pc[t] \notin {"idle", "done", "lost"}

TypeOK ==
    /\ policy \in Policies
    /\ dir \in [Paths -> Entry]
    /\ folders \subseteq Dirs
    /\ temps \subseteq Nat
    /\ clock \in Nat /\ edits \in 0 .. MaxEdits
    /\ learned \subseteq [path : Paths, data : Nat, mtime : Nat]
    /\ pc \in [Tasks -> Steps]
    /\ base \in [Tasks -> [path : Paths \cup {"none"}, data : Nat, mtime : Nat]]
    /\ got \in [Tasks -> Nat]
    /\ mine \in [Tasks -> Nat]
    /\ todo \in [Tasks -> SUBSET Paths]
    /\ found \in [Tasks -> SUBSET Paths]
    /\ skipped \in [Tasks -> SUBSET Paths]
    /\ out \in [Tasks -> Outcomes]
    /\ audit \in [Tasks -> Seq(Results)]
    /\ raced \in [Tasks -> BOOLEAN]
    /\ holes \in [Tasks -> SUBSET Paths]

Init ==
    /\ policy \in Policies
    /\ dir \in InitDirs
    /\ folders \in {f \in SUBSET Dirs : \A p \in Paths : Present(dir, p) => DirOf[p] \in f}
    /\ temps = {} /\ clock = InitClock /\ edits = 0 /\ learned = {}
    /\ pc = [t \in Tasks |-> "idle"]
    /\ base = [t \in Tasks |-> NoReading]
    /\ got = [t \in Tasks |-> 0] /\ mine = [t \in Tasks |-> 0]
    /\ todo = [t \in Tasks |-> {}] /\ found = [t \in Tasks |-> {}]
    /\ skipped = [t \in Tasks |-> {}]
    /\ out = [t \in Tasks |-> Pending]
    /\ audit = [t \in Tasks |-> <<>>]
    /\ raced = [t \in Tasks |-> FALSE] /\ holes = [t \in Tasks |-> {}]

-----------------------------------------------------------------------------
(* Every way out of a handler: the outcome is set, the audit entry comes    *)
(* next, then the answer.                                                   *)
Goto(t, step) == pc' = [pc EXCEPT ![t] = step]
Finish(t, outcome) == Goto(t, "audit") /\ out' = [out EXCEPT ![t] = outcome]

(* Variant: an error returned without an audit entry.                      *)
FailUnrecorded(t, error) ==
    Goto(t, "reply") /\ out' = [out EXCEPT ![t] = Outcome("Error", error, 0, 0)]

Fail(t, error) == Finish(t, Outcome("Error", error, 0, 0))
Deny(t, error) == Finish(t, Outcome("Denied", error, 0, 0))

(* The file system becomes d: the tasks whose target shows another content  *)
(* take note, and the tasks of anchored start watching theirs afresh.       *)
Become(d, anchored) ==
    /\ dir' = d
    /\ raced' = [u \in Tasks |->
                   /\ u \notin anchored
                   /\ \/ raced[u]
                      \/ ~Lister(u) /\ Shown(d, Target[u]) # Shown(dir, Target[u])]

(* A request arrives and the handler asks the policy, a writer first        *)
(* whether writing is allowed at all.  An edit carries a reading of the     *)
(* same path that the cloud has been given before.                          *)
Accept(t) ==
    /\ pc[t] = "idle"
    /\ IF Op[t] = "edit"
       THEN \E l \in learned : l.path = Target[t] /\ base' = [base EXCEPT ![t] = l]
       ELSE base' = base
    /\ holes' = [holes EXCEPT ![t] = Missing(dir)]
    /\ \/ /\ t \in Writers /\ ~WritesAllowed(policy)
          /\ Deny(t, "ReadOnlyMode")
       \/ /\ t \in Writers => WritesAllowed(policy)
          /\ ~PathAllowed(policy, Canonical(Target[t]))
          /\ Deny(t, "PathNotAllowed")
       \/ /\ t \in Writers => WritesAllowed(policy)
          /\ PathAllowed(policy, Canonical(Target[t]))
          /\ Goto(t, CASE Op[t] = "read"  -> "stat"
                       [] Op[t] = "list"  -> "open"
                       [] Op[t] = "edit"  -> "cas"
                       [] Op[t] = "write" -> "parent")
          /\ out' = out
    /\ UNCHANGED <<env, dir, folders, temps, raced, got, mine, todo, found, skipped, audit>>

(* Variant: the size is not compared with the cap.                         *)
StatUncapped(t) ==
    /\ pc[t] = "stat"
    /\ LET v == Shown(dir, Target[t]) IN
       /\ v # 0
       /\ Goto(t, "read")
       /\ got' = [got EXCEPT ![t] = Mtime(v)]
    /\ UNCHANGED <<env, fs, base, mine, todo, found, skipped, out, audit>>

(* fs::metadata of a read, with the size check on what it says.            *)
Stat(t) ==
    /\ pc[t] = "stat"
    /\ LET v == Shown(dir, Target[t]) IN
       \/ /\ v = 0
          /\ Fail(t, "NotFound")
          /\ UNCHANGED <<got, raced>>
       \/ /\ \E kind \in IoKinds \ {"NotFound"} : Fail(t, kind)
          /\ UNCHANGED <<got, raced>>
       \/ /\ v # 0 /\ Size(v) > Cap(t)
          /\ Deny(t, "SizeLimitExceeded")
          /\ UNCHANGED <<got, raced>>
       \/ /\ v # 0 /\ ~(Size(v) > Cap(t))
          /\ Goto(t, "read")
          /\ got' = [got EXCEPT ![t] = Mtime(v)]
          /\ raced' = [raced EXCEPT ![t] = FALSE]
          /\ out' = out
    /\ UNCHANGED <<env, dir, folders, temps, holes, base, mine, todo, found, skipped, audit>>

(* fs::read: whatever is there now, answered with the mtime of the stat.    *)
(* A file that has gone by now is a plain I/O error.                        *)
ReadData(t) ==
    /\ pc[t] = "read"
    /\ LET v == Shown(dir, Target[t]) IN
       \/ /\ v = 0 \/ IoKinds # {}
          /\ Fail(t, "Io")
       \/ /\ v # 0
          /\ Finish(t, Outcome("Ok", "none", v, got[t]))
    /\ UNCHANGED <<env, fs, work, audit>>

(* read_dir, which fails for a directory that is not there.                *)
OpenDir(t) ==
    /\ pc[t] = "open"
    /\ \/ /\ Target[t] \notin folders
          /\ Fail(t, "NotFound")
          /\ todo' = todo
       \/ /\ \E kind \in IoKinds \ {"NotFound"} : Fail(t, kind)
          /\ todo' = todo
       \/ /\ Target[t] \in folders
          /\ Goto(t, "scan")
          /\ todo' = [todo EXCEPT ![t] = InDir(t)]
          /\ out' = out
    /\ UNCHANGED <<env, fs, base, got, mine, found, skipped, audit>>

(* Then one entry at a time, in no particular order.  An entry that cannot  *)
(* be read is passed over in silence, and so are all that are left when     *)
(* reading the directory itself fails (flatten, and continue).  Names are   *)
(* those a listing may show, none hidden and all of them UTF-8.             *)
ScanEntry(t) ==
    /\ pc[t] = "scan"
    /\ \/ \E p \in todo[t] :
             /\ todo' = [todo EXCEPT ![t] = @ \ {p}]
             /\ found' = [found EXCEPT ![t] = IF Present(dir, p) THEN @ \cup {p} ELSE @]
             /\ UNCHANGED <<pc, out, skipped>>
       \/ \E unread \in {{p} : p \in todo[t]} \cup {todo[t]} :
             /\ IoKinds # {}
             /\ todo' = [todo EXCEPT ![t] = @ \ unread]
             /\ skipped' = [skipped EXCEPT ![t] = @ \cup unread]
             /\ UNCHANGED <<pc, out, found>>
       \/ /\ todo[t] = {}
          /\ Finish(t, Outcome("Ok", "none", 0, 0))
          /\ UNCHANGED <<todo, found, skipped>>
    /\ UNCHANGED <<env, fs, base, got, mine, audit>>

(* Variant: a missing file passes the check.                               *)
CasCheckVacuous(t) ==
    /\ pc[t] = "cas"
    /\ LET v == Shown(dir, Target[t]) IN
       \/ v # 0 /\ Mtime(v) # base[t].mtime /\ Deny(t, "MtimeMismatch") /\ raced' = raced
       \/ /\ v = 0 \/ Mtime(v) = base[t].mtime
          /\ Goto(t, "parent")
          /\ raced' = [raced EXCEPT ![t] = FALSE]
          /\ out' = out
    /\ UNCHANGED <<env, dir, folders, temps, holes, work, audit>>

(* The check of if_mtime_matches.  A missing file never matches, nor does  *)
(* one whose metadata cannot be read.                                      *)
CasCheck(t) ==
    /\ pc[t] = "cas"
    /\ LET v == Shown(dir, Target[t]) IN
       \/ /\ v = 0 \/ Mtime(v) # base[t].mtime \/ IoKinds # {}
          /\ Deny(t, "MtimeMismatch")
          /\ raced' = raced
       \/ /\ v # 0 /\ Mtime(v) = base[t].mtime
          /\ Goto(t, "parent")
          /\ raced' = [raced EXCEPT ![t] = FALSE]
          /\ out' = out
    /\ UNCHANGED <<env, dir, folders, temps, holes, work, audit>>

(* atomic_write makes the directory of its target first.  It stays, even    *)
(* when a later step fails.                                                 *)
MakeParent(t) ==
    /\ pc[t] = "parent"
    /\ \/ /\ \E kind \in IoKinds : Fail(t, kind)
          /\ folders' = folders
       \/ /\ Goto(t, "temp")
          /\ folders' = folders \cup {DirOf[Target[t]]}
          /\ out' = out
    /\ UNCHANGED <<env, dir, temps, raced, holes, work, audit>>

(* Then the temporary file is created beside the target and filled, which   *)
(* is when its content gets its modification time.  Any failure drops the   *)
(* NamedTempFile, which removes it.                                         *)
WriteTemp(t) ==
    /\ pc[t] = "temp"
    /\ \/ /\ \E kind \in IoKinds : Fail(t, kind)
          /\ UNCHANGED <<clock, mine, temps>>
       \/ /\ Goto(t, "sync")
          /\ clock' = clock + 1
          /\ mine' = [mine EXCEPT ![t] = clock + 1]
          /\ temps' = temps \cup {clock + 1}
          /\ out' = out
    /\ UNCHANGED <<policy, edits, learned, dir, folders, raced, holes, base, got, todo, found,
                   skipped, audit>>

(* Variants: the temp file survives a failed sync; the target is removed to *)
(* make room for the rename.                                                *)
SyncTempKeeping(t) ==
    /\ pc[t] = "sync"
    /\ \/ \E kind \in IoKinds : Fail(t, kind)
       \/ Goto(t, "rename") /\ out' = out
    /\ UNCHANGED <<env, fs, work, audit>>

SyncTempUnlinking(t) ==
    /\ pc[t] = "sync"
    /\ Goto(t, "rename")
    /\ Become([dir EXCEPT ![Target[t]] = File(0, Target[t])], {})
    /\ UNCHANGED <<env, folders, temps, holes, work, out, audit>>

SyncTemp(t) ==
    /\ pc[t] = "sync"
    /\ \/ /\ \E kind \in IoKinds : Fail(t, kind)
          /\ temps' = temps \ {mine[t]}
       \/ /\ Goto(t, "rename")
          /\ UNCHANGED <<out, temps>>
    /\ UNCHANGED <<env, dir, folders, raced, holes, work, audit>>

(* Variant: a failure is reported although the rename has happened.        *)
PersistThenFail(t) ==
    /\ pc[t] = "rename"
    /\ temps' = temps \ {mine[t]}
    /\ \/ \E kind \in IoKinds : Fail(t, kind)
       \/ Goto(t, "poststat") /\ out' = out
    /\ Become([dir EXCEPT ![Target[t]] = File(mine[t], Target[t])], {t})
    /\ UNCHANGED <<env, folders, holes, work, audit>>

(* persist: the rename replaces the name itself, a link included.          *)
Persist(t) ==
    /\ pc[t] = "rename"
    /\ temps' = temps \ {mine[t]}
    /\ \/ /\ \E kind \in IoKinds : Fail(t, kind)
          /\ UNCHANGED <<dir, raced>>
       \/ /\ Goto(t, "poststat")
          /\ Become([dir EXCEPT ![Target[t]] = File(mine[t], Target[t])], {t})
          /\ out' = out
    /\ UNCHANGED <<env, folders, holes, work, audit>>

(* Variant: the answer repeats the metadata of the mtime check.            *)
PostStatReusingCheck(t) ==
    /\ pc[t] = "poststat"
    /\ Finish(t, Outcome("Ok", "none", 0, base[t].mtime))
    /\ UNCHANGED <<env, fs, work, audit>>

(* The mtime of the answer is asked after the rename, and is 0 if the file *)
(* cannot be asked any more.                                               *)
PostStat(t) ==
    /\ pc[t] = "poststat"
    /\ \/ Finish(t, Outcome("Ok", "none", 0, Mtime(Shown(dir, Target[t]))))
       \/ IoKinds # {} /\ Finish(t, Outcome("Ok", "none", 0, 0))
    /\ UNCHANGED <<env, fs, work, audit>>

(* audit.write of the one event a handler reports; the handlers ignore its *)
(* failure.                                                                *)
Audit(t) ==
    /\ pc[t] = "audit"
    /\ Goto(t, "reply")
    /\ \/ audit' = [audit EXCEPT ![t] = Append(@, out[t].result)]
       \/ AuditMayFail /\ audit' = audit
    /\ UNCHANGED <<env, fs, work, out>>

(* The handler returns and the response goes to the cloud.                 *)
Reply(t) ==
    /\ pc[t] = "reply"
    /\ Goto(t, "done")
    /\ learned' = IF Op[t] = "read" /\ out[t].result = "Ok"
                  THEN learned \cup {[path |-> Target[t], data |-> out[t].data,
                                      mtime |-> out[t].mtime]}
                  ELSE learned
    /\ UNCHANGED <<policy, clock, edits, fs, work, out, audit>>

-----------------------------------------------------------------------------
(* A local program saves a file (in place or by replacing it: either way    *)
(* new content and a new mtime under a name that is no link) and makes its  *)
(* directory, or removes a name.                                            *)
LocalWrite(p) ==
    /\ edits < MaxEdits /\ edits' = edits + 1
    /\ dir[p].to = p
    /\ clock' = clock + 1
    /\ Become([dir EXCEPT ![p] = File(clock + 1, p)], {})
    /\ folders' = folders \cup {DirOf[p]}
    /\ UNCHANGED <<policy, learned, temps, holes, pc, work, out, audit>>

LocalDelete(p) ==
    /\ edits < MaxEdits /\ edits' = edits + 1
    /\ Present(dir, p)
    /\ Become([dir EXCEPT ![p] = File(0, p)], {})
    /\ holes' = [u \in Tasks |-> holes[u] \cup Missing(dir')]
    /\ UNCHANGED <<policy, clock, learned, folders, temps, pc, work, out, audit>>

(* The daemon is killed: its tasks are gone, their temporary files stay.   *)
(* Requests that have not arrived yet are served by the next daemon.       *)
Crash ==
    /\ MayCrash
    /\ \E t \in Tasks : Active(t)
    /\ pc' = [t \in Tasks |-> IF Active(t) THEN "lost" ELSE pc[t]]
    /\ UNCHANGED <<env, fs, work, out, audit>>

Task(t) ==
    \/ Accept(t) \/ Stat(t) \/ ReadData(t) \/ OpenDir(t) \/ ScanEntry(t) \/ CasCheck(t)
    \/ MakeParent(t) \/ WriteTemp(t) \/ SyncTemp(t) \/ Persist(t) \/ PostStat(t)
    \/ Audit(t) \/ Reply(t)

Local(p) == LocalWrite(p) \/ LocalDelete(p)

Next == (\E t \in Tasks : Task(t)) \/ (\E p \in Paths : Local(p)) \/ Crash

Spec == Init /\ [][Next]_vars

-----------------------------------------------------------------------------
Answered(t) == pc[t] \in {"audit", "reply", "done"}
AnsweredOk(t) == Answered(t) /\ out[t].result = "Ok"

(* What write_file.rs:7-8 says of the mtime check, without the exception    *)
(* below: an edit never replaces anything but what the cloud read.          *)
NoLostUpdate ==
    \A t \in Tasks :
        pc[t] = "rename" /\ Op[t] = "edit" => Shown(dir, Target[t]) = base[t].data

(* The heart of edit://: when an edit is about to rename its file into      *)
(* place and nothing has touched the path since its mtime check, what it    *)
(* replaces is byte for byte what the cloud read and computed the edit      *)
(* from.  A local change or another write is never lost except in the gap   *)
(* between the check and the rename (write_file.rs:43-73), although the     *)
(* read that taught the cloud the mtime was itself two system calls.        *)
EditReplacesWhatWasRead ==
    \A t \in Tasks :
        pc[t] = "rename" /\ Op[t] = "edit" /\ ~raced[t]
            => Shown(dir, Target[t]) = base[t].data

(* The caps of a read are not kept: they are compared with the stat alone   *)
(* (read_file.rs:34, 59), and a file that grew before it was read (68) is   *)
(* answered whole, against lib.rs:41 ("Daemon refuses if file exceeds       *)
(* this") and config.rs:128 ("Hard ceiling").  What does hold of an answer  *)
(* longer than the caps allow is that its mtime is not that of its data, so *)
(* that no later edit can build on it.                                      *)
OversizeIsStale ==
    \A t \in Tasks :
        Op[t] = "read" /\ AnsweredOk(t) /\ Size(out[t].data) > Cap(t)
            => out[t].mtime # Mtime(out[t].data)

(* Replacing a file never hides it: a read or a listing that reports        *)
(* NotFound, or a finished listing that lacks a name, started without that  *)
(* file or met its removal by a local program; no write of the daemon can   *)
(* make it so.  What a listing lacks besides is what it could not read: it  *)
(* is answered Ok all the same (list_dir.rs:55-56).                         *)
ReplacingNeverHides ==
    \A t \in Tasks :
        /\ Answered(t) /\ Op[t] = "read" /\ out[t].error = "NotFound"
              => Target[t] \in holes[t]
        /\ Lister(t) /\ Answered(t) /\ out[t].error = "NotFound"
              => InDir(t) \subseteq holes[t]
        /\ Lister(t) /\ AnsweredOk(t)
              => InDir(t) \subseteq found[t] \cup holes[t] \cup skipped[t]

(* The mtime a write is answered with (asked after the rename, so possibly  *)
(* someone else's) is that of its own content unless the path changed       *)
(* again, never that of what it replaced.                                   *)
AckIsOwnUnlessRaced ==
    \A t \in Writers :
        AnsweredOk(t) /\ ~raced[t] => out[t].mtime \in {Mtime(mine[t]), 0}

(* No handler path answers before it has left exactly one audit entry, and  *)
(* the entry says what the answer says: also on every early return.         *)
AuditedBeforeAnswer ==
    \A t \in Tasks :
        /\ pc[t] \in {"reply", "done"} => audit[t] = <<out[t].result>>
        /\ pc[t] \notin {"reply", "done", "lost"} => audit[t] = <<>>

(* A temporary file is gone by the time its write has an outcome, whichever *)
(* step failed; only a killed daemon leaves one behind.                     *)
NoStrayTemps ==
    temps \subseteq {mine[t] : t \in {u \in Tasks : pc[u] \in {"sync", "rename", "lost"}}}

(* A read-only daemon never changes the file system, whatever it is asked:  *)
(* no file, no temporary one, no directory.                                 *)
ReadOnlyNeverChanges ==
    [][policy.mode = "ReadOnly"
         => (UNCHANGED temps /\ (UNCHANGED <<dir, folders>> \/ edits' # edits))]_vars

(* The file system seen as a store of which each answered request promises  *)
(* something: a write answered Ok took effect exactly once, at one instant, *)
(* and a request answered with an error changed no file; what it may leave  *)
(* is the directory it needed (write_file.rs:99-101).                       *)
Phase(t) ==
    CASE pc[t] = "done" -> IF out[t].result = "Ok" THEN "ok" ELSE "refused"
      [] pc[t] = "lost" -> "lost"
      [] \/ pc[t] = "poststat"
         \/ pc[t] \in {"audit", "reply"} /\ t \in Writers /\ out[t].result = "Ok" -> "applied"
      [] OTHER -> "open"

Store == INSTANCE FileStore
         WITH store <- dir, changes <- edits, phase <- [t \in Tasks |-> Phase(t)]
ImplementsStore == Store!Spec
=============================================================================
