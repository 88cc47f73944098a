---------------------------- MODULE FileRpcProofs ----------------------------
(***************************************************************************)
(* Theorems about FileRpc, for every set of requests, paths and contents,  *)
(* every number of local changes, and with I/O errors, audit failures and  *)
(* kills wherever the constants allow them.                                *)
(***************************************************************************)
EXTENDS FileRpc, TLAPS

LEMMA MtimeType == ASSUME NEW v \in Nat PROVE Mtime(v) \in Nat
<1>1. v + Grain - 1 \in Nat
  BY GrainAssumption
<1> QED
  BY <1>1, GrainAssumption DEF Mtime

LEMMA OutcomeIn ==
    ASSUME NEW result \in Results, NEW error \in Errors, NEW data \in Nat, NEW mtime \in Nat
    PROVE  Outcome(result, error, data, mtime) \in Outcomes
BY DEF Outcome, Outcomes

(* The three ways out of a handler keep the types of pc and out.           *)
LEMMA FinishType ==
    ASSUME TypeOK, NEW t \in Tasks, NEW o \in Outcomes, Finish(t, o)
    PROVE  out' \in [Tasks -> Outcomes] /\ pc' \in [Tasks -> Steps]
BY DEF Finish, Goto, TypeOK, Steps

LEMMA FailType ==
    ASSUME TypeOK, NEW t \in Tasks, NEW error \in Errors, Fail(t, error)
    PROVE  out' \in [Tasks -> Outcomes] /\ pc' \in [Tasks -> Steps]
BY OutcomeIn, FinishType DEF Fail, Results

LEMMA DenyType ==
    ASSUME TypeOK, NEW t \in Tasks, NEW error \in Errors, Deny(t, error)
    PROVE  out' \in [Tasks -> Outcomes] /\ pc' \in [Tasks -> Steps]
BY OutcomeIn, FinishType DEF Deny, Results

LEMMA GotoType ==
    ASSUME TypeOK, NEW t \in Tasks, NEW step \in Steps, Goto(t, step), UNCHANGED out
    PROVE  out' \in [Tasks -> Outcomes] /\ pc' \in [Tasks -> Steps]
BY DEF Goto, TypeOK

LEMMA TargetShown ==
    ASSUME TypeOK, NEW t \in Tasks, Target[t] \in Paths
    PROVE  Shown(dir, Target[t]) \in Nat /\ Mtime(Shown(dir, Target[t])) \in Nat
<1>1. Shown(dir, Target[t]) \in Nat
  BY DEF TypeOK, Shown, Entry
<1> QED
  BY <1>1, MtimeType

(* The requests a step belongs to: a handler only reaches its own steps.   *)
StepsOf(op) ==
    CASE op = "read"  -> {"stat", "read"}
      [] op = "list"  -> {"open", "scan"}
      [] op = "edit"  -> {"cas", "parent", "temp", "sync", "rename", "poststat"}
      [] op = "write" -> {"parent", "temp", "sync", "rename", "poststat"}
OwnSteps == \A t \in Tasks : pc[t] \in StepsOf(Op[t]) \cup {"idle", "audit", "reply", "done", "lost"}
Typed == TypeOK /\ OwnSteps

(* Type correctness: every step of every handler keeps the variables in    *)
(* their types, and a request is never at a step of another handler.       *)
LEMMA TypedInductive == Init /\ [][Next]_vars => []Typed
<1>1. Init => Typed
  BY EnvironmentAssumption
  DEF Init, Typed, TypeOK, OwnSteps, NoReading, Pending, Outcome, Outcomes, Steps, Results, Errors
<1>2. Typed /\ [Next]_vars => Typed'
  <2> SUFFICES ASSUME Typed, [Next]_vars PROVE Typed'
    OBVIOUS
  <2>0. TypeOK /\ OwnSteps
    BY DEF Typed
  <2>1. ASSUME NEW t \in Tasks, Accept(t) PROVE Typed'
    <3>1. out' \in [Tasks -> Outcomes] /\ pc' \in [Tasks -> Steps]
      BY <2>0, <2>1, DenyType, RequestAssumption DEF Accept, Errors, TypeOK, Goto, Steps, Ops
    <3>2. base' \in [Tasks -> [path : Paths \cup {"none"}, data : Nat, mtime : Nat]]
      <4>1. ASSUME NEW l \in learned, base' = [base EXCEPT ![t] = l]
            PROVE  base' \in [Tasks -> [path : Paths \cup {"none"}, data : Nat, mtime : Nat]]
        <5>1. l \in [path : Paths \cup {"none"}, data : Nat, mtime : Nat]
          BY <2>0 DEF TypeOK
        <5> QED
          BY <2>0, <4>1, <5>1 DEF TypeOK
      <4>2. base' = base \/ \E l \in learned : base' = [base EXCEPT ![t] = l]
        BY <2>1 DEF Accept
      <4> QED
        BY <2>0, <4>1, <4>2 DEF TypeOK
    <3>3. holes' \in [Tasks -> SUBSET Paths]
      BY <2>0, <2>1 DEF Accept, TypeOK, Missing
    <3>4. OwnSteps'
      BY <2>0, <2>1, RequestAssumption
      DEF Accept, Deny, Finish, Goto, OwnSteps, StepsOf, Ops, TypeOK
    <3> QED
      BY <2>0, <2>1, <3>1, <3>2, <3>3, <3>4 DEF Accept, Typed, TypeOK, env
  <2>2. ASSUME NEW t \in Tasks, Stat(t) PROVE Typed'
    <3>1. Target[t] \in Paths
      BY <2>0, <2>2, RequestAssumption DEF Stat, OwnSteps, StepsOf, Ops
    <3>2. out' \in [Tasks -> Outcomes] /\ pc' \in [Tasks -> Steps]
      BY <2>0, <2>2, FailType, DenyType, GotoType, EnvironmentAssumption DEF Stat, Errors, Steps
    <3>3. got' \in [Tasks -> Nat] /\ raced' \in [Tasks -> BOOLEAN]
      <4>1. got' = got \/ got' = [got EXCEPT ![t] = Mtime(Shown(dir, Target[t]))]
        BY <2>2 DEF Stat
      <4>2. raced' = raced \/ raced' = [raced EXCEPT ![t] = FALSE]
        BY <2>2 DEF Stat
      <4>3. Mtime(Shown(dir, Target[t])) \in Nat
        BY <2>0, <3>1, TargetShown
      <4>4. got \in [Tasks -> Nat] /\ raced \in [Tasks -> BOOLEAN]
        BY <2>0 DEF TypeOK
      <4> QED
        BY <4>1, <4>2, <4>3, <4>4
    <3>4. OwnSteps'
      BY <2>0, <2>2, RequestAssumption
      DEF Stat, Deny, Fail, Finish, Goto, OwnSteps, StepsOf, Ops, TypeOK
    <3>5. UNCHANGED <<env, dir, folders, temps, holes, base, mine, todo, found, skipped, audit>>
      BY <2>2 DEF Stat
    <3> QED
      BY <2>0, <3>2, <3>3, <3>4, <3>5 DEF Typed, TypeOK, env
  <2>3. ASSUME NEW t \in Tasks, ReadData(t) PROVE Typed'
    <3>1. Target[t] \in Paths
      BY <2>0, <2>3, RequestAssumption DEF ReadData, OwnSteps, StepsOf, Ops
    <3>2. Outcome("Ok", "none", Shown(dir, Target[t]), got[t]) \in Outcomes
      BY <2>0, <3>1, TargetShown, OutcomeIn DEF TypeOK, Results, Errors
    <3>3. Fail(t, "Io") \/ Finish(t, Outcome("Ok", "none", Shown(dir, Target[t]), got[t]))
      BY <2>3 DEF ReadData
    <3>4. out' \in [Tasks -> Outcomes] /\ pc' \in [Tasks -> Steps]
      BY <2>0, <3>2, <3>3, FailType, FinishType DEF Errors
    <3>5. OwnSteps'
      BY <2>0, <2>3 DEF ReadData, Fail, Finish, Goto, OwnSteps, TypeOK
    <3> QED
      BY <2>0, <2>3, <3>4, <3>5 DEF ReadData, Typed, TypeOK, env, fs, work
  <2>4. ASSUME NEW t \in Tasks, OpenDir(t) PROVE Typed'
    <3>1. out' \in [Tasks -> Outcomes] /\ pc' \in [Tasks -> Steps]
      BY <2>0, <2>4, FailType, GotoType, EnvironmentAssumption DEF OpenDir, Errors, Steps
    <3>2. todo' \in [Tasks -> SUBSET Paths]
      <4>1. \/ todo' = todo
            \/ todo' = [todo EXCEPT ![t] = InDir(t)]
        BY <2>4 DEF OpenDir
      <4>2. todo \in [Tasks -> SUBSET Paths] /\ InDir(t) \in SUBSET Paths
        BY <2>0 DEF TypeOK, InDir
      <4> QED
        BY <4>1, <4>2
    <3>3. OwnSteps'
      BY <2>0, <2>4, RequestAssumption
      DEF OpenDir, Fail, Finish, Goto, OwnSteps, StepsOf, Ops, TypeOK
    <3>4. UNCHANGED <<env, fs, base, got, mine, found, skipped, audit>>
      BY <2>4 DEF OpenDir
    <3> QED
      BY <2>0, <3>1, <3>2, <3>3, <3>4 DEF Typed, TypeOK, env, fs
  <2>5. ASSUME NEW t \in Tasks, ScanEntry(t) PROVE Typed'
    <3>1. Outcome("Ok", "none", 0, 0) \in Outcomes
      BY OutcomeIn DEF Results, Errors
    <3>2. out' \in [Tasks -> Outcomes] /\ pc' \in [Tasks -> Steps]
      BY <2>0, <2>5, <3>1, FinishType DEF ScanEntry, TypeOK
    <3> DEFINE Sets == /\ todo' \in [Tasks -> SUBSET Paths] /\ found' \in [Tasks -> SUBSET Paths]
                       /\ skipped' \in [Tasks -> SUBSET Paths]
    <3>3. Sets
      <4>0. /\ todo \in [Tasks -> SUBSET Paths] /\ found \in [Tasks -> SUBSET Paths]
            /\ skipped \in [Tasks -> SUBSET Paths]
        BY <2>0 DEF TypeOK
      <4>1. ASSUME NEW p \in todo[t],
                   todo' = [todo EXCEPT ![t] = @ \ {p}],
                   found' = [found EXCEPT ![t] = IF Present(dir, p) THEN @ \cup {p} ELSE @],
                   skipped' = skipped
            PROVE  Sets
        <5>1. p \in Paths /\ todo[t] \ {p} \in SUBSET Paths /\ found[t] \cup {p} \in SUBSET Paths
          BY <4>0
        <5> QED
          BY <4>0, <4>1, <5>1
      <4>2. ASSUME NEW unread \in SUBSET todo[t],
                   todo' = [todo EXCEPT ![t] = @ \ unread],
                   skipped' = [skipped EXCEPT ![t] = @ \cup unread],
                   found' = found
            PROVE  Sets
        <5>1. todo[t] \ unread \in SUBSET Paths /\ skipped[t] \cup unread \in SUBSET Paths
          BY <4>0
        <5> QED
          BY <4>0, <4>2, <5>1
      <4>3. \A unread \in {{p} : p \in todo[t]} \cup {todo[t]} : unread \in SUBSET todo[t]
        OBVIOUS
      <4>4. CASE UNCHANGED <<todo, found, skipped>>
        BY <4>0, <4>4
      <4> QED
        BY <2>5, <4>1, <4>2, <4>3, <4>4 DEF ScanEntry
    <3>4. OwnSteps'
      BY <2>0, <2>5 DEF ScanEntry, Finish, Goto, OwnSteps, TypeOK
    <3> QED
      BY <2>0, <2>5, <3>2, <3>3, <3>4 DEF ScanEntry, Typed, TypeOK, env, fs
  <2>6. ASSUME NEW t \in Tasks, CasCheck(t) PROVE Typed'
    <3>1. out' \in [Tasks -> Outcomes] /\ pc' \in [Tasks -> Steps]
      BY <2>0, <2>6, DenyType, GotoType DEF CasCheck, Errors, Steps
    <3>2. raced' \in [Tasks -> BOOLEAN]
      BY <2>0, <2>6 DEF CasCheck, TypeOK
    <3>3. OwnSteps'
      BY <2>0, <2>6, RequestAssumption
      DEF CasCheck, Deny, Finish, Goto, OwnSteps, StepsOf, Ops, TypeOK
    <3> QED
      BY <2>0, <2>6, <3>1, <3>2, <3>3 DEF CasCheck, Typed, TypeOK, env, work
  <2>17. ASSUME NEW t \in Tasks, MakeParent(t) PROVE Typed'
    <3>1. Target[t] \in Paths
      BY <2>0, <2>17, RequestAssumption DEF MakeParent, OwnSteps, StepsOf, Ops
    <3>2. out' \in [Tasks -> Outcomes] /\ pc' \in [Tasks -> Steps]
      BY <2>0, <2>17, FailType, GotoType, EnvironmentAssumption DEF MakeParent, Errors, Steps
    <3>3. folders' \subseteq Dirs
      BY <2>0, <2>17, <3>1, RequestAssumption DEF MakeParent, TypeOK
    <3>4. OwnSteps'
      BY <2>0, <2>17, RequestAssumption
      DEF MakeParent, Fail, Finish, Goto, OwnSteps, StepsOf, Ops, TypeOK
    <3> QED
      BY <2>0, <2>17, <3>2, <3>3, <3>4 DEF MakeParent, Typed, TypeOK, env, work
  <2>7. ASSUME NEW t \in Tasks, WriteTemp(t) PROVE Typed'
    <3>1. out' \in [Tasks -> Outcomes] /\ pc' \in [Tasks -> Steps]
      BY <2>0, <2>7, FailType, GotoType, EnvironmentAssumption DEF WriteTemp, Errors, Steps
    <3>2. clock' \in Nat /\ mine' \in [Tasks -> Nat] /\ temps' \subseteq Nat
      <4>1. /\ clock \in Nat /\ clock + 1 \in Nat
            /\ mine \in [Tasks -> Nat] /\ temps \subseteq Nat
        BY <2>0 DEF TypeOK
      <4>2. \/ UNCHANGED <<clock, mine, temps>>
            \/ /\ clock' = clock + 1 /\ mine' = [mine EXCEPT ![t] = clock + 1]
               /\ temps' = temps \cup {clock + 1}
        BY <2>7 DEF WriteTemp
      <4> QED
        BY <4>1, <4>2
    <3>3. OwnSteps'
      BY <2>0, <2>7, RequestAssumption
      DEF WriteTemp, Fail, Finish, Goto, OwnSteps, StepsOf, Ops, TypeOK
    <3> QED
      BY <2>0, <2>7, <3>1, <3>2, <3>3 DEF WriteTemp, Typed, TypeOK
  <2>8. ASSUME NEW t \in Tasks, SyncTemp(t) PROVE Typed'
    <3>1. out' \in [Tasks -> Outcomes] /\ pc' \in [Tasks -> Steps]
      BY <2>0, <2>8, FailType, GotoType, EnvironmentAssumption DEF SyncTemp, Errors, Steps
    <3>2. temps' \subseteq Nat
      BY <2>0, <2>8 DEF SyncTemp, TypeOK
    <3>3. OwnSteps'
      BY <2>0, <2>8, RequestAssumption
      DEF SyncTemp, Fail, Finish, Goto, OwnSteps, StepsOf, Ops, TypeOK
    <3> QED
      BY <2>0, <2>8, <3>1, <3>2, <3>3 DEF SyncTemp, Typed, TypeOK, env, work
  <2>9. ASSUME NEW t \in Tasks, Persist(t) PROVE Typed'
    <3>1. Target[t] \in Paths
      BY <2>0, <2>9, RequestAssumption DEF Persist, OwnSteps, StepsOf, Ops
    <3>2. out' \in [Tasks -> Outcomes] /\ pc' \in [Tasks -> Steps]
      BY <2>0, <2>9, FailType, GotoType, EnvironmentAssumption DEF Persist, Errors, Steps
    <3>3. dir' \in [Paths -> Entry] /\ raced' \in [Tasks -> BOOLEAN] /\ temps' \subseteq Nat
      <4>1. File(mine[t], Target[t]) \in Entry
        BY <2>0, <3>1 DEF File, Entry, TypeOK
      <4>2. temps' \subseteq Nat
        BY <2>0, <2>9 DEF Persist, TypeOK
      <4>3. CASE UNCHANGED <<dir, raced>>
        BY <2>0, <4>2, <4>3 DEF TypeOK
      <4>4. CASE Become([dir EXCEPT ![Target[t]] = File(mine[t], Target[t])], {t})
        BY <2>0, <4>1, <4>2, <4>4 DEF Become, TypeOK
      <4> QED
        BY <2>9, <4>3, <4>4 DEF Persist
    <3>4. OwnSteps'
      BY <2>0, <2>9, RequestAssumption
      DEF Persist, Fail, Finish, Goto, OwnSteps, StepsOf, Ops, TypeOK
    <3> QED
      BY <2>0, <2>9, <3>2, <3>3, <3>4 DEF Persist, Typed, TypeOK, env, work
  <2>10. ASSUME NEW t \in Tasks, PostStat(t) PROVE Typed'
    <3>1. Target[t] \in Paths
      BY <2>0, <2>10, RequestAssumption DEF PostStat, OwnSteps, StepsOf, Ops
    <3>2. ASSUME NEW m \in Nat, Finish(t, Outcome("Ok", "none", 0, m))
          PROVE  out' \in [Tasks -> Outcomes] /\ pc' \in [Tasks -> Steps]
      <4>1. Outcome("Ok", "none", 0, m) \in Outcomes
        BY OutcomeIn DEF Results, Errors
      <4> QED
        BY <2>0, <3>2, <4>1, FinishType
    <3>3. out' \in [Tasks -> Outcomes] /\ pc' \in [Tasks -> Steps]
      BY <2>0, <2>10, <3>1, <3>2, TargetShown DEF PostStat
    <3>4. OwnSteps'
      BY <2>0, <2>10 DEF PostStat, Finish, Goto, OwnSteps, TypeOK
    <3> QED
      BY <2>0, <2>10, <3>3, <3>4 DEF PostStat, Typed, TypeOK, env, fs, work
  <2>11. ASSUME NEW t \in Tasks, Audit(t) PROVE Typed'
    <3>1. Append(audit[t], out[t].result) \in Seq(Results)
      BY <2>0 DEF TypeOK, Outcomes
    <3>2. OwnSteps' /\ pc' \in [Tasks -> Steps]
      BY <2>0, <2>11 DEF Audit, Goto, OwnSteps, TypeOK, Steps
    <3>3. audit' \in [Tasks -> Seq(Results)]
      BY <2>0, <2>11, <3>1 DEF TypeOK, Audit
    <3> QED
      BY <2>0, <2>11, <3>2, <3>3 DEF Typed, TypeOK, Audit, env, fs, work
  <2>12. ASSUME NEW t \in Tasks, Reply(t) PROVE Typed'
    <3>1. learned' \subseteq [path : Paths, data : Nat, mtime : Nat]
      BY <2>0, <2>12, RequestAssumption DEF TypeOK, Reply, Outcomes
    <3>2. OwnSteps' /\ pc' \in [Tasks -> Steps]
      BY <2>0, <2>12 DEF Reply, Goto, OwnSteps, TypeOK, Steps
    <3> QED
      BY <2>0, <2>12, <3>1, <3>2 DEF Typed, TypeOK, Reply, fs, work
  <2>13. ASSUME NEW p \in Paths, LocalWrite(p) PROVE Typed'
    <3>1. dir' \in [Paths -> Entry] /\ raced' \in [Tasks -> BOOLEAN]
      BY <2>0, <2>13 DEF LocalWrite, Become, File, Entry, TypeOK
    <3>2. clock' \in Nat /\ edits' \in 0 .. MaxEdits /\ folders' \subseteq Dirs
      BY <2>0, <2>13, EnvironmentAssumption, RequestAssumption DEF LocalWrite, TypeOK
    <3> QED
      BY <2>0, <2>13, <3>1, <3>2 DEF Typed, TypeOK, OwnSteps, LocalWrite, work
  <2>14. ASSUME NEW p \in Paths, LocalDelete(p) PROVE Typed'
    <3>1. dir' \in [Paths -> Entry] /\ raced' \in [Tasks -> BOOLEAN]
      BY <2>0, <2>14 DEF LocalDelete, Become, File, Entry, TypeOK
    <3>2. edits' \in 0 .. MaxEdits /\ holes' \in [Tasks -> SUBSET Paths]
      BY <2>0, <2>14, EnvironmentAssumption DEF LocalDelete, Missing, TypeOK
    <3> QED
      BY <2>0, <2>14, <3>1, <3>2 DEF Typed, TypeOK, OwnSteps, LocalDelete, work
  <2>15. CASE Crash
    BY <2>0, <2>15 DEF Typed, TypeOK, OwnSteps, Crash, Steps, env, fs, work
  <2>16. CASE UNCHANGED vars
    BY <2>0, <2>16 DEF Typed, TypeOK, OwnSteps, vars
  <2> QED
    BY <2>1, <2>2, <2>3, <2>4, <2>5, <2>6, <2>7, <2>8, <2>9, <2>10, <2>11, <2>12,
       <2>13, <2>14, <2>15, <2>16, <2>17 DEF Next, Task, Local
<1> QED
  BY <1>1, <1>2, PTL

THEOREM TypeCorrect == Spec => []TypeOK
<1>1. Typed => TypeOK
  BY DEF Typed
<1> QED
  BY <1>1, TypedInductive, PTL DEF Spec

-----------------------------------------------------------------------------
(* Auditing.  A task has no entry before its audit step, afterwards at most   *)
(* one, which says what the answer says, and that one for sure if the log    *)
(* can be written (the handlers ignore the result of audit.write).           *)
RecordOf(t) ==
    /\ audit[t] \in {<<>>, <<out[t].result>>}
    /\ pc[t] \notin {"reply", "done", "lost"} => audit[t] = <<>>
    /\ ~AuditMayFail /\ pc[t] \in {"reply", "done"} => audit[t] = <<out[t].result>>
Recorded == \A t \in Tasks : RecordOf(t)

(* Whatever becomes of the log: no answer or kill leaves a second entry, a    *)
(* wrong one, or one before the outcome stands (write_file.rs:86).           *)
THEOREM RecordTheorem == Spec => []Recorded
<1>1. Init => Recorded
  BY DEF Init, Recorded, RecordOf
<1>2. Typed /\ Recorded /\ [Next]_vars => Recorded'
  <2> SUFFICES ASSUME Typed, Recorded, [Next]_vars,
                      NEW u \in Tasks
               PROVE  RecordOf(u)'
    BY DEF Recorded
  <2>0. TypeOK
    BY DEF Typed
  <2>1. ASSUME NEW t \in Tasks, UNCHANGED audit, pc[t] \notin {"reply", "done", "lost"},
               (\E o : Finish(t, o)) \/ (\E s \in Steps \ {"reply", "done", "lost"} :
                                            Goto(t, s) /\ UNCHANGED out)
        PROVE  RecordOf(u)'
    BY <2>0, <2>1 DEF Finish, Goto, TypeOK, Recorded, RecordOf
  <2>2. ASSUME NEW t \in Tasks, Accept(t)
        PROVE  (\E o : Finish(t, o)) \/ (\E s \in Steps \ {"reply", "done", "lost"} :
                                            Goto(t, s) /\ UNCHANGED out)
    BY <2>2, RequestAssumption DEF Accept, Deny, Ops, Steps
  <2>3. ASSUME NEW t \in Tasks, Audit(t)
        PROVE  RecordOf(u)'
    <3>1. /\ \/ audit' = [audit EXCEPT ![t] = Append(audit[t], out[t].result)]
             \/ AuditMayFail /\ audit' = audit
          /\ audit[t] = <<>> /\ pc' = [pc EXCEPT ![t] = "reply"] /\ out' = out
      BY <2>3 DEF Audit, Goto, Recorded, RecordOf
    <3>2. Append(<<>>, out[t].result) = <<out[t].result>>
      OBVIOUS
    <3> QED
      BY <2>0, <3>1, <3>2 DEF TypeOK, Recorded, RecordOf
  <2>4. ASSUME NEW t \in Tasks, Reply(t)
        PROVE  RecordOf(u)'
    BY <2>0, <2>4 DEF Reply, Goto, TypeOK, Recorded, RecordOf
  <2>5. ASSUME NEW t \in Tasks,
               Stat(t) \/ ReadData(t) \/ OpenDir(t) \/ CasCheck(t) \/ MakeParent(t)
                 \/ WriteTemp(t) \/ SyncTemp(t) \/ Persist(t) \/ PostStat(t)
        PROVE  /\ UNCHANGED audit /\ pc[t] \notin {"reply", "done", "lost"}
               /\ (\E o : Finish(t, o)) \/ (\E s \in Steps \ {"reply", "done", "lost"} :
                                               Goto(t, s) /\ UNCHANGED out)
    BY <2>5 DEF Stat, ReadData, OpenDir, CasCheck, MakeParent, WriteTemp, SyncTemp, Persist,
                PostStat, Fail, Deny, Steps
  <2>6. ASSUME NEW t \in Tasks, ScanEntry(t)
        PROVE  /\ UNCHANGED audit /\ pc[t] \notin {"reply", "done", "lost"}
               /\ UNCHANGED <<pc, out>> \/ \E o : Finish(t, o)
    BY <2>6 DEF ScanEntry
  <2>7. ASSUME UNCHANGED <<pc, out, audit>>
        PROVE  RecordOf(u)'
    BY <2>7 DEF Recorded, RecordOf
  <2>8. CASE \E p \in Paths : Local(p)
    BY <2>7, <2>8 DEF Local, LocalWrite, LocalDelete
  <2>9. CASE Crash
    BY <2>0, <2>9 DEF Crash, Recorded, RecordOf, TypeOK, Active
  <2>10. CASE UNCHANGED vars
    BY <2>7, <2>10 DEF vars
  <2>11. ASSUME NEW t \in Tasks, Accept(t)
         PROVE  UNCHANGED audit /\ pc[t] \notin {"reply", "done", "lost"}
    BY <2>11 DEF Accept
  <2> QED
    BY <2>1, <2>2, <2>3, <2>4, <2>5, <2>6, <2>7, <2>8, <2>9, <2>10, <2>11 DEF Next, Task
<1> QED
  BY <1>1, <1>2, TypedInductive, PTL DEF Spec

(* With a log that can be written, no answer leaves without its one entry.   *)
THEOREM AuditTheorem ==
    ASSUME ~AuditMayFail
    PROVE  Spec => []AuditedBeforeAnswer
<1>1. Recorded => AuditedBeforeAnswer
  BY DEF Recorded, RecordOf, AuditedBeforeAnswer
<1> QED
  BY <1>1, RecordTheorem, PTL

-----------------------------------------------------------------------------
(* A read-only daemon.  No writer passes its first question, so none of     *)
(* the steps that touch temporary files or rename is ever reached.          *)
Writing == {"cas", "parent", "temp", "sync", "rename", "poststat"}
NoWriterUnderway ==
    policy.mode = "ReadOnly" => \A t \in Tasks : pc[t] \notin Writing

LEMMA ReadOnlyInductive == Spec => []NoWriterUnderway
<1>1. Init => NoWriterUnderway
  BY DEF Init, NoWriterUnderway, Writing
<1>2. Typed /\ NoWriterUnderway /\ [Next]_vars => NoWriterUnderway'
  <2> SUFFICES ASSUME Typed, NoWriterUnderway, [Next]_vars, policy'.mode = "ReadOnly",
                      NEW u \in Tasks
               PROVE  pc'[u] \notin Writing
    BY DEF NoWriterUnderway
  <2>0. TypeOK /\ OwnSteps
    BY DEF Typed
  <2>1. policy' = policy
    BY DEF Next, Task, Local, Accept, Stat, ReadData, OpenDir, ScanEntry, CasCheck, MakeParent,
           WriteTemp, SyncTemp, Persist, PostStat, Audit, Reply, LocalWrite, LocalDelete, Crash,
           env, vars
  <2>2. pc[u] \notin Writing /\ \A t \in Tasks : pc[t] \notin Writing
    BY <2>1 DEF NoWriterUnderway
  <2>3. ASSUME NEW t \in Tasks, NEW s, Goto(t, s), s \notin Writing
        PROVE  pc'[u] \notin Writing
    BY <2>0, <2>2, <2>3 DEF Goto, TypeOK
  <2>4. ASSUME NEW t \in Tasks, NEW o, Finish(t, o)
        PROVE  pc'[u] \notin Writing
    BY <2>3, <2>4 DEF Finish, Writing
  <2>5. ASSUME NEW t \in Tasks, Accept(t) PROVE pc'[u] \notin Writing
    <3>1. CASE t \in Writers
      BY <2>1, <2>4, <2>5, <3>1 DEF Accept, WritesAllowed, Deny
    <3>2. CASE t \notin Writers
      BY <2>3, <2>4, <2>5, <3>2, RequestAssumption DEF Accept, Writers, Ops, Deny, Writing
    <3> QED
      BY <3>1, <3>2
  <2>6. ASSUME NEW t \in Tasks, Stat(t) \/ ReadData(t) \/ OpenDir(t) \/ ScanEntry(t)
        PROVE  pc'[u] \notin Writing
    BY <2>2, <2>3, <2>4, <2>6 DEF Stat, ReadData, OpenDir, ScanEntry, Fail, Deny, Writing
  <2>7. ASSUME NEW t \in Tasks, \/ CasCheck(t) \/ MakeParent(t) \/ WriteTemp(t) \/ SyncTemp(t)
                                \/ Persist(t) \/ PostStat(t)
        PROVE  FALSE
    BY <2>2, <2>7 DEF CasCheck, MakeParent, WriteTemp, SyncTemp, Persist, PostStat, Writing
  <2>8. ASSUME NEW t \in Tasks, Audit(t) \/ Reply(t) PROVE pc'[u] \notin Writing
    BY <2>3, <2>8 DEF Audit, Reply, Writing
  <2>9. CASE \E p \in Paths : Local(p)
    BY <2>2, <2>9 DEF Local, LocalWrite, LocalDelete
  <2>10. CASE Crash
    BY <2>0, <2>2, <2>10 DEF Crash, TypeOK, Writing
  <2>11. CASE UNCHANGED vars
    BY <2>2, <2>11 DEF vars
  <2> QED
    BY <2>5, <2>6, <2>7, <2>8, <2>9, <2>10, <2>11 DEF Next, Task
<1> QED
  BY <1>1, <1>2, TypedInductive, PTL DEF Spec

THEOREM ReadOnlyTheorem == Spec => ReadOnlyNeverChanges
<1>1. Typed /\ NoWriterUnderway /\ [Next]_vars
        => [policy.mode = "ReadOnly"
              => (UNCHANGED temps /\ (UNCHANGED <<dir, folders>> \/ edits' # edits))]_vars
  <2> SUFFICES ASSUME Typed, NoWriterUnderway, Next, policy.mode = "ReadOnly"
               PROVE  UNCHANGED temps /\ (UNCHANGED <<dir, folders>> \/ edits' # edits)
    OBVIOUS
  <2>1. ASSUME NEW t \in Tasks, Task(t) PROVE UNCHANGED <<temps, dir, folders>>
    BY <2>1 DEF Task, NoWriterUnderway, Writing, Accept, Stat, ReadData, OpenDir, ScanEntry,
                CasCheck, MakeParent, WriteTemp, SyncTemp, Persist, PostStat, Audit, Reply, fs
  <2>2. ASSUME NEW p \in Paths, Local(p) PROVE UNCHANGED temps /\ edits' # edits
    BY <2>2 DEF Local, LocalWrite, LocalDelete, Typed, TypeOK
  <2>3. CASE Crash
    BY <2>3 DEF Crash, fs
  <2> QED
    BY <2>1, <2>2, <2>3 DEF Next
<1> QED
  BY <1>1, ReadOnlyInductive, TypedInductive, PTL DEF Spec, ReadOnlyNeverChanges

-----------------------------------------------------------------------------
(* Contents.  A content waiting to be renamed into place is newer than      *)
(* every content a name stands for, and no two tasks wait with the same.    *)
Staged(t) == pc[t] \in {"sync", "rename"}
Fresh ==
    /\ \A p \in Paths : dir[p].id <= clock
    /\ \A t \in Tasks : Staged(t) => /\ mine[t] \in 1 .. clock
                                     /\ \A p \in Paths : dir[p].id # mine[t]
    /\ \A t, u \in Tasks : Staged(t) /\ Staged(u) /\ t # u => mine[t] # mine[u]

(* Most steps leave contents alone and stage nothing.                      *)
Quiet == UNCHANGED <<dir, clock, mine>> /\ \A u \in Tasks : Staged(u)' => Staged(u)
Loud(t) == WriteTemp(t) \/ Persist(t)

LEMMA QuietSteps ==
    ASSUME Typed, [Next]_vars
    PROVE  Quiet \/ (\E t \in Tasks : Loud(t)) \/ (\E p \in Paths : Local(p))
<1>0. TypeOK /\ OwnSteps
  BY DEF Typed
<1>1. ASSUME NEW t \in Tasks, NEW s, Goto(t, s), s \notin {"sync", "rename"},
             UNCHANGED <<dir, clock, mine>>
      PROVE  Quiet
  BY <1>0, <1>1 DEF Goto, Quiet, Staged, TypeOK
<1>2. ASSUME NEW t \in Tasks, NEW o, Finish(t, o), UNCHANGED <<dir, clock, mine>>
      PROVE  Quiet
  BY <1>1, <1>2 DEF Finish
<1>3. ASSUME NEW t \in Tasks, Accept(t) PROVE Quiet
  BY <1>1, <1>2, <1>3, RequestAssumption DEF Accept, Deny, Ops, env
<1>4. ASSUME NEW t \in Tasks, Stat(t) \/ ReadData(t) \/ OpenDir(t) \/ CasCheck(t)
                                \/ MakeParent(t) \/ PostStat(t) \/ Audit(t) \/ Reply(t)
      PROVE  Quiet
  BY <1>1, <1>2, <1>4
  DEF Stat, ReadData, OpenDir, CasCheck, MakeParent, PostStat, Audit, Reply, Fail, Deny, env, fs,
      work
<1>5. ASSUME NEW t \in Tasks, ScanEntry(t) PROVE Quiet
  BY <1>2, <1>5 DEF ScanEntry, env, fs, Quiet, Staged
<1>6. ASSUME NEW t \in Tasks, SyncTemp(t) PROVE Quiet
  <2>1. UNCHANGED <<dir, clock, mine>> /\ Staged(t)
    BY <1>6 DEF SyncTemp, env, work, Staged
  <2>2. \A u \in Tasks : u # t => pc'[u] = pc[u]
    BY <1>0, <1>6 DEF SyncTemp, Fail, Finish, Goto, TypeOK
  <2> QED
    BY <2>1, <2>2 DEF Quiet, Staged
<1>7. CASE Crash
  BY <1>0, <1>7 DEF Crash, Quiet, Staged, TypeOK, env, fs, work
<1>8. CASE UNCHANGED vars
  BY <1>8 DEF vars, Quiet, Staged
<1> QED
  BY <1>3, <1>4, <1>5, <1>6, <1>7, <1>8 DEF Next, Task, Loud

LEMMA FreshInductive == Spec => []Fresh
<1>1. Init => Fresh
  BY EnvironmentAssumption DEF Init, Fresh, Staged
<1>2. Typed /\ Fresh /\ [Next]_vars => Fresh'
  <2> SUFFICES ASSUME Typed, Fresh, [Next]_vars PROVE Fresh'
    OBVIOUS
  <2>0. TypeOK /\ OwnSteps /\ clock \in Nat /\ \A p \in Paths : dir[p].id \in Nat
    BY DEF Typed, TypeOK, Entry
  <2>1. CASE Quiet
    BY <2>1 DEF Quiet, Fresh, Staged
  <2>2. ASSUME NEW t \in Tasks, WriteTemp(t) PROVE Fresh'
    <3>1. CASE \E kind \in IoKinds : Fail(t, kind)
      BY <2>0, <2>2, <3>1 DEF WriteTemp, Fail, Finish, Goto, Fresh, Staged, TypeOK
    <3>2. CASE Goto(t, "sync")
      <4>1. /\ dir' = dir /\ clock' = clock + 1
            /\ mine' = [mine EXCEPT ![t] = clock + 1] /\ pc' = [pc EXCEPT ![t] = "sync"]
        BY <2>0, <2>2, <3>2 DEF WriteTemp, Fail, Finish, Goto, TypeOK
      <4>2. \A u \in Tasks : u # t => mine'[u] = mine[u] /\ (Staged(u)' <=> Staged(u))
        BY <2>0, <4>1 DEF Staged, TypeOK
      <4>3. mine'[t] = clock + 1
        BY <2>0, <4>1 DEF TypeOK
      <4>4. \A u \in Tasks : u # t /\ Staged(u) => mine[u] \in 1 .. clock
        BY DEF Fresh
      <4> QED
        BY <2>0, <4>1, <4>2, <4>3, <4>4 DEF Fresh
    <3> QED
      BY <2>2, <3>1, <3>2 DEF WriteTemp
  <2>3. ASSUME NEW t \in Tasks, Persist(t) PROVE Fresh'
    <3>0. Target[t] \in Paths /\ Staged(t) /\ clock' = clock /\ mine' = mine
      BY <2>0, <2>3, RequestAssumption DEF Persist, OwnSteps, StepsOf, Ops, Staged, env, work
    <3>1. ~Staged(t)' /\ \A u \in Tasks : u # t => (Staged(u)' <=> Staged(u))
      BY <2>0, <2>3 DEF Persist, Fail, Finish, Goto, Staged, TypeOK
    <3>2. \A p \in Paths : dir'[p].id \in {dir[p].id, mine[t]}
      <4>1. dir' = dir \/ dir' = [dir EXCEPT ![Target[t]] = [id |-> mine[t], to |-> Target[t]]]
        BY <2>3 DEF Persist, Become, File
      <4>2. dir \in [Paths -> Entry]
        BY <2>0 DEF TypeOK
      <4> QED
        BY <4>1, <4>2, <3>0
    <3> QED
      BY <2>0, <3>0, <3>1, <3>2 DEF Fresh
  <2>4. ASSUME NEW q \in Paths, LocalWrite(q) PROVE Fresh'
    <3>1. clock' = clock + 1 /\ UNCHANGED <<pc, mine>>
      BY <2>4 DEF LocalWrite, work
    <3>2. \A p \in Paths : dir'[p].id \in {dir[p].id, clock + 1}
      BY <2>0, <2>4 DEF LocalWrite, Become, File, TypeOK
    <3> QED
      BY <2>0, <3>1, <3>2 DEF Fresh, Staged
  <2>5. ASSUME NEW q \in Paths, LocalDelete(q) PROVE Fresh'
    <3>1. UNCHANGED <<clock, pc, mine>>
      BY <2>5 DEF LocalDelete, work
    <3>2. \A p \in Paths : dir'[p].id \in {dir[p].id, 0}
      BY <2>0, <2>5 DEF LocalDelete, Become, File, TypeOK
    <3> QED
      BY <2>0, <3>1, <3>2 DEF Fresh, Staged
  <2> QED
    BY <2>1, <2>2, <2>3, <2>4, <2>5, QuietSteps DEF Loud, Local
<1> QED
  BY <1>1, <1>2, TypedInductive, PTL DEF Spec

(* What once stopped being shown under a path is never shown there again:   *)
(* every change of a path brings a content that was not shown anywhere.     *)
Unstaged(m) == \A u \in Tasks : Staged(u) => mine[u] # m

LEMMA NeverShownAgain ==
    ASSUME Typed, Fresh, [Next]_vars, NEW m \in 1 .. clock, Unstaged(m)
    PROVE  /\ clock' \in Nat /\ m \in 1 .. clock' /\ Unstaged(m)'
           /\ \A p \in Paths : Shown(dir, p) # m => Shown(dir', p) # m
<1>0. TypeOK /\ OwnSteps /\ clock \in Nat /\ \A p \in Paths : dir[p].to \in Paths
  BY DEF Typed, TypeOK, Entry
<1>1. CASE Quiet
  BY <1>0, <1>1 DEF Quiet, Unstaged
<1>2. ASSUME NEW t \in Tasks, WriteTemp(t)
      PROVE  clock' \in Nat /\ m \in 1 .. clock' /\ Unstaged(m)' /\ dir' = dir
  <2>1. dir' = dir /\ clock' \in {clock, clock + 1}
    BY <1>2 DEF WriteTemp
  <2>2. \A u \in Tasks : Staged(u)' => (Staged(u) /\ mine'[u] = mine[u]) \/ mine'[u] = clock + 1
    BY <1>0, <1>2 DEF WriteTemp, Staged, Fail, Finish, Goto, TypeOK
  <2> QED
    BY <1>0, <2>1, <2>2 DEF Unstaged
<1>3. ASSUME NEW t \in Tasks, Persist(t)
      PROVE  /\ clock' = clock /\ Unstaged(m)'
             /\ \A p \in Paths : Shown(dir', p) \in {Shown(dir, p), mine[t]}
             /\ mine[t] # m
  <2>1. Target[t] \in Paths /\ Staged(t) /\ clock' = clock /\ mine' = mine
    BY <1>0, <1>3, RequestAssumption DEF Persist, OwnSteps, StepsOf, Ops, Staged, env, work
  <2>2. \A u \in Tasks : Staged(u)' => Staged(u)
    BY <1>0, <1>3 DEF Persist, Fail, Finish, Goto, Staged, TypeOK
  <2>3. dir' = dir \/ dir' = [dir EXCEPT ![Target[t]] = [id |-> mine[t], to |-> Target[t]]]
    BY <1>3 DEF Persist, Become, File
  <2>4. ASSUME NEW p \in Paths PROVE Shown(dir', p) \in {Shown(dir, p), mine[t]}
    <3>1. dir \in [Paths -> Entry] /\ dir[p].to \in Paths
      BY <1>0 DEF TypeOK
    <3>2. CASE dir' = dir
      BY <3>2 DEF Shown
    <3>3. CASE dir' = [dir EXCEPT ![Target[t]] = [id |-> mine[t], to |-> Target[t]]]
      BY <2>1, <3>1, <3>3 DEF Shown
    <3> QED
      BY <2>3, <3>2, <3>3
  <2> QED
    BY <2>1, <2>2, <2>4 DEF Unstaged
<1>4. ASSUME NEW q \in Paths, LocalWrite(q)
      PROVE  /\ clock' = clock + 1 /\ Unstaged(m)'
             /\ \A p \in Paths : Shown(dir', p) \in {Shown(dir, p), clock + 1}
  <2>1. clock' = clock + 1 /\ UNCHANGED <<mine, pc>>
    BY <1>4 DEF LocalWrite, work
  <2>2. dir' = [dir EXCEPT ![q] = [id |-> clock + 1, to |-> q]]
    BY <1>4 DEF LocalWrite, Become, File
  <2>3. \A p \in Paths : Shown(dir', p) \in {Shown(dir, p), clock + 1}
    BY <1>0, <2>2 DEF Shown, TypeOK
  <2> QED
    BY <2>1, <2>3 DEF Unstaged, Staged
<1>5. ASSUME NEW q \in Paths, LocalDelete(q)
      PROVE  /\ clock' = clock /\ Unstaged(m)'
             /\ \A p \in Paths : Shown(dir', p) \in {Shown(dir, p), 0}
  <2>1. UNCHANGED <<clock, mine, pc>>
    BY <1>5 DEF LocalDelete, work
  <2>2. dir' = [dir EXCEPT ![q] = [id |-> 0, to |-> q]]
    BY <1>5 DEF LocalDelete, Become, File
  <2>3. \A p \in Paths : Shown(dir', p) \in {Shown(dir, p), 0}
    BY <1>0, <2>2 DEF Shown, TypeOK
  <2> QED
    BY <2>1, <2>3 DEF Unstaged, Staged
<1> QED
  BY <1>0, <1>1, <1>2, <1>3, <1>4, <1>5, QuietSteps DEF Loud, Local, Quiet

-----------------------------------------------------------------------------
(* Readings.  The mtime a read answered is that of the content v its stat    *)
(* saw.  The data is either v or another's, and then v was replaced between  *)
(* stat and read and this path will never show it again.                    *)
PairOK(p, data, m) ==
    \E v \in 1 .. clock : m = Mtime(v) /\ (data = v \/ (Unstaged(v) /\ Shown(dir, p) # v))

(* The clock cannot tell v from another content there has been.             *)
Shared(v) == \E w \in 1 .. clock : w # v /\ Mtime(w) = Mtime(v)

SoundAt(t) ==
    /\ pc[t] = "read"
          => \E v \in 1 .. clock : got[t] = Mtime(v) /\ Unstaged(v) /\ ~(Size(v) > Cap(t))
    /\ Op[t] = "read" /\ AnsweredOk(t)
          => /\ PairOK(Target[t], out[t].data, out[t].mtime)
             /\ \E v \in 1 .. clock : out[t].mtime = Mtime(v) /\ ~(Size(v) > Cap(t))
    /\ Op[t] = "edit" /\ pc[t] # "idle"
          => PairOK(Target[t], base[t].data, base[t].mtime)
    /\ Op[t] = "edit" /\ pc[t] \in {"parent", "temp", "sync", "rename"} /\ ~raced[t]
          => LET s == Shown(dir, Target[t]) IN
             Mtime(s) = base[t].mtime /\ (s = base[t].data \/ Shared(s))
Sound ==
    /\ \A l \in learned : PairOK(l.path, l.data, l.mtime)
    /\ \A t \in Tasks : SoundAt(t)

LEMMA MtimeFine == ASSUME Grain = 1, NEW v \in Nat PROVE Mtime(v) = v
BY DEF Mtime

LEMMA NothingShared == ASSUME Grain = 1, NEW v \in Nat, clock \in Nat PROVE ~Shared(v)
BY MtimeFine DEF Shared

LEMMA ClockGrows ==
    ASSUME Typed, [Next]_vars
    PROVE  clock \in Nat /\ clock' \in Nat /\ clock <= clock'
<1>0. clock \in Nat
  BY DEF Typed, TypeOK
<1>1. clock' = clock \/ clock' = clock + 1
  BY QuietSteps DEF Quiet, Loud, WriteTemp, Persist, Local, LocalWrite, LocalDelete, env
<1> QED
  BY <1>0, <1>1

LEMMA PairStays ==
    ASSUME Typed, Fresh, [Next]_vars, NEW p \in Paths, NEW data, NEW m, PairOK(p, data, m)
    PROVE  PairOK(p, data, m)'
<1>1. PICK v \in 1 .. clock : m = Mtime(v) /\ (data = v \/ (Unstaged(v) /\ Shown(dir, p) # v))
  BY DEF PairOK
<1>2. v \in 1 .. clock'
  BY ClockGrows
<1>3. CASE data = v
  BY <1>1, <1>2, <1>3 DEF PairOK
<1>4. CASE Unstaged(v) /\ Shown(dir, p) # v
  BY <1>1, <1>2, <1>4, NeverShownAgain DEF PairOK
<1> QED
  BY <1>1, <1>3, <1>4

(* What a step leaves of a task that does not take it.                     *)
Still(u) ==
    /\ pc'[u] = pc[u] \/ (pc'[u] = "lost" /\ pc[u] # "idle")
    /\ got'[u] = got[u] /\ out'[u] = out[u] /\ base'[u] = base[u]
    /\ raced[u] => raced'[u]
    /\ Op[u] # "list" => raced'[u] \/ Shown(dir', Target[u]) = Shown(dir, Target[u])

LEMMA StillSound ==
    ASSUME Typed, Fresh, [Next]_vars, NEW u \in Tasks, SoundAt(u), Still(u)
    PROVE  SoundAt(u)'
<1>0. clock \in Nat /\ clock' \in Nat /\ clock <= clock'
  BY ClockGrows
<1>1. ASSUME pc'[u] = "read"
      PROVE  \E v \in 1 .. clock' : got'[u] = Mtime(v) /\ Unstaged(v)' /\ ~(Size(v) > Cap(u))
  <2>1. PICK v \in 1 .. clock : got[u] = Mtime(v) /\ Unstaged(v) /\ ~(Size(v) > Cap(u))
    BY <1>1 DEF SoundAt, Still
  <2>2. v \in 1 .. clock' /\ Unstaged(v)'
    BY <2>1, NeverShownAgain
  <2> QED
    BY <2>1, <2>2 DEF Still
<1>2. ASSUME Op[u] = "read" \/ Op[u] = "edit" PROVE Target[u] \in Paths
  BY <1>2, RequestAssumption
<1>3. ASSUME Op[u] = "read", AnsweredOk(u)'
      PROVE  /\ PairOK(Target[u], out[u].data, out[u].mtime)'
             /\ \E v \in 1 .. clock' : out[u].mtime = Mtime(v) /\ ~(Size(v) > Cap(u))
  <2>1. AnsweredOk(u)
    BY <1>3 DEF Still, AnsweredOk, Answered
  <2>2. /\ PairOK(Target[u], out[u].data, out[u].mtime)
        /\ \E v \in 1 .. clock : out[u].mtime = Mtime(v) /\ ~(Size(v) > Cap(u))
    BY <1>3, <2>1 DEF SoundAt
  <2>3. PairOK(Target[u], out[u].data, out[u].mtime)'
    BY <1>2, <1>3, <2>2, PairStays DEF Still
  <2>4. \A v \in 1 .. clock : v \in 1 .. clock'
    BY <1>0
  <2> QED
    BY <2>2, <2>3, <2>4
<1>4. Op[u] = "edit" /\ pc'[u] # "idle" => PairOK(Target[u], base[u].data, base[u].mtime)'
  BY <1>2, PairStays DEF SoundAt, Still
<1>5. ASSUME Op[u] = "edit", pc'[u] \in {"parent", "temp", "sync", "rename"}, ~raced'[u]
      PROVE  (LET s == Shown(dir, Target[u]) IN
              Mtime(s) = base[u].mtime /\ (s = base[u].data \/ Shared(s)))'
  <2>1. pc[u] \in {"parent", "temp", "sync", "rename"} /\ ~raced[u] /\ base'[u] = base[u]
        /\ Shown(dir', Target[u]) = Shown(dir, Target[u])
    BY <1>5 DEF Still
  <2>2. LET s == Shown(dir, Target[u]) IN
        Mtime(s) = base[u].mtime /\ (s = base[u].data \/ Shared(s))
    BY <1>5, <2>1 DEF SoundAt
  <2>3. \A v \in 1 .. clock : v \in 1 .. clock'
    BY <1>0
  <2> QED
    BY <2>1, <2>2, <2>3 DEF Shared
<1> QED
  BY <1>1, <1>3, <1>4, <1>5 DEF SoundAt, Still, PairOK, Unstaged, Shared, AnsweredOk, Answered

(* A step of one task, of a local program, or a kill leaves the others Still. *)
LEMMA BecomeNotices ==
    ASSUME Typed, NEW d, NEW S, Become(d, S), NEW u \in Tasks, u \notin S
    PROVE  /\ raced[u] => raced'[u]
           /\ Op[u] # "list" => raced'[u] \/ Shown(dir', Target[u]) = Shown(dir, Target[u])
BY DEF Become, Lister

LEMMA OthersStill ==
    ASSUME Typed, NEW t \in Tasks, Task(t), NEW u \in Tasks, u # t
    PROVE  Still(u)
<1>0. TypeOK
  BY DEF Typed
<1>1. pc'[u] = pc[u] /\ out'[u] = out[u]
  BY <1>0 DEF Task, Accept, Stat, ReadData, OpenDir, ScanEntry, CasCheck, MakeParent, WriteTemp,
              SyncTemp, Persist, PostStat, Audit, Reply, Fail, Deny, Finish, Goto, TypeOK
<1>2. got'[u] = got[u] /\ base'[u] = base[u]
  BY <1>0 DEF Task, Accept, Stat, ReadData, OpenDir, ScanEntry, CasCheck, MakeParent, WriteTemp,
              SyncTemp, Persist, PostStat, Audit, Reply, work, TypeOK
<1>3. (dir' = dir /\ raced'[u] = raced[u]) \/ \E d : Become(d, {t})
  BY <1>0 DEF Task, Accept, Stat, ReadData, OpenDir, ScanEntry, CasCheck, MakeParent, WriteTemp,
              SyncTemp, Persist, PostStat, Audit, Reply, fs, TypeOK
<1> QED
  BY <1>1, <1>2, <1>3, BecomeNotices DEF Still

LEMMA LocalStill ==
    ASSUME Typed, NEW p \in Paths, Local(p), NEW u \in Tasks
    PROVE  Still(u)
<1>1. UNCHANGED <<pc, work, out>> /\ \E d : Become(d, {})
  BY DEF Local, LocalWrite, LocalDelete
<1> QED
  BY <1>1, BecomeNotices DEF Still, work

LEMMA CrashStill ==
    ASSUME Typed, Crash \/ UNCHANGED vars, NEW u \in Tasks
    PROVE  Still(u)
BY DEF Crash, Still, Active, fs, work, vars, Typed, TypeOK

(* Every path and moment the invariant speaks of, seen as numbers.         *)
LEMMA ShownNow ==
    ASSUME Typed, Fresh, NEW p \in Paths, Shown(dir, p) # 0
    PROVE  Shown(dir, p) \in 1 .. clock /\ Unstaged(Shown(dir, p))
BY DEF Typed, TypeOK, Entry, Fresh, Shown, Unstaged, Staged

LEMMA ActorSound ==
    ASSUME Typed, Fresh, Sound, [Next]_vars, NEW t \in Tasks, Task(t)
    PROVE  SoundAt(t)'
<1>0. TypeOK /\ OwnSteps /\ SoundAt(t)
  BY DEF Typed, Sound
<1>1. CASE Accept(t)
  <2>1. /\ pc'[t] \in {"audit", "stat", "open", "cas", "parent"}
        /\ Op[t] = "edit" => pc'[t] # "parent"
        /\ pc'[t] = "audit" => out'[t].result # "Ok"
    <3>1. CASE Deny(t, "ReadOnlyMode") \/ Deny(t, "PathNotAllowed")
      BY <1>0, <3>1 DEF Deny, Finish, Goto, Outcome, TypeOK
    <3>2. CASE Goto(t, CASE Op[t] = "read"  -> "stat"
                         [] Op[t] = "list"  -> "open"
                         [] Op[t] = "edit"  -> "cas"
                         [] Op[t] = "write" -> "parent")
      BY <1>0, <3>2, RequestAssumption DEF Goto, Ops, TypeOK
    <3> QED
      BY <1>1, <3>1, <3>2 DEF Accept
  <2>2. Op[t] = "edit" => PairOK(Target[t], base'[t].data, base'[t].mtime)
    BY <1>0, <1>1 DEF Accept, TypeOK, Sound
  <2>3. UNCHANGED <<dir, clock, mine>> /\ \A u \in Tasks : Staged(u)' <=> Staged(u)
    BY <1>0, <1>1, RequestAssumption DEF Accept, Deny, Finish, Goto, Staged, TypeOK, env, Ops
  <2> QED
    BY <2>1, <2>2, <2>3 DEF SoundAt, AnsweredOk, Answered, PairOK, Unstaged, Staged
<1>2. CASE Stat(t)
  <2>0. Target[t] \in Paths /\ Op[t] = "read"
    BY <1>0, <1>2, RequestAssumption DEF Stat, OwnSteps, StepsOf, Ops
  <2>1. CASE pc'[t] = "read"
    <3>1. Shown(dir, Target[t]) # 0 /\ got'[t] = Mtime(Shown(dir, Target[t]))
          /\ ~(Size(Shown(dir, Target[t])) > Cap(t))
      BY <1>0, <1>2, <2>1 DEF Stat, Fail, Deny, Finish, Goto, TypeOK
    <3>2. Shown(dir, Target[t]) \in 1 .. clock' /\ Unstaged(Shown(dir, Target[t]))
      BY <1>2, <2>0, <3>1, ShownNow DEF Stat, env
    <3>3. mine' = mine /\ \A u \in Tasks : Staged(u)' => Staged(u)
      BY <1>0, <1>2 DEF Stat, Fail, Deny, Finish, Goto, Staged, TypeOK
    <3> QED
      BY <1>2, <2>0, <2>1, <3>1, <3>2, <3>3 DEF SoundAt, AnsweredOk, Answered, Unstaged
  <2>2. CASE pc'[t] # "read"
    <3>1. pc'[t] = "audit" /\ out'[t].result # "Ok"
      BY <1>0, <1>2, <2>2 DEF Stat, Fail, Deny, Finish, Goto, Outcome, TypeOK
    <3> QED
      BY <2>0, <3>1 DEF SoundAt, AnsweredOk, Answered
  <2> QED
    BY <2>1, <2>2
<1>3. CASE ReadData(t)
  <2>0. Target[t] \in Paths /\ Op[t] = "read"
    BY <1>0, <1>3, RequestAssumption DEF ReadData, OwnSteps, StepsOf, Ops
  <2>1. pc'[t] = "audit" /\ UNCHANGED <<dir, clock, mine, got>>
    BY <1>0, <1>3 DEF ReadData, Fail, Finish, Goto, TypeOK, env, fs, work
  <2>2. CASE out'[t].result # "Ok"
    BY <2>0, <2>1, <2>2 DEF SoundAt, AnsweredOk, Answered
  <2>3. CASE out'[t].result = "Ok"
    <3>1. out'[t].data = Shown(dir, Target[t]) /\ out'[t].mtime = got[t]
      BY <1>0, <1>3, <2>3 DEF ReadData, Fail, Finish, Outcome, TypeOK
    <3>2. PICK v \in 1 .. clock : got[t] = Mtime(v) /\ Unstaged(v) /\ ~(Size(v) > Cap(t))
      BY <1>0, <1>3 DEF SoundAt, ReadData
    <3>3. \A u \in Tasks : Staged(u)' => Staged(u)
      BY <1>0, <1>3 DEF ReadData, Fail, Finish, Goto, Staged, TypeOK
    <3>4. v \in 1 .. clock' /\ Unstaged(v)' /\ Shown(dir', Target[t]) = Shown(dir, Target[t])
      BY <2>1, <3>2, <3>3 DEF Unstaged
    <3>5. PairOK(Target[t], out[t].data, out[t].mtime)'
      BY <3>1, <3>2, <3>4 DEF PairOK
    <3> QED
      BY <2>0, <2>1, <3>1, <3>2, <3>4, <3>5 DEF SoundAt
  <2> QED
    BY <2>2, <2>3
<1>4. CASE CasCheck(t)
  <2>0. Target[t] \in Paths /\ Op[t] = "edit" /\ pc[t] = "cas"
    BY <1>0, <1>4, RequestAssumption DEF CasCheck, OwnSteps, StepsOf, Ops
  <2>1. UNCHANGED <<dir, clock, mine, base>> /\ \A u \in Tasks : Staged(u)' => Staged(u)
    BY <1>0, <1>4 DEF CasCheck, Deny, Finish, Goto, Staged, TypeOK, env, work
  <2>2. PairOK(Target[t], base[t].data, base[t].mtime)
    BY <1>0, <2>0 DEF SoundAt
  <2>3. ASSUME pc'[t] = "parent"
        PROVE  LET s == Shown(dir, Target[t]) IN
               Mtime(s) = base[t].mtime /\ (s = base[t].data \/ Shared(s))
    <3>1. Mtime(Shown(dir, Target[t])) = base[t].mtime
      BY <1>0, <1>4, <2>3 DEF CasCheck, Deny, Finish, Goto, TypeOK
    <3>2. PICK v \in 1 .. clock : /\ base[t].mtime = Mtime(v)
                                  /\ base[t].data = v \/ Shown(dir, Target[t]) # v
      BY <2>2 DEF PairOK
    <3> QED
      BY <3>1, <3>2 DEF Shared
  <2>4. pc'[t] \in {"parent", "audit"}
    BY <1>0, <1>4 DEF CasCheck, Deny, Finish, Goto, TypeOK
  <2> QED
    BY <2>0, <2>1, <2>2, <2>3, <2>4 DEF SoundAt, AnsweredOk, Answered, PairOK, Unstaged, Shared
<1>5. CASE OpenDir(t) \/ ScanEntry(t)
  <2>1. Op[t] = "list" /\ pc'[t] # "read"
    BY <1>0, <1>5, RequestAssumption
    DEF OpenDir, ScanEntry, OwnSteps, StepsOf, Ops, Fail, Finish, Goto, TypeOK
  <2> QED
    BY <2>1 DEF SoundAt
<1>6. ASSUME Op[t] \in {"edit", "write"}, pc[t] # "idle", UNCHANGED <<base, raced, dir>>,
             pc'[t] \in {"temp", "sync", "rename", "poststat", "audit"},
             pc'[t] \in {"temp", "sync", "rename"} => pc[t] \in {"parent", "temp", "sync"}
      PROVE  SoundAt(t)'
  <2>1. Op[t] = "edit" => PairOK(Target[t], base[t].data, base[t].mtime)'
    BY <1>0, <1>6, RequestAssumption, PairStays DEF SoundAt
  <2>2. \A v : Shared(v) => Shared(v)'
    BY ClockGrows DEF Shared
  <2> QED
    BY <1>0, <1>6, <2>1, <2>2 DEF SoundAt, PairOK, Unstaged, Shared
<1>7. CASE MakeParent(t) \/ WriteTemp(t) \/ SyncTemp(t) \/ PostStat(t)
  <2>1. Op[t] \in {"edit", "write"} /\ pc[t] # "idle"
    BY <1>0, <1>7, RequestAssumption
    DEF MakeParent, WriteTemp, SyncTemp, PostStat, OwnSteps, StepsOf, Ops
  <2>2. UNCHANGED <<base, raced, dir>>
    BY <1>7 DEF MakeParent, WriteTemp, SyncTemp, PostStat, work, fs
  <2>3. /\ pc'[t] \in {"temp", "sync", "rename", "poststat", "audit"}
        /\ pc'[t] \in {"temp", "sync", "rename"} => pc[t] \in {"parent", "temp", "sync"}
    BY <1>0, <1>7 DEF MakeParent, WriteTemp, SyncTemp, PostStat, Fail, Finish, Goto, TypeOK
  <2> QED
    BY <1>6, <2>1, <2>2, <2>3
<1>8. CASE Persist(t)
  <2>1. Op[t] \in {"edit", "write"} /\ pc'[t] \in {"poststat", "audit"} /\ base' = base
        /\ pc[t] # "idle"
    BY <1>0, <1>8, RequestAssumption
    DEF Persist, OwnSteps, StepsOf, Ops, Fail, Finish, Goto, TypeOK, work
  <2>2. Op[t] = "edit" => PairOK(Target[t], base[t].data, base[t].mtime)'
    BY <1>0, <2>1, RequestAssumption, PairStays DEF SoundAt
  <2> QED
    BY <2>1, <2>2 DEF SoundAt, PairOK, Unstaged
<1>9. CASE Audit(t) \/ Reply(t)
  <2>1. UNCHANGED <<dir, clock, mine, base, out>> /\ pc[t] \in {"audit", "reply"}
        /\ pc'[t] \in {"reply", "done"} /\ \A u \in Tasks : Staged(u)' => Staged(u)
    BY <1>0, <1>9 DEF Audit, Reply, Goto, TypeOK, env, fs, work, Staged
  <2> QED
    BY <1>0, <2>1 DEF SoundAt, AnsweredOk, Answered, PairOK, Unstaged
<1> QED
  BY <1>1, <1>2, <1>3, <1>4, <1>5, <1>7, <1>8, <1>9 DEF Task

LEMMA SoundInductive == Spec => []Sound
<1>1. Init => Sound
  BY DEF Init, Sound, SoundAt, AnsweredOk, Answered
<1>2. Typed /\ Fresh /\ Sound /\ [Next]_vars => Sound'
  <2> SUFFICES ASSUME Typed, Fresh, Sound, [Next]_vars PROVE Sound'
    OBVIOUS
  <2>1. ASSUME NEW l \in learned PROVE PairOK(l.path, l.data, l.mtime)'
    <3>1. l.path \in Paths
      BY DEF Typed, TypeOK
    <3> QED
      BY <3>1, PairStays DEF Sound
  <2>2. ASSUME NEW t \in Tasks, Reply(t), Op[t] = "read", out[t].result = "Ok"
        PROVE  PairOK(Target[t], out[t].data, out[t].mtime)'
    <3>1. PairOK(Target[t], out[t].data, out[t].mtime) /\ Target[t] \in Paths
      BY <2>2, RequestAssumption DEF Reply, Sound, SoundAt, AnsweredOk, Answered
    <3>2. UNCHANGED <<dir, clock, mine, out>> /\ \A u \in Tasks : Staged(u)' => Staged(u)
      BY <2>2 DEF Reply, fs, work, Goto, Staged, Typed, TypeOK
    <3> QED
      BY <3>1, <3>2 DEF PairOK, Unstaged
  <2>3. learned' = learned
        \/ \E t \in Tasks :
              /\ Reply(t) /\ Op[t] = "read" /\ out[t].result = "Ok"
              /\ learned' = learned \cup {[path |-> Target[t], data |-> out[t].data,
                                           mtime |-> out[t].mtime]}
    BY DEF Next, Task, Local, Accept, Stat, ReadData, OpenDir, ScanEntry, CasCheck, MakeParent,
           WriteTemp, SyncTemp, Persist, PostStat, Audit, Reply, LocalWrite, LocalDelete, Crash,
           env, vars
  <2>4. \A l \in learned' : PairOK(l.path, l.data, l.mtime)'
    <3>1. CASE learned' = learned
      BY <2>1, <3>1
    <3>2. ASSUME NEW t \in Tasks, Reply(t), Op[t] = "read", out[t].result = "Ok",
                 learned' = learned \cup {[path |-> Target[t], data |-> out[t].data,
                                           mtime |-> out[t].mtime]}
          PROVE  \A l \in learned' : PairOK(l.path, l.data, l.mtime)'
      <4>1. out' = out
        BY <3>2 DEF Reply
      <4> QED
        BY <2>1, <2>2, <3>2, <4>1 DEF PairOK
    <3> QED
      BY <2>3, <3>1, <3>2
  <2>5. ASSUME NEW u \in Tasks PROVE SoundAt(u)'
    <3>1. SoundAt(u)
      BY DEF Sound
    <3>2. ASSUME NEW t \in Tasks, Task(t) PROVE SoundAt(u)'
      <4>1. CASE u = t
        BY <3>2, <4>1, ActorSound
      <4>2. CASE u # t
        BY <3>1, <3>2, <4>2, OthersStill, StillSound
      <4> QED
        BY <4>1, <4>2
    <3>3. ASSUME NEW p \in Paths, Local(p) PROVE SoundAt(u)'
      BY <3>1, <3>3, LocalStill, StillSound
    <3>4. CASE Crash \/ UNCHANGED vars
      BY <3>1, <3>4, CrashStill, StillSound
    <3> QED
      BY <3>2, <3>3, <3>4 DEF Next
  <2> QED
    BY <2>4, <2>5 DEF Sound
<1> QED
  BY <1>1, <1>2, TypedInductive, FreshInductive, PTL DEF Spec

(* What the mtimes promise however coarse the file system's clock is: an     *)
(* edit whose path was not touched after its mtime check replaces a content  *)
(* with the mtime the cloud knows, and it is what the cloud read unless the  *)
(* clock cannot tell it from another content there has been; and a read      *)
(* beyond the cap is recognisably stale with the same exception.             *)
OnlyTheTickDeceives ==
    \A t \in Tasks :
        /\ pc[t] = "rename" /\ Op[t] = "edit" /\ ~raced[t]
              => LET s == Shown(dir, Target[t]) IN
                 Mtime(s) = base[t].mtime /\ (s = base[t].data \/ Shared(s))
        /\ Op[t] = "read" /\ AnsweredOk(t) /\ Size(out[t].data) > Cap(t)
              => out[t].mtime # Mtime(out[t].data) \/ Shared(out[t].data)

(* For any number of tasks, links, local changes, failures and kills, the    *)
(* two system calls of a read and the mtime check of an edit err only within *)
(* one tick of the clock (read_file.rs:98).                                  *)
THEOREM TickTheorem == Spec => []OnlyTheTickDeceives
<1>1. Sound => OnlyTheTickDeceives
  <2> SUFFICES ASSUME Sound, NEW t \in Tasks
               PROVE  /\ pc[t] = "rename" /\ Op[t] = "edit" /\ ~raced[t]
                            => LET s == Shown(dir, Target[t]) IN
                               Mtime(s) = base[t].mtime /\ (s = base[t].data \/ Shared(s))
                      /\ Op[t] = "read" /\ AnsweredOk(t) /\ Size(out[t].data) > Cap(t)
                            => out[t].mtime # Mtime(out[t].data) \/ Shared(out[t].data)
    BY DEF OnlyTheTickDeceives
  <2>1. SoundAt(t)
    BY DEF Sound
  <2> QED
    BY <2>1 DEF SoundAt, Shared
<1> QED
  BY <1>1, SoundInductive, PTL

(* With a clock that tells saves apart, an edit whose path was not touched   *)
(* after its mtime check replaces exactly the bytes the cloud read.         *)
THEOREM EditTheorem ==
    ASSUME Grain = 1
    PROVE  Spec => []EditReplacesWhatWasRead
<1>1. Typed /\ OnlyTheTickDeceives => EditReplacesWhatWasRead
  BY NothingShared, RequestAssumption
  DEF OnlyTheTickDeceives, EditReplacesWhatWasRead, Typed, TypeOK, Entry, Shown
<1> QED
  BY <1>1, TickTheorem, TypedInductive, PTL DEF Spec

(* With such a clock, a read that exceeds the cap is recognisably stale.     *)
THEOREM OversizeTheorem ==
    ASSUME Grain = 1
    PROVE  Spec => []OversizeIsStale
<1>1. Typed /\ OnlyTheTickDeceives => OversizeIsStale
  BY NothingShared DEF OnlyTheTickDeceives, OversizeIsStale, Typed, TypeOK, Outcomes
<1> QED
  BY <1>1, TickTheorem, TypedInductive, PTL DEF Spec

-----------------------------------------------------------------------------
(* Directories.  What a name stands for lies in a directory that exists, and *)
(* a write that has passed its first step has one to write to.               *)
Housed ==
    /\ \A p \in Paths : Present(dir, p) => DirOf[p] \in folders
    /\ \A t \in Tasks : pc[t] \in {"temp", "sync", "rename"} => DirOf[Target[t]] \in folders

LEMMA HousedInductive == Spec => []Housed
<1>1. Init => Housed
  BY DEF Init, Housed
<1>2. Typed /\ Housed /\ [Next]_vars => Housed'
  <2> SUFFICES ASSUME Typed, Housed, [Next]_vars PROVE Housed'
    OBVIOUS
  <2>0. TypeOK /\ OwnSteps
    BY DEF Typed
  <2>1. ASSUME UNCHANGED <<dir, folders>>,
               \A t \in Tasks : pc'[t] \in {"temp", "sync", "rename"}
                                  => pc[t] \in {"temp", "sync", "rename"}
        PROVE  Housed'
    BY <2>1 DEF Housed, Present
  <2>2. ASSUME NEW t \in Tasks, NEW s, Goto(t, s), UNCHANGED <<dir, folders>>,
               s \in {"temp", "sync", "rename"} => pc[t] \in {"temp", "sync", "rename"}
        PROVE  Housed'
    BY <2>0, <2>1, <2>2 DEF Goto, TypeOK
  <2>3. ASSUME NEW t \in Tasks, NEW o, Finish(t, o), UNCHANGED <<dir, folders>>
        PROVE  Housed'
    BY <2>2, <2>3 DEF Finish
  <2>4. ASSUME NEW t \in Tasks, Accept(t) PROVE Housed'
    BY <2>2, <2>3, <2>4, RequestAssumption DEF Accept, Deny, Ops
  <2>5. ASSUME NEW t \in Tasks, \/ Stat(t) \/ ReadData(t) \/ OpenDir(t) \/ CasCheck(t)
                                \/ PostStat(t) \/ Audit(t) \/ Reply(t)
        PROVE  Housed'
    BY <2>2, <2>3, <2>5
    DEF Stat, ReadData, OpenDir, CasCheck, PostStat, Audit, Reply, Fail, Deny, fs
  <2>6. ASSUME NEW t \in Tasks, ScanEntry(t) PROVE Housed'
    BY <2>1, <2>3, <2>6 DEF ScanEntry, fs
  <2>7. ASSUME NEW t \in Tasks, WriteTemp(t) \/ SyncTemp(t) PROVE Housed'
    BY <2>2, <2>3, <2>7 DEF WriteTemp, SyncTemp, Fail
  <2>8. ASSUME NEW t \in Tasks, MakeParent(t) PROVE Housed'
    <3>1. CASE \E kind \in IoKinds : Fail(t, kind) /\ folders' = folders
      BY <2>3, <2>8, <3>1 DEF MakeParent, Fail
    <3>2. CASE Goto(t, "temp") /\ folders' = folders \cup {DirOf[Target[t]]}
      BY <2>0, <2>8, <3>2 DEF MakeParent, Goto, Housed, Present, TypeOK
    <3> QED
      BY <2>8, <3>1, <3>2 DEF MakeParent
  <2>9. ASSUME NEW p \in Paths, NEW v \in Nat, dir' = [dir EXCEPT ![p] = File(v, p)],
               folders \subseteq folders', v # 0 => DirOf[p] \in folders'
        PROVE  \A q \in Paths : Present(dir', q) => DirOf[q] \in folders'
    BY <2>0, <2>9 DEF Housed, Present, File, TypeOK
  <2>10. ASSUME NEW t \in Tasks, Persist(t) PROVE Housed'
    <3>1. Target[t] \in Paths /\ mine[t] \in Nat /\ DirOf[Target[t]] \in folders
      BY <2>0, <2>10, RequestAssumption DEF Persist, OwnSteps, StepsOf, Ops, Housed, TypeOK
    <3>2. CASE \E kind \in IoKinds : Fail(t, kind) /\ dir' = dir
      BY <2>3, <2>10, <3>2 DEF Persist, Fail
    <3>3. CASE Goto(t, "poststat") /\ dir' = [dir EXCEPT ![Target[t]] = File(mine[t], Target[t])]
      <4>1. folders' = folders
        BY <2>10 DEF Persist
      <4>2. \A q \in Paths : Present(dir', q) => DirOf[q] \in folders'
        BY <2>9, <3>1, <3>3, <4>1
      <4> QED
        BY <2>0, <3>3, <4>1, <4>2 DEF Goto, Housed, Present, TypeOK
    <3> QED
      BY <2>10, <3>2, <3>3 DEF Persist, Become
  <2>11. ASSUME NEW p \in Paths, Local(p) PROVE Housed'
    <3> DEFINE Kept == \A q \in Paths : Present(dir', q) => DirOf[q] \in folders'
    <3>1. ASSUME LocalWrite(p) PROVE Kept
      <4>1. /\ clock + 1 \in Nat /\ dir' = [dir EXCEPT ![p] = File(clock + 1, p)]
            /\ folders \subseteq folders' /\ DirOf[p] \in folders'
        BY <2>0, <3>1 DEF LocalWrite, Become, TypeOK
      <4> QED
        BY <2>9, <4>1
    <3>2. ASSUME LocalDelete(p) PROVE Kept
      <4>1. dir' = [dir EXCEPT ![p] = File(0, p)] /\ folders' = folders
        BY <3>2 DEF LocalDelete, Become
      <4> QED
        BY <2>9, <4>1
    <3>3. Kept
      BY <2>11, <3>1, <3>2 DEF Local
    <3>4. folders \subseteq folders'
      BY <2>11 DEF Local, LocalWrite, LocalDelete
    <3>5. pc' = pc
      BY <2>11 DEF Local, LocalWrite, LocalDelete
    <3> QED
      BY <3>3, <3>4, <3>5 DEF Housed, Present
  <2>12. CASE Crash
    BY <2>0, <2>1, <2>12 DEF Crash, fs, TypeOK
  <2>13. CASE UNCHANGED vars
    BY <2>1, <2>13 DEF vars
  <2> QED
    BY <2>4, <2>5, <2>6, <2>7, <2>8, <2>10, <2>11, <2>12, <2>13 DEF Next, Task
<1> QED
  BY <1>1, <1>2, TypedInductive, PTL DEF Spec

-----------------------------------------------------------------------------
(* Refinement.  Every step of the handlers is a step of the abstract store  *)
(* or changes nothing it can see: a write takes effect at its rename, once, *)
(* and nothing that is answered with an error ever did, but for the         *)
(* directory it may have made (write_file.rs:99-101).                       *)
THEOREM StoreTheorem == Spec => ImplementsStore
<1> DEFINE phase == [t \in Tasks |-> Phase(t)]
<1>1. Init => Store!Init
  BY EnvironmentAssumption DEF Init, Store!Init, Store!Entry, Entry, Phase
<1>2. Typed /\ Fresh /\ Housed /\ [Next]_vars => [Store!Next]_<<dir, folders, phase, edits>>
  <2> SUFFICES ASSUME Typed, Fresh, Housed, [Next]_vars
               PROVE  Store!Next \/ UNCHANGED <<dir, folders, phase, edits>>
    OBVIOUS
  <2>0. TypeOK /\ OwnSteps
    BY DEF Typed
  <2>1. ASSUME NEW t \in Tasks, \A u \in Tasks : u # t => Phase(u)' = Phase(u)
        PROVE  phase' = [phase EXCEPT ![t] = Phase(t)']
    BY <2>1
  <2>2. ASSUME NEW t \in Tasks, Task(t) PROVE \A u \in Tasks : u # t => Phase(u)' = Phase(u)
    <3>1. \A u \in Tasks : u # t => pc'[u] = pc[u] /\ out'[u] = out[u]
      BY <2>2, OthersStill, <2>0
      DEF Task, Accept, Stat, ReadData, OpenDir, ScanEntry, CasCheck, MakeParent, WriteTemp,
          SyncTemp, Persist, PostStat, Audit, Reply, Fail, Deny, Finish, Goto, TypeOK
    <3> QED
      BY <3>1 DEF Phase
  <2>16. ASSUME NEW t \in Tasks, Task(t) PROVE edits' = edits
    BY <2>16
    DEF Task, Accept, Stat, ReadData, OpenDir, ScanEntry, CasCheck, MakeParent, WriteTemp,
        SyncTemp, Persist, PostStat, Audit, Reply, env
  <2>3. ASSUME NEW t \in Tasks, Task(t), Phase(t)' = Phase(t), UNCHANGED <<dir, folders>>
        PROVE  UNCHANGED <<dir, folders, phase, edits>>
    BY <2>2, <2>3, <2>16
  <2>4. ASSUME NEW t \in Tasks, NEW o, Finish(t, o),
               t \in Writers /\ o.result = "Ok" <=> pc[t] = "poststat",
               pc[t] \notin {"done", "lost", "audit", "reply"}
        PROVE  Phase(t)' = Phase(t)
    BY <2>0, <2>4 DEF Phase, Finish, Goto, TypeOK
  <2>5. ASSUME NEW t \in Tasks, NEW s, Goto(t, s),
               pc[t] \in {"idle", "stat", "open", "cas", "parent", "temp", "sync"},
               s \in {"stat", "read", "open", "scan", "cas", "parent", "temp", "sync", "rename"}
        PROVE  Phase(t)' = Phase(t)
    BY <2>0, <2>5 DEF Phase, Goto, TypeOK
  <2>6. ASSUME NEW t \in Tasks, Accept(t) PROVE UNCHANGED <<dir, folders, phase, edits>>
    <3>1. CASE Deny(t, "ReadOnlyMode") \/ Deny(t, "PathNotAllowed")
      BY <2>3, <2>4, <2>6, <3>1 DEF Accept, Deny, Outcome, Task
    <3>2. CASE Goto(t, CASE Op[t] = "read"  -> "stat"
                         [] Op[t] = "list"  -> "open"
                         [] Op[t] = "edit"  -> "cas"
                         [] Op[t] = "write" -> "parent")
      BY <2>3, <2>5, <2>6, <3>2, RequestAssumption DEF Accept, Ops, Task
    <3> QED
      BY <2>6, <3>1, <3>2 DEF Accept
  <2>7. ASSUME NEW t \in Tasks, Stat(t) \/ CasCheck(t) \/ WriteTemp(t) \/ SyncTemp(t) \/ OpenDir(t)
        PROVE  UNCHANGED <<dir, folders, phase, edits>>
    <3>1. UNCHANGED <<dir, folders>>
      BY <2>7 DEF Stat, CasCheck, WriteTemp, SyncTemp, OpenDir, fs
    <3>2. Phase(t)' = Phase(t)
      BY <2>4, <2>5, <2>7 DEF Stat, CasCheck, WriteTemp, SyncTemp, OpenDir, Fail, Deny, Outcome
    <3> QED
      BY <2>3, <2>7, <3>1, <3>2 DEF Task
  <2>8. ASSUME NEW t \in Tasks, ReadData(t) \/ ScanEntry(t)
        PROVE  UNCHANGED <<dir, folders, phase, edits>>
    <3>1. UNCHANGED <<dir, folders>> /\ t \notin Writers
      BY <2>0, <2>8, RequestAssumption DEF ReadData, ScanEntry, fs, Writers, OwnSteps, StepsOf,
                                           Ops
    <3>2. Phase(t)' = Phase(t)
      BY <2>4, <2>8, <3>1 DEF ReadData, ScanEntry, Fail, Phase
    <3> QED
      BY <2>3, <2>8, <3>1, <3>2 DEF Task
  <2>9. ASSUME NEW t \in Tasks, PostStat(t) PROVE UNCHANGED <<dir, folders, phase, edits>>
    <3>1. UNCHANGED <<dir, folders>> /\ t \in Writers
      BY <2>0, <2>9, RequestAssumption DEF PostStat, fs, Writers, OwnSteps, StepsOf, Ops
    <3>2. Phase(t)' = Phase(t)
      BY <2>4, <2>9, <3>1 DEF PostStat, Outcome
    <3> QED
      BY <2>3, <2>9, <3>1, <3>2 DEF Task
  <2>10. ASSUME NEW t \in Tasks, Audit(t) PROVE UNCHANGED <<dir, folders, phase, edits>>
    <3>1. UNCHANGED <<dir, folders>> /\ Phase(t)' = Phase(t)
      BY <2>0, <2>10 DEF Audit, fs, Goto, Phase, TypeOK
    <3> QED
      BY <2>3, <2>10, <3>1 DEF Task
  <2>11. ASSUME NEW t \in Tasks, Reply(t) PROVE Store!Next
    <3>1. UNCHANGED <<dir, folders>> /\ phase' = [phase EXCEPT ![t] = Phase(t)']
      BY <2>1, <2>2, <2>11 DEF Reply, fs, Task
    <3>2. \/ Phase(t)' = "ok" /\ Phase(t) = IF t \in Writers THEN "applied" ELSE "open"
          \/ Phase(t)' = "refused" /\ Phase(t) = "open"
      BY <2>0, <2>11 DEF Reply, Goto, Phase, TypeOK
    <3>3. Store!Answer(t) \/ Store!Refuse(t)
      BY <2>11, <2>16, <3>1, <3>2 DEF Store!Answer, Store!Refuse, Task
    <3> QED
      BY <3>3 DEF Store!Next
  <2>17. ASSUME NEW t \in Tasks, MakeParent(t)
         PROVE  Store!Next \/ UNCHANGED <<dir, folders, phase, edits>>
    <3>0. t \in Writers /\ pc[t] = "parent" /\ dir' = dir
      BY <2>0, <2>17, RequestAssumption DEF MakeParent, OwnSteps, StepsOf, Ops, Writers
    <3>1. Phase(t)' = Phase(t) /\ Phase(t) = "open"
      BY <2>4, <2>5, <2>17, <3>0 DEF MakeParent, Fail, Outcome, Phase
    <3>2. phase' = phase /\ phase[t] = "open"
      BY <2>2, <2>17, <3>1 DEF Task
    <3>3. CASE folders' = folders
      BY <2>3, <2>17, <3>0, <3>1, <3>3 DEF Task
    <3>4. CASE folders' = folders \cup {DirOf[Target[t]]}
      <4>1. Store!MakeFolder(t)
        BY <2>16, <2>17, <3>0, <3>2, <3>4 DEF Store!MakeFolder, Task
      <4> QED
        BY <4>1 DEF Store!Next
    <3> QED
      BY <2>17, <3>3, <3>4 DEF MakeParent
  <2>12. ASSUME NEW t \in Tasks, Persist(t)
         PROVE  Store!Next \/ UNCHANGED <<dir, folders, phase, edits>>
    <3>0. /\ Target[t] \in Paths /\ t \in Writers /\ pc[t] = "rename"
          /\ folders' = folders /\ DirOf[Target[t]] \in folders
      BY <2>0, <2>12, RequestAssumption DEF Persist, OwnSteps, StepsOf, Ops, Writers, Housed
    <3>1. CASE \E kind \in IoKinds : Fail(t, kind) /\ dir' = dir
      BY <2>3, <2>4, <2>12, <3>0, <3>1 DEF Fail, Outcome, Task
    <3>2. CASE Goto(t, "poststat") /\ Become([dir EXCEPT ![Target[t]] = File(mine[t], Target[t])], {t})
      <4>1. phase[t] = "open" /\ phase' = [phase EXCEPT ![t] = "applied"]
        <5>1. Phase(t) = "open" /\ Phase(t)' = "applied"
          BY <2>0, <3>0, <3>2 DEF Phase, Goto, TypeOK
        <5> QED
          BY <2>1, <2>2, <2>12, <5>1 DEF Task
      <4>2. dir' = [dir EXCEPT ![Target[t]] = [id |-> mine[t], to |-> Target[t]]]
        BY <3>2 DEF Become, File
      <4>3. dir'[Target[t]] = [id |-> mine[t], to |-> Target[t]]
        BY <2>0, <3>0, <4>2 DEF TypeOK
      <4>4. mine[t] # 0 /\ \A q \in Paths : dir[q].id # mine[t]
        BY <2>0, <3>0 DEF Fresh, Staged, TypeOK
      <4>5. Store!Fresh(dir'[Target[t]], Target[t])
        BY <4>3, <4>4 DEF Store!Fresh
      <4>6. dir' = [dir EXCEPT ![Target[t]] = dir'[Target[t]]]
        BY <4>2, <4>3
      <4>7. Store!Apply(t)
        BY <2>12, <2>16, <3>0, <4>1, <4>5, <4>6 DEF Store!Apply, Task
      <4> QED
        BY <4>7 DEF Store!Next
    <3> QED
      BY <2>12, <3>1, <3>2 DEF Persist
  <2>13. ASSUME NEW p \in Paths, Local(p) PROVE Store!Next
    <3>1. phase' = phase /\ edits' = edits + 1
      BY <2>13 DEF Local, LocalWrite, LocalDelete, Phase
    <3>2. PICK v \in {0, clock + 1} : dir' = [dir EXCEPT ![p] = [id |-> v, to |-> p]]
      BY <2>13 DEF Local, LocalWrite, LocalDelete, Become, File
    <3>3. dir'[p] = [id |-> v, to |-> p]
      BY <2>0, <3>2 DEF TypeOK
    <3>4. v = 0 \/ (v # 0 /\ \A q \in Paths : dir[q].id # v)
      BY <2>0 DEF Fresh, TypeOK, Entry
    <3>5. \/ Store!Fresh(dir'[p], p) /\ folders' = folders \cup {DirOf[p]}
          \/ dir'[p] = [id |-> 0, to |-> p] /\ folders' = folders
      <4>1. \/ v = clock + 1 /\ folders' = folders \cup {DirOf[p]}
            \/ v = 0 /\ folders' = folders
        BY <2>0, <2>13, <3>3 DEF Local, LocalWrite, LocalDelete, Become, File, TypeOK
      <4> QED
        BY <2>0, <3>3, <3>4, <4>1 DEF Store!Fresh, TypeOK
    <3>6. dir' = [dir EXCEPT ![p] = dir'[p]]
      BY <3>2, <3>3
    <3>7. Store!LocalChange(p)
      BY <3>1, <3>5, <3>6 DEF Store!LocalChange
    <3> QED
      BY <3>7 DEF Store!Next
  <2>14. CASE Crash
    <3>1. UNCHANGED <<dir, folders>> /\ edits' = edits
      BY <2>14 DEF Crash, fs, env
    <3>2. ASSUME NEW u \in Tasks
          PROVE  Phase(u)' = Phase(u) \/ (Phase(u) \in {"open", "applied"} /\ Phase(u)' = "lost")
      BY <2>0, <2>14 DEF Crash, Active, Phase, TypeOK
    <3>3. Store!Lose
      BY <3>1, <3>2 DEF Store!Lose
    <3> QED
      BY <3>3 DEF Store!Next
  <2>15. CASE UNCHANGED vars
    BY <2>15 DEF vars, Phase
  <2> QED
    BY <2>6, <2>7, <2>8, <2>9, <2>10, <2>11, <2>12, <2>13, <2>14, <2>15, <2>17 DEF Next, Task
<1> QED
  BY <1>1, <1>2, TypedInductive, FreshInductive, HousedInductive, PTL
  DEF Spec, ImplementsStore, Store!Spec

-----------------------------------------------------------------------------
(* Temporary files.  Only three steps touch them; whatever else a task does *)
(* leaves them, and neither starts nor ends at a step that keeps one.       *)
Keeping(t) == pc[t] \in {"sync", "rename", "lost"}

LEMMA KeepingOthers ==
    ASSUME Typed, NEW t \in Tasks, Task(t), NEW u \in Tasks, u # t
    PROVE  mine'[u] = mine[u] /\ (Keeping(u)' <=> Keeping(u))
<1>0. TypeOK
  BY DEF Typed
<1>1. pc'[u] = pc[u]
  BY <1>0 DEF Task, Accept, Stat, ReadData, OpenDir, ScanEntry, CasCheck, MakeParent, WriteTemp,
              SyncTemp, Persist, PostStat, Audit, Reply, Fail, Deny, Finish, Goto, TypeOK
<1>2. mine'[u] = mine[u]
  BY <1>0 DEF Task, Accept, Stat, ReadData, OpenDir, ScanEntry, CasCheck, MakeParent, WriteTemp,
              SyncTemp, Persist, PostStat, Audit, Reply, work, TypeOK
<1> QED
  BY <1>1, <1>2 DEF Keeping

LEMMA KeepingActor ==
    ASSUME Typed, NEW t \in Tasks, Task(t)
    PROVE  \/ temps' = temps /\ mine'[t] = mine[t] /\ (Keeping(t) => Keeping(t)')
           \/ temps' = temps \ {mine[t]}
           \/ temps' = temps \cup {mine'[t]} /\ Keeping(t)' /\ ~Keeping(t)
<1>0. TypeOK
  BY DEF Typed
<1>1. CASE WriteTemp(t)
  <2>1. CASE \E kind \in IoKinds : Fail(t, kind) /\ UNCHANGED <<clock, mine, temps>>
    BY <1>1, <2>1 DEF WriteTemp, Keeping
  <2>2. CASE Goto(t, "sync") /\ mine' = [mine EXCEPT ![t] = clock + 1]
             /\ temps' = temps \cup {clock + 1}
    BY <1>0, <1>1, <2>2 DEF WriteTemp, Keeping, Goto, TypeOK
  <2> QED
    BY <1>1, <2>1, <2>2 DEF WriteTemp
<1>2. CASE SyncTemp(t)
  BY <1>0, <1>2 DEF SyncTemp, Goto, Keeping, TypeOK, work
<1>3. CASE Persist(t)
  BY <1>3 DEF Persist
<1>4. CASE \/ Accept(t) \/ Stat(t) \/ ReadData(t) \/ OpenDir(t) \/ ScanEntry(t) \/ CasCheck(t)
           \/ MakeParent(t) \/ PostStat(t) \/ Audit(t) \/ Reply(t)
  BY <1>4 DEF Accept, Stat, ReadData, OpenDir, ScanEntry, CasCheck, MakeParent, PostStat, Audit,
              Reply, fs, work, Keeping
<1> QED
  BY <1>1, <1>2, <1>3, <1>4 DEF Task

(* No temporary file outlives its write, whichever step of whichever task   *)
(* failed: what lies beside a target belongs to a write that is between its  *)
(* creation and its rename, or to a killed daemon.                          *)
THEOREM TempsTheorem == Spec => []NoStrayTemps
<1> USE DEF NoStrayTemps
<1>1. Init => NoStrayTemps
  BY DEF Init
<1>2. Typed /\ NoStrayTemps /\ [Next]_vars => NoStrayTemps'
  <2> SUFFICES ASSUME Typed, NoStrayTemps, [Next]_vars, NEW v \in temps'
               PROVE  \E t \in Tasks : Keeping(t)' /\ v = mine'[t]
    BY DEF Keeping
  <2>0. v \in temps => \E t \in Tasks : Keeping(t) /\ v = mine[t]
    BY DEF Keeping
  <2>1. ASSUME NEW t \in Tasks, Task(t)
        PROVE  \E u \in Tasks : Keeping(u)' /\ v = mine'[u]
    <3>1. CASE /\ v \in temps
               /\ v # mine[t] \/ (mine'[t] = mine[t] /\ (Keeping(t) => Keeping(t)'))
      <4>1. PICK u \in Tasks : Keeping(u) /\ v = mine[u]
        BY <2>0, <3>1
      <4>2. CASE u = t /\ v = mine[t]
        BY <3>1, <4>1, <4>2
      <4>3. CASE u # t
        BY <2>1, <4>1, <4>3, KeepingOthers
      <4> QED
        BY <4>1, <4>2, <4>3
    <3>2. CASE temps' = temps \cup {mine'[t]} /\ Keeping(t)' /\ ~Keeping(t)
      <4>1. CASE v = mine'[t]
        BY <3>2, <4>1
      <4>2. CASE v \in temps
        BY <2>0, <2>1, <3>2, <4>2, KeepingOthers
      <4> QED
        BY <3>2, <4>1, <4>2
    <3>3. CASE temps' = temps /\ mine'[t] = mine[t] /\ (Keeping(t) => Keeping(t)')
      BY <3>1, <3>3
    <3>4. CASE temps' = temps \ {mine[t]}
      BY <3>1, <3>4
    <3> QED
      BY <2>1, <3>2, <3>3, <3>4, KeepingActor
  <2>2. CASE \E p \in Paths : Local(p)
    BY <2>0, <2>2 DEF Local, LocalWrite, LocalDelete, work, Keeping
  <2>3. CASE Crash
    BY <2>0, <2>3 DEF Crash, fs, work, Keeping, Active, Typed, TypeOK
  <2>4. CASE UNCHANGED vars
    BY <2>0, <2>4 DEF vars, Keeping
  <2> QED
    BY <2>1, <2>2, <2>3, <2>4 DEF Next
<1> QED
  BY <1>1, <1>2, TypedInductive, PTL DEF Spec

-----------------------------------------------------------------------------
(* Acknowledgements.  Between its rename and its answer a write whose path   *)
(* nothing else has touched sees its own content there.                     *)
OwnAck(t) ==
    t \in Writers /\ ~raced[t] =>
        /\ pc[t] = "poststat" => Shown(dir, Target[t]) = mine[t]
        /\ AnsweredOk(t) => out[t].mtime \in {Mtime(mine[t]), 0}

LEMMA OthersOwnAck ==
    ASSUME Typed, NEW u \in Tasks, OwnAck(u), Still(u), mine'[u] = mine[u], raced[u] \in BOOLEAN
    PROVE  OwnAck(u)'
BY DEF OwnAck, Still, Writers, AnsweredOk, Answered

LEMMA ActorOwnAck ==
    ASSUME Typed, NEW t \in Tasks, OwnAck(t), Task(t)
    PROVE  OwnAck(t)'
<1>0. TypeOK /\ OwnSteps
  BY DEF Typed
<1>1. ASSUME NEW o, Finish(t, o), o.result # "Ok" PROVE OwnAck(t)'
  BY <1>0, <1>1 DEF Finish, Goto, OwnAck, AnsweredOk, TypeOK
<1>2. ASSUME NEW s \in Steps, Goto(t, s), s \notin {"poststat", "audit", "reply", "done"}
      PROVE  OwnAck(t)'
  BY <1>0, <1>2 DEF Goto, OwnAck, AnsweredOk, Answered, TypeOK
<1>3. CASE Accept(t)
  BY <1>1, <1>2, <1>3, RequestAssumption DEF Accept, Deny, Outcome, Ops, Steps
<1>4. CASE CasCheck(t) \/ MakeParent(t) \/ WriteTemp(t) \/ SyncTemp(t)
  BY <1>1, <1>2, <1>4 DEF CasCheck, MakeParent, WriteTemp, SyncTemp, Deny, Fail, Outcome, Steps
<1>5. CASE Stat(t) \/ ReadData(t) \/ OpenDir(t) \/ ScanEntry(t)
  <2>1. t \notin Writers
    BY <1>0, <1>5, RequestAssumption
    DEF Stat, ReadData, OpenDir, ScanEntry, OwnSteps, StepsOf, Ops, Writers
  <2> QED
    BY <2>1 DEF OwnAck
<1>6. CASE Persist(t)
  <2>0. Target[t] \in Paths /\ mine' = mine
    BY <1>0, <1>6, RequestAssumption DEF Persist, OwnSteps, StepsOf, Ops, work
  <2>1. CASE Goto(t, "poststat") /\ Become([dir EXCEPT ![Target[t]] = File(mine[t], Target[t])], {t})
    <3>1. pc'[t] = "poststat"
      BY <1>0, <2>1 DEF Goto, TypeOK
    <3>2. dir' = [dir EXCEPT ![Target[t]] = [id |-> mine[t], to |-> Target[t]]]
      BY <2>1 DEF Become, File
    <3>3. Shown(dir', Target[t]) = mine[t]
      BY <1>0, <2>0, <3>2 DEF Shown, TypeOK
    <3> QED
      BY <2>0, <3>1, <3>3 DEF OwnAck, AnsweredOk, Answered
  <2> QED
    BY <1>1, <1>6, <2>1 DEF Persist, Fail, Outcome
<1>7. CASE PostStat(t)
  <2>1. UNCHANGED <<mine, raced, dir>>
    BY <1>7 DEF PostStat, fs, work
  <2>2. pc'[t] = "audit" /\ out'[t].mtime \in {Mtime(Shown(dir, Target[t])), 0}
    BY <1>0, <1>7 DEF PostStat, Finish, Goto, Outcome, TypeOK
  <2> QED
    BY <1>7, <2>1, <2>2 DEF OwnAck, PostStat
<1>8. CASE Audit(t) \/ Reply(t)
  <2>1. UNCHANGED <<mine, raced, out>> /\ pc[t] \in {"audit", "reply"} /\ pc'[t] \in {"reply", "done"}
    BY <1>0, <1>8 DEF Audit, Reply, Goto, TypeOK, fs, work
  <2> QED
    BY <2>1 DEF OwnAck, AnsweredOk, Answered
<1> QED
  BY <1>3, <1>4, <1>5, <1>6, <1>7, <1>8 DEF Task

(* The mtime a write is answered with is its own, or 0, unless its path has  *)
(* changed again: never that of what it replaced, for any clock.            *)
THEOREM AckTheorem == Spec => []AckIsOwnUnlessRaced
<1> DEFINE Inv == \A t \in Tasks : OwnAck(t)
<1>1. Init => Inv
  BY DEF Init, OwnAck, AnsweredOk, Answered
<1>2. Typed /\ Inv /\ [Next]_vars => Inv'
  <2> SUFFICES ASSUME Typed, Inv, [Next]_vars, NEW u \in Tasks PROVE OwnAck(u)'
    OBVIOUS
  <2>0. raced[u] \in BOOLEAN /\ OwnAck(u)
    BY DEF Typed, TypeOK
  <2>1. ASSUME NEW t \in Tasks, Task(t) PROVE OwnAck(u)'
    <3>1. CASE u = t
      BY <2>0, <2>1, <3>1, ActorOwnAck
    <3>2. CASE u # t
      BY <2>0, <2>1, <3>2, OthersStill, KeepingOthers, OthersOwnAck
    <3> QED
      BY <3>1, <3>2
  <2>2. ASSUME NEW p \in Paths, Local(p) PROVE OwnAck(u)'
    <3>1. mine' = mine
      BY <2>2 DEF Local, LocalWrite, LocalDelete, work
    <3> QED
      BY <2>0, <2>2, <3>1, LocalStill, OthersOwnAck
  <2>3. CASE Crash \/ UNCHANGED vars
    <3>1. mine' = mine
      BY <2>3 DEF Crash, vars, work
    <3> QED
      BY <2>0, <2>3, <3>1, CrashStill, OthersOwnAck
  <2> QED
    BY <2>1, <2>2, <2>3 DEF Next
<1>3. Inv => AckIsOwnUnlessRaced
  BY DEF OwnAck, AckIsOwnUnlessRaced, Writers
<1> QED
  BY <1>1, <1>2, <1>3, TypedInductive, PTL DEF Spec

-----------------------------------------------------------------------------
(* Absence.  A task that has arrived keeps account of every name that led to *)
(* no file: no write of the daemon takes a file away, so only the arrival    *)
(* and a local removal add to the account.                                   *)
Accounted == \A t \in Tasks : pc[t] # "idle" => Missing(dir) \subseteq holes[t]

(* What a rename or a save puts under a name is a file for all names that    *)
(* lead there.                                                               *)
LEMMA NoNewHole ==
    ASSUME Typed, NEW p \in Paths, NEW v \in Nat \ {0},
           dir' = [dir EXCEPT ![p] = File(v, p)]
    PROVE  Missing(dir') \subseteq Missing(dir)
<1>1. dir \in [Paths -> Entry] /\ \A q \in Paths : dir[q].to \in Paths
  BY DEF Typed, TypeOK, Entry
<1>2. SUFFICES ASSUME NEW q \in Paths, Shown(dir', q) = 0 PROVE Shown(dir, q) = 0
  BY DEF Missing
<1>3. dir'[p] = [id |-> v, to |-> p] /\ \A r \in Paths : r # p => dir'[r] = dir[r]
  BY <1>1 DEF File
<1>4. q # p /\ dir[q].to # p
  BY <1>1, <1>2, <1>3 DEF Shown
<1> QED
  BY <1>1, <1>2, <1>3, <1>4 DEF Shown

LEMMA HolesGrow ==
    ASSUME Typed, Fresh, [Next]_vars
    PROVE  \/ \E t \in Tasks : /\ Accept(t) /\ dir' = dir
                               /\ holes' = [holes EXCEPT ![t] = Missing(dir)]
           \/ holes' = holes /\ Missing(dir') \subseteq Missing(dir)
           \/ holes' = [u \in Tasks |-> holes[u] \cup Missing(dir')]
<1>0. TypeOK /\ OwnSteps
  BY DEF Typed
<1>1. ASSUME NEW t \in Tasks, Accept(t)
      PROVE  dir' = dir /\ holes' = [holes EXCEPT ![t] = Missing(dir)]
  BY <1>1 DEF Accept
<1>2. ASSUME NEW t \in Tasks, Task(t), ~Accept(t), ~Persist(t)
      PROVE  holes' = holes /\ dir' = dir
  BY <1>2 DEF Task, Stat, ReadData, OpenDir, ScanEntry, CasCheck, MakeParent, WriteTemp, SyncTemp,
              PostStat, Audit, Reply, fs
<1>3. ASSUME NEW t \in Tasks, Persist(t)
      PROVE  holes' = holes /\ Missing(dir') \subseteq Missing(dir)
  <2>0. Target[t] \in Paths
    BY <1>0, <1>3, RequestAssumption DEF Persist, OwnSteps, StepsOf, Ops
  <2>1. mine[t] \in Nat \ {0}
    BY <1>0, <1>3 DEF Persist, Fresh, Staged, TypeOK
  <2>2. dir' = dir \/ dir' = [dir EXCEPT ![Target[t]] = File(mine[t], Target[t])]
    BY <1>3 DEF Persist, Become
  <2>3. holes' = holes
    BY <1>3 DEF Persist
  <2> QED
    BY <2>0, <2>1, <2>2, <2>3, NoNewHole
<1>4. ASSUME NEW p \in Paths, LocalWrite(p)
      PROVE  holes' = holes /\ Missing(dir') \subseteq Missing(dir)
  <2>1. clock + 1 \in Nat \ {0}
    BY <1>0 DEF TypeOK
  <2> QED
    BY <1>4, <2>1, NoNewHole DEF LocalWrite, Become
<1>5. ASSUME NEW p \in Paths, LocalDelete(p)
      PROVE  holes' = [u \in Tasks |-> holes[u] \cup Missing(dir')]
  BY <1>5 DEF LocalDelete
<1>6. CASE Crash \/ UNCHANGED vars
  BY <1>6 DEF Crash, vars, fs
<1> QED
  BY <1>1, <1>2, <1>3, <1>4, <1>5, <1>6 DEF Next, Local

LEMMA AccountKept == Spec => []Accounted
<1>1. Init => Accounted
  BY DEF Init, Accounted
<1>2. Typed /\ Fresh /\ Accounted /\ [Next]_vars => Accounted'
  <2> SUFFICES ASSUME Typed, Fresh, Accounted, [Next]_vars,
                      NEW u \in Tasks, pc'[u] # "idle"
               PROVE  Missing(dir') \subseteq holes'[u]
    BY DEF Accounted
  <2>0. TypeOK
    BY DEF Typed
  <2>1. ASSUME pc[u] = "idle" PROVE Accept(u)
    <3>1. ASSUME NEW t \in Tasks, Task(t), t # u PROVE FALSE
      BY <2>1, <3>1, OthersStill DEF Still
    <3>2. Task(u) => Accept(u)
      BY <2>1 DEF Task, Accept, Stat, ReadData, OpenDir, ScanEntry, CasCheck, MakeParent,
                  WriteTemp, SyncTemp, Persist, PostStat, Audit, Reply
    <3>3. ASSUME (\E p \in Paths : Local(p)) \/ Crash \/ UNCHANGED vars PROVE FALSE
      <4>1. pc'[u] = pc[u]
        BY <2>0, <2>1, <3>3 DEF Local, LocalWrite, LocalDelete, Crash, Active, TypeOK, vars
      <4> QED
        BY <2>1, <4>1
    <3> QED
      BY <3>1, <3>2, <3>3 DEF Next
  <2>2. ASSUME NEW t \in Tasks, Accept(t), dir' = dir,
               holes' = [holes EXCEPT ![t] = Missing(dir)]
        PROVE  Missing(dir') \subseteq holes'[u]
    <3>1. CASE u = t
      BY <2>0, <2>2, <3>1 DEF TypeOK
    <3>2. CASE u # t
      <4>1. pc[u] # "idle"
        BY <2>2, <3>2, OthersStill DEF Still, Task
      <4> QED
        BY <2>0, <2>2, <3>2, <4>1 DEF TypeOK, Accounted
    <3> QED
      BY <3>1, <3>2
  <2>3. CASE pc[u] = "idle"
    BY <2>1, <2>2, <2>3 DEF Accept
  <2>4. CASE pc[u] # "idle"
    BY <2>2, <2>4, HolesGrow DEF Accounted
  <2> QED
    BY <2>3, <2>4
<1> QED
  BY <1>1, <1>2, TypedInductive, FreshInductive, PTL DEF Spec

(* A listing has accounted for every name of its directory: as yet to be    *)
(* looked at, as found, or as missing.                                      *)
Covered(t) ==
    /\ Op[t] = "read" /\ Answered(t) /\ out[t].error = "NotFound" => Target[t] \in holes[t]
    /\ Lister(t) /\ Answered(t) /\ out[t].error = "NotFound" => InDir(t) \subseteq holes[t]
    /\ Lister(t) /\ pc[t] = "scan"
          => InDir(t) \subseteq todo[t] \cup found[t] \cup holes[t] \cup skipped[t]
    /\ Lister(t) /\ AnsweredOk(t)
          => InDir(t) \subseteq found[t] \cup holes[t] \cup skipped[t]

LEMMA HolesStay ==
    ASSUME Typed, Fresh, Accounted, [Next]_vars, NEW u \in Tasks, pc[u] # "idle"
    PROVE  holes[u] \subseteq holes'[u]
BY HolesGrow DEF Accept, Typed, TypeOK

LEMMA OthersCovered ==
    ASSUME Typed, Fresh, Accounted, [Next]_vars, NEW u \in Tasks, Covered(u), Still(u),
           UNCHANGED <<todo[u], found[u], skipped[u]>>
    PROVE  Covered(u)'
<1>1. pc'[u] \in {"scan", "audit", "reply", "done"} => pc'[u] = pc[u] /\ pc[u] # "idle"
  BY DEF Still
<1> QED
  BY <1>1, HolesStay DEF Covered, Still, Answered, AnsweredOk, InDir, Lister

LEMMA ActorCovered ==
    ASSUME Typed, Fresh, Housed, Accounted, [Next]_vars, NEW t \in Tasks, Covered(t), Task(t)
    PROVE  Covered(t)'
<1>0. TypeOK /\ OwnSteps /\ out[t] \in Outcomes
  BY DEF Typed, TypeOK
<1>1. ASSUME NEW o, Finish(t, o), o.result # "Ok", o.error # "NotFound" PROVE Covered(t)'
  BY <1>0, <1>1 DEF Finish, Goto, Covered, AnsweredOk, TypeOK
<1>2. ASSUME NEW s \in Steps, Goto(t, s), s \notin {"scan", "audit", "reply", "done"}
      PROVE  Covered(t)'
  BY <1>0, <1>2 DEF Goto, Covered, AnsweredOk, Answered, TypeOK
<1>3. CASE Accept(t)
  BY <1>1, <1>2, <1>3, RequestAssumption DEF Accept, Deny, Outcome, Ops, Steps
<1>4. CASE Stat(t)
  <2>1. Target[t] \in Paths /\ Op[t] = "read" /\ holes' = holes
    BY <1>0, <1>4, RequestAssumption DEF Stat, OwnSteps, StepsOf, Ops
  <2>2. CASE Shown(dir, Target[t]) = 0
    BY <1>4, <2>1, <2>2 DEF Stat, Missing, Accounted, Covered, Lister
  <2>3. CASE Shown(dir, Target[t]) # 0
    BY <1>1, <1>2, <1>4, <2>3 DEF Stat, Fail, Deny, Outcome, Steps
  <2> QED
    BY <2>2, <2>3
<1>5. CASE ReadData(t)
  <2>1. Op[t] = "read"
    BY <1>0, <1>5, RequestAssumption DEF ReadData, OwnSteps, StepsOf, Ops
  <2>2. CASE Fail(t, "Io")
    BY <1>1, <2>2 DEF Fail, Outcome
  <2>3. ASSUME NEW v, NEW m, Finish(t, Outcome("Ok", "none", v, m)) PROVE Covered(t)'
    BY <1>0, <2>1, <2>3 DEF Finish, Goto, Outcome, Covered, Lister, TypeOK
  <2> QED
    BY <1>5, <2>2, <2>3 DEF ReadData
<1>6. CASE OpenDir(t)
  <2>1. CASE \E kind \in IoKinds \ {"NotFound"} : Fail(t, kind)
    BY <1>1, <2>1 DEF Fail, Outcome
  <2>2. CASE Goto(t, "scan") /\ todo' = [todo EXCEPT ![t] = InDir(t)]
    <3>1. pc'[t] = "scan" /\ todo'[t] = InDir(t)
      BY <1>0, <2>2 DEF Goto, InDir, TypeOK
    <3> QED
      BY <3>1 DEF Covered, Answered, AnsweredOk, InDir
  <2>3. CASE Target[t] \notin folders /\ Fail(t, "NotFound")
    <3>1. Op[t] = "list" /\ holes' = holes /\ pc[t] = "open" /\ pc'[t] = "audit"
          /\ out'[t].result = "Error"
      BY <1>0, <1>6, <2>3, RequestAssumption
      DEF OpenDir, OwnSteps, StepsOf, Ops, Fail, Finish, Goto, Outcome, fs, TypeOK
    <3>2. \A p \in InDir(t) : p \in Paths /\ ~Present(dir, p)
      BY <2>3 DEF Housed, InDir
    <3>3. InDir(t) \subseteq Missing(dir)
      BY <3>2 DEF Present, Missing, Shown
    <3>4. InDir(t) \subseteq holes[t]
      BY <3>1, <3>3 DEF Accounted
    <3> QED
      BY <3>1, <3>4 DEF Covered, AnsweredOk, InDir
  <2> QED
    BY <1>6, <2>1, <2>2, <2>3 DEF OpenDir
<1>7. CASE ScanEntry(t)
  <2>0. Lister(t) /\ Op[t] # "read" /\ UNCHANGED <<dir, holes>>
    BY <1>0, <1>7, RequestAssumption DEF ScanEntry, OwnSteps, StepsOf, Ops, Lister, fs
  <2>1. CASE /\ todo[t] = {} /\ Finish(t, Outcome("Ok", "none", 0, 0))
             /\ UNCHANGED <<todo, found, skipped>>
    <3>1. pc'[t] = "audit" /\ out'[t].error # "NotFound"
      BY <1>0, <2>1 DEF Finish, Goto, Outcome, TypeOK
    <3>2. InDir(t) \subseteq found[t] \cup holes[t] \cup skipped[t]
      BY <1>7, <2>0, <2>1 DEF Covered, ScanEntry
    <3> QED
      BY <2>0, <2>1, <3>1, <3>2 DEF Covered, InDir
  <2>2. ASSUME NEW p \in todo[t], UNCHANGED <<pc, out>>,
               todo' = [todo EXCEPT ![t] = @ \ {p}],
               found' = [found EXCEPT ![t] = IF Present(dir, p) THEN @ \cup {p} ELSE @],
               skipped' = skipped
        PROVE  Covered(t)'
    <3>1. pc[t] = "scan" /\ p \in Paths
      BY <1>0, <1>7 DEF ScanEntry, TypeOK
    <3>2. ~Present(dir, p) => p \in holes[t]
      BY <3>1 DEF Present, Missing, Shown, Accounted
    <3>3. /\ todo'[t] = todo[t] \ {p}
          /\ found'[t] = IF Present(dir, p) THEN found[t] \cup {p} ELSE found[t]
      BY <1>0, <2>2 DEF TypeOK
    <3>4. InDir(t) \subseteq todo[t] \cup found[t] \cup holes[t] \cup skipped[t]
      BY <2>0, <3>1 DEF Covered
    <3>5. InDir(t) \subseteq todo'[t] \cup found'[t] \cup holes[t] \cup skipped[t]
      BY <3>2, <3>3, <3>4
    <3> QED
      BY <2>0, <2>2, <3>1, <3>5 DEF Covered, Answered, AnsweredOk, InDir
  <2>3. ASSUME NEW unread \in SUBSET Paths, UNCHANGED <<pc, out, found>>,
               todo' = [todo EXCEPT ![t] = @ \ unread],
               skipped' = [skipped EXCEPT ![t] = @ \cup unread]
        PROVE  Covered(t)'
    <3>1. pc[t] = "scan"
      BY <1>7 DEF ScanEntry
    <3>2. todo'[t] = todo[t] \ unread /\ skipped'[t] = skipped[t] \cup unread
      BY <1>0, <2>3 DEF TypeOK
    <3>3. InDir(t) \subseteq todo[t] \cup found[t] \cup holes[t] \cup skipped[t]
      BY <2>0, <3>1 DEF Covered
    <3>4. InDir(t) \subseteq todo'[t] \cup found[t] \cup holes[t] \cup skipped'[t]
      BY <3>2, <3>3
    <3> QED
      BY <2>0, <2>3, <3>1, <3>4 DEF Covered, Answered, AnsweredOk, InDir
  <2>4. \A unread \in {{p} : p \in todo[t]} \cup {todo[t]} : unread \in SUBSET Paths
    BY <1>0 DEF TypeOK
  <2> QED
    BY <1>7, <2>1, <2>2, <2>3, <2>4 DEF ScanEntry
<1>8. CASE \/ CasCheck(t) \/ MakeParent(t) \/ WriteTemp(t) \/ SyncTemp(t) \/ Persist(t)
           \/ PostStat(t)
  <2>1. Op[t] \notin {"read", "list"}
    BY <1>0, <1>8, RequestAssumption
    DEF CasCheck, MakeParent, WriteTemp, SyncTemp, Persist, PostStat, OwnSteps, StepsOf, Ops
  <2> QED
    BY <2>1 DEF Covered, Lister
<1>9. CASE Audit(t) \/ Reply(t)
  <2>1. /\ UNCHANGED <<holes, out, found, skipped>>
        /\ pc[t] \in {"audit", "reply"} /\ pc'[t] \in {"reply", "done"}
    BY <1>0, <1>9 DEF Audit, Reply, Goto, TypeOK, fs, work
  <2> QED
    BY <2>1 DEF Covered, AnsweredOk, Answered, InDir
<1> QED
  BY <1>3, <1>4, <1>5, <1>6, <1>7, <1>8, <1>9 DEF Task

(* No write of the daemon makes a file seem absent, neither to a read nor to *)
(* a listing that goes through a directory while files in it are replaced;   *)
(* what a listing lacks besides, it could not read.                          *)
THEOREM HidesTheorem == Spec => []ReplacingNeverHides
<1> DEFINE Inv == \A t \in Tasks : Covered(t)
<1>1. Init => Inv
  BY DEF Init, Covered, AnsweredOk, Answered
<1>2. Typed /\ Fresh /\ Housed /\ Accounted /\ Inv /\ [Next]_vars => Inv'
  <2> SUFFICES ASSUME Typed, Fresh, Housed, Accounted, Inv, [Next]_vars, NEW u \in Tasks
               PROVE  Covered(u)'
    OBVIOUS
  <2>0. TypeOK /\ Covered(u)
    BY DEF Typed
  <2>1. ASSUME NEW t \in Tasks, Task(t) PROVE Covered(u)'
    <3>1. CASE u = t
      BY <2>0, <2>1, <3>1, ActorCovered
    <3>2. CASE u # t
      <4>1. UNCHANGED <<todo[u], found[u], skipped[u]>>
        BY <2>0, <2>1, <3>2
        DEF Task, Accept, Stat, ReadData, OpenDir, ScanEntry, CasCheck, MakeParent, WriteTemp,
            SyncTemp, Persist, PostStat, Audit, Reply, work, TypeOK
      <4> QED
        BY <2>0, <2>1, <3>2, <4>1, OthersStill, OthersCovered
    <3> QED
      BY <3>1, <3>2
  <2>2. ASSUME NEW p \in Paths, Local(p) PROVE Covered(u)'
    <3>1. UNCHANGED <<todo, found, skipped>>
      BY <2>2 DEF Local, LocalWrite, LocalDelete, work
    <3> QED
      BY <2>0, <2>2, <3>1, LocalStill, OthersCovered
  <2>3. CASE Crash \/ UNCHANGED vars
    <3>1. UNCHANGED <<todo, found, skipped>>
      BY <2>3 DEF Crash, vars, work
    <3> QED
      BY <2>0, <2>3, <3>1, CrashStill, OthersCovered
  <2> QED
    BY <2>1, <2>2, <2>3 DEF Next
<1>3. Inv => ReplacingNeverHides
  BY DEF Covered, ReplacingNeverHides, InDir
<1> QED
  BY <1>1, <1>2, <1>3, TypedInductive, FreshInductive, HousedInductive, AccountKept, PTL DEF Spec
=============================================================================
