--------------------------- MODULE ExecRpcProofs ---------------------------
(* Theorems about ExecRpc, for any streams, sizes, caps and timeouts.      *)
EXTENDS ExecRpc, TLAPS

(* The outcomes, kept opaque in the proofs below.                          *)
LEMMA OutcomeIn ==
    ASSUME NEW e \in {"none", "PermissionDenied", "Io", "Timeout"},
           NEW c \in {"none", "status"}, NEW b \in BOOLEAN
    PROVE  /\ Outcome(e, c, b) \in Outcomes
           /\ Outcome(e, c, b).error = e /\ Outcome(e, c, b).code = c
  BY DEF Outcome, Outcomes

LEMMA TruncatedIn ==
    ASSUME NEW o \in Outcomes, NEW b \in BOOLEAN
    PROVE  /\ [o EXCEPT !.truncated = b] \in Outcomes
           /\ [o EXCEPT !.truncated = b].error = o.error
           /\ [o EXCEPT !.truncated = b].code = o.code
  BY DEF Outcomes

LEMMA RecordIn ==
    ASSUME NEW log \in Seq(Outcomes), NEW o \in Outcomes
    PROVE  Append(log, o) \in Seq(Outcomes)
  OBVIOUS

LEMMA LesserIn ==
    ASSUME NEW a \in Nat, NEW b \in Nat
    PROVE  /\ Lesser(a, b) \in Nat
           /\ Lesser(a, b) <= a /\ Lesser(a, b) <= b
           /\ Lesser(a, b) = a \/ Lesser(a, b) = b
  BY DEF Lesser

LEMMA InitialTimeout ==
    ASSUME NEW t \in Nat PROVE EffectiveTimeout(t, MaxTimeout) \in Nat
  BY SizesAssumption, LesserIn DEF EffectiveTimeout

-----------------------------------------------------------------------------
(* Type correctness.                                                       *)
LEMMA TypedHandler ==
    ASSUME TypeOK, Handler PROVE TypeOK'
<1> USE DEF TypeOK, request, procs, data
<1>1. CASE CheckPolicy
  BY <1>1, OutcomeIn DEF CheckPolicy, Finish
<1>2. CASE Spawn
  <2>1. out' \in Outcomes /\ hpc' \in {"audit", "poll"}
    BY <1>2, OutcomeIn DEF Spawn, Finish
  <2>2. left' \in [{"child", "kid"} -> [Streams -> Nat]]
    <3>1. left' = left \/ \E plan \in Plans : left' = [left EXCEPT !["child"] = plan]
      BY <1>2 DEF Spawn
    <3> QED
      BY <3>1, SizesAssumption
  <2>3. child' \in {"none", "running", "zombie", "reaped"}
    BY <1>2 DEF Spawn
  <2>4. reader' \in [Streams -> {"none", "copy", "drain", "ended", "broken"}]
    BY <1>2 DEF Spawn
  <2>5. open' \in [{"child", "kid"} -> SUBSET Streams]
    <3>1. open' = open \/ open' = [open EXCEPT !["child"] = Streams]
      BY <1>2 DEF Spawn
    <3> QED
      BY <3>1
  <2> QED
    BY <1>2, <2>1, <2>2, <2>3, <2>4, <2>5 DEF Spawn
<1>3. CASE Poll
  <2>1. out' \in Outcomes
    BY <1>3, OutcomeIn DEF Poll, Finish
  <2>2. hpc' \in {"audit", "join", "check"} /\ child' \in {"none", "running", "zombie", "reaped"}
    BY <1>3 DEF Poll, Finish
  <2> QED
    BY <1>3, <2>1, <2>2 DEF Poll
<1>4. CASE CheckElapsed
  BY <1>4 DEF CheckElapsed
<1>5. CASE Kill
  BY <1>5 DEF Kill, Die
<1>6. CASE Wait
  <2>1. out' \in Outcomes
    BY <1>6, OutcomeIn DEF Wait
  <2> QED
    BY <1>6, <2>1 DEF Wait
<1>7. CASE Join
  BY <1>7, TruncatedIn DEF Join, Finish
<1>8. CASE Audit
  <2>1. audit' = audit \/ audit' = Append(audit, out)
    BY <1>8 DEF Audit
  <2>2. Append(audit, out) \in Seq(Outcomes)
    BY RecordIn
  <2>3. audit' \in Seq(Outcomes)
    BY <2>1, <2>2
  <2>4. ignored' \subseteq {"wait", "audit"}
    BY <1>8 DEF Audit
  <2> QED
    BY <1>8, <2>3, <2>4 DEF Audit
<1>9. CASE Reply
  BY <1>9 DEF Reply
<1> QED
  BY <1>1, <1>2, <1>3, <1>4, <1>5, <1>6, <1>7, <1>8, <1>9 DEF Handler

(* What Copy leaves in the buffer never exceeds the cap.                   *)
LEMMA BufferFits ==
    ASSUME NEW c \in Nat, NEW k \in 0 .. c, NEW n \in Nat
    PROVE  /\ k + Lesser(n, c - k) \in 0 .. c
           /\ n <= c - k => k + Lesser(n, c - k) = k + n
           /\ c - k < n => k + Lesser(n, c - k) = c
  BY DEF Lesser

LEMMA ReadFits ==
    ASSUME TypeOK, NEW s \in Streams, NEW n \in 1 .. Lesser(pipe[s], Chunk)
    PROVE  n \in Nat /\ pipe[s] - n \in 0 .. PipeCap
  BY SizesAssumption DEF TypeOK, Lesser

LEMMA TypedReader ==
    ASSUME TypeOK, NEW s \in Streams, Reader(s) \/ ReadError(s) PROVE TypeOK'
<1> USE DEF TypeOK
<1>1. CASE Copy(s)
  <2>1. PICK n \in 1 .. Lesser(pipe[s], Chunk) :
           Take(s, n) /\ Buffer(s, n, cap - kept[s] < n)
    BY <1>1 DEF Copy
  <2>2. n \in Nat /\ pipe[s] - n \in 0 .. PipeCap
    BY ReadFits
  <2>3. kept[s] + Lesser(n, cap - kept[s]) \in 0 .. cap
    BY <2>2, BufferFits
  <2> QED
    BY <2>1, <2>2, <2>3 DEF Take, Buffer, request, procs
<1>2. CASE Drain(s)
  <2>1. PICK n \in 1 .. Lesser(pipe[s], Chunk) : Take(s, n)
    BY <1>2 DEF Drain
  <2>2. pipe[s] - n \in 0 .. PipeCap
    BY ReadFits
  <2> QED
    BY <1>2, <2>1, <2>2 DEF Drain, Take, request, procs
<1>3. CASE ReadEof(s)
  BY <1>3 DEF ReadEof, request, procs
<1>4. CASE ReadError(s)
  BY <1>4 DEF ReadError, request, procs
<1> QED
  BY <1>1, <1>2, <1>3, <1>4 DEF Reader

LEMMA TypedWrite ==
    ASSUME TypeOK, NEW p \in {"child", "kid"}, NEW s \in Streams, Write(p, s)
    PROVE  TypeOK'
<1> USE DEF TypeOK
<1>1. left[p] \in [Streams -> Nat] /\ left[p][s] - 1 \in Nat
  BY DEF Write
<1>2. left' \in [{"child", "kid"} -> [Streams -> Nat]]
  BY <1>1 DEF Write
<1>3. pipe' \in [Streams -> 0 .. PipeCap] /\ wrote' \in [Streams -> Nat]
  <2>1. CASE reader[s] = "broken"
    BY <2>1 DEF Write
  <2>2. CASE reader[s] # "broken"
    <3>1. pipe[s] + 1 \in 0 .. PipeCap /\ wrote[s] + 1 \in Nat
      BY <2>2, SizesAssumption DEF Write
    <3> QED
      <4>1. pipe' = [pipe EXCEPT ![s] = @ + 1] /\ wrote' = [wrote EXCEPT ![s] = @ + 1]
        BY <2>2 DEF Write
      <4> QED
        BY <3>1, <4>1
  <2> QED
    BY <2>1, <2>2
<1> QED
  BY <1>2, <1>3 DEF Write, request

LEMMA TypedClose ==
    ASSUME TypeOK, NEW p \in {"child", "kid"}, NEW s \in Streams, Close(p, s)
    PROVE  TypeOK'
<1> USE DEF TypeOK
<1>1. left' \in [{"child", "kid"} -> [Streams -> Nat]]
  <2>1. left[p] \in [Streams -> Nat]
    OBVIOUS
  <2> QED
    BY <2>1 DEF Close
<1>2. open' \in [{"child", "kid"} -> SUBSET Streams]
  BY DEF Close
<1> QED
  BY <1>1, <1>2 DEF Close, request, data

LEMMA TypedRest ==
    ASSUME TypeOK, Exit \/ KidExit \/ Fork \/ Signal \/ Tick \/ UNCHANGED vars
    PROVE  TypeOK'
<1> USE DEF TypeOK, request, procs, data
<1>1. CASE Exit
  BY <1>1 DEF Exit, Die
<1>2. CASE KidExit
  BY <1>2 DEF KidExit
<1>3. CASE Fork
  <2>1. PICK plan \in Plans :
           left' = [left EXCEPT !["kid"] =
                       [s \in Streams |-> IF s \in open["child"] THEN plan[s] ELSE 0]]
    BY <1>3 DEF Fork
  <2>2. [s \in Streams |-> IF s \in open["child"] THEN plan[s] ELSE 0] \in [Streams -> Nat]
    BY SizesAssumption
  <2>3. left' \in [{"child", "kid"} -> [Streams -> Nat]]
    BY <2>1, <2>2
  <2> QED
    BY <1>3, <2>3 DEF Fork
<1>4. CASE Signal
  BY <1>4 DEF Signal, Die
<1>5. CASE Tick
  BY <1>5 DEF Tick
<1>6. CASE UNCHANGED vars
  BY <1>6 DEF vars
<1> QED
  BY <1>1, <1>2, <1>3, <1>4, <1>5, <1>6

(* The type invariant holds of every execution.                            *)
THEOREM TypeCorrect == Spec => []TypeOK
<1>1. Init => TypeOK
  <2> SUFFICES ASSUME Init PROVE TypeOK
    OBVIOUS
  <2>1. cap \in Nat /\ timeout \in Nat
    BY SizesAssumption, LesserIn, InitialTimeout DEF Init
  <2>2. out \in Outcomes
    BY OutcomeIn, FALSE \in BOOLEAN DEF Init
  <2>4. audit \in Seq(Outcomes)
    BY DEF Init
  <2>5. elapsed \in 0 .. timeout
    BY <2>1 DEF Init
  <2>6. /\ left \in [{"child", "kid"} -> [Streams -> Nat]]
        /\ open \in [{"child", "kid"} -> SUBSET Streams]
        /\ wrote \in [Streams -> Nat]
        /\ trunc \in [Streams -> BOOLEAN]
        /\ reader \in [Streams -> {"none", "copy", "drain", "ended", "broken"}]
    BY DEF Init
  <2>3. pipe \in [Streams -> 0 .. PipeCap] /\ kept \in [Streams -> 0 .. cap]
    BY <2>1, SizesAssumption DEF Init
  <2> QED
    BY <2>1, <2>2, <2>3, <2>4, <2>5, <2>6 DEF Init, TypeOK
<1>2. TypeOK /\ [Next]_vars => TypeOK'
  BY TypedHandler, TypedReader, TypedWrite, TypedClose, TypedRest DEF Next, Shell, Kid
<1> QED
  BY <1>1, <1>2, PTL DEF Spec

-----------------------------------------------------------------------------
(* The books of a stream: what was written is in the reader's buffer or in  *)
(* the pipe until the buffer is full, and more than the cap thereafter.     *)
(* Nobody holds a pipe before the readers run, nor after its stream's end.  *)
Account(s) ==
    /\ reader[s] = "none" =>
          wrote[s] = 0 /\ pipe[s] = 0 /\ kept[s] = 0 /\ ~trunc[s]
    /\ reader[s] = "copy" => ~trunc[s] /\ kept[s] + pipe[s] = wrote[s]
    /\ reader[s] = "drain" => trunc[s] /\ kept[s] = cap /\ cap + pipe[s] < wrote[s]
    /\ reader[s] = "ended" =>
          kept[s] = Lesser(wrote[s], cap) /\ (trunc[s] <=> wrote[s] > cap) /\ pipe[s] = 0

Unread == hpc \in {"policy", "spawn"} => \A s \in Streams : reader[s] = "none"
Closed(s) == reader[s] \in {"none", "ended"} => \A p \in {"child", "kid"} : s \notin open[p]

Books == Unread /\ \A s \in Streams : Account(s) /\ Closed(s)

LEMMA BooksHandler ==
    ASSUME TypeOK, Books, Handler PROVE Books'
<1> USE DEF Books, Unread, Closed, Account
<1>1. CASE CheckPolicy \/ CheckElapsed \/ Join \/ Audit \/ Reply
  BY <1>1 DEF CheckPolicy, CheckElapsed, Join, Audit, Reply, Finish, request, procs, data
<1>2. CASE Spawn
  <2>1. CASE UNCHANGED <<child, open, left, reader>>
    BY <1>2, <2>1 DEF Spawn, Finish, request
  <2>2. CASE hpc' = "poll" /\ reader' = [s \in Streams |-> "copy"]
    BY <1>2, <2>2 DEF Spawn, request, TypeOK
  <2> QED
    BY <1>2, <2>1, <2>2 DEF Spawn
<1>3. CASE Poll \/ Wait
  BY <1>3 DEF Poll, Wait, Finish, request, data
<1>4. CASE Kill
  <2>1. \A p \in {"child", "kid"} : open'[p] \subseteq open[p]
    BY <1>4 DEF Kill, Die, TypeOK
  <2> QED
    BY <1>4, <2>1 DEF Kill, request, data
<1> QED
  BY <1>1, <1>2, <1>3, <1>4 DEF Handler

LEMMA BooksReader ==
    ASSUME TypeOK, Books, NEW r \in Streams, Reader(r) \/ ReadError(r) PROVE Books'
<1>0. ASSUME NEW s \in Streams, s # r
      PROVE  /\ reader'[s] = reader[s] /\ wrote'[s] = wrote[s] /\ pipe'[s] = pipe[s]
             /\ kept'[s] = kept[s] /\ trunc'[s] = trunc[s]
  BY <1>0 DEF Reader, Copy, Drain, ReadEof, ReadError, Take, Buffer, TypeOK
<1>1. cap' = cap /\ open' = open /\ hpc' = hpc
  BY DEF Reader, Copy, Drain, ReadEof, ReadError, Take, request, procs
<1>2. ASSUME NEW s \in Streams, s # r PROVE Account(s)' /\ Closed(s)'
  BY <1>0, <1>1, <1>2 DEF Books, Account, Closed
<1>3. Account(r)'
  <2>1. CASE Copy(r)
    <3>1. PICK n \in 1 .. Lesser(pipe[r], Chunk) :
             Take(r, n) /\ Buffer(r, n, cap - kept[r] < n)
      BY <2>1 DEF Copy
    <3>2. n \in Nat /\ pipe'[r] = pipe[r] - n /\ wrote'[r] = wrote[r]
      BY <3>1, ReadFits DEF Take, TypeOK
    <3>3. /\ kept'[r] = kept[r] + Lesser(n, cap - kept[r])
          /\ trunc'[r] <=> cap - kept[r] < n
          /\ reader'[r] = IF cap - kept[r] < n THEN "drain" ELSE "copy"
      BY <3>1 DEF Buffer, TypeOK
    <3>4. /\ n <= cap - kept[r] => kept'[r] = kept[r] + n
          /\ cap - kept[r] < n => kept'[r] = cap
      <4>1. cap \in Nat /\ kept[r] \in 0 .. cap
        BY DEF TypeOK
      <4>2. kept'[r] = kept[r] + Lesser(n, cap - kept[r])
        BY <3>3
      <4>3. CASE n <= cap - kept[r]
        <5>1. Lesser(n, cap - kept[r]) = n
          BY <4>3 DEF Lesser
        <5> QED
          BY <3>2, <4>1, <4>2, <4>3, <5>1
      <4>4. CASE cap - kept[r] < n
        <5>1. Lesser(n, cap - kept[r]) = cap - kept[r]
          BY <3>2, <4>1, <4>4 DEF Lesser
        <5> QED
          BY <3>2, <4>1, <4>2, <4>4, <5>1
      <4> QED
        BY <4>3, <4>4, <3>2, <4>1
    <3>5. kept[r] + pipe[r] = wrote[r]
      BY <2>1 DEF Copy, Books, Account
    <3>6. cap \in Nat /\ kept[r] \in Nat /\ pipe[r] \in Nat /\ wrote[r] \in Nat
      BY SizesAssumption DEF TypeOK
    <3>7. CASE n <= cap - kept[r]
      <4>1. reader'[r] = "copy" /\ ~trunc'[r]
        BY <3>2, <3>3, <3>6, <3>7
      <4>2. kept'[r] + pipe'[r] = wrote'[r]
        BY <3>2, <3>4, <3>5, <3>6, <3>7
      <4> QED
        BY <4>1, <4>2 DEF Account
    <3>8. CASE cap - kept[r] < n
      <4>1. reader'[r] = "drain" /\ trunc'[r] /\ kept'[r] = cap
        BY <3>2, <3>3, <3>4, <3>6, <3>8
      <4>2. cap + pipe'[r] < wrote'[r]
        BY <3>2, <3>5, <3>6, <3>8
      <4> QED
        BY <1>1, <4>1, <4>2 DEF Account
    <3> QED
      BY <3>2, <3>6, <3>7, <3>8
  <2>2. CASE Drain(r)
    <3>1. PICK n \in 1 .. Lesser(pipe[r], Chunk) : Take(r, n)
      BY <2>2 DEF Drain
    <3>2. n \in Nat /\ pipe'[r] = pipe[r] - n /\ wrote'[r] = wrote[r]
      BY <3>1, ReadFits DEF Take, TypeOK
    <3>3. pipe[r] \in Nat /\ cap \in Nat /\ wrote[r] \in Nat
      BY SizesAssumption DEF TypeOK
    <3> QED
      BY <1>1, <2>2, <3>2, <3>3 DEF Drain, Books, Account, TypeOK
  <2>3. CASE ReadEof(r)
    BY <1>1, <2>3 DEF ReadEof, Books, Account, TypeOK, Lesser
  <2>4. CASE ReadError(r)
    BY <2>4 DEF ReadError, Account, TypeOK
  <2> QED
    BY <2>1, <2>2, <2>3, <2>4 DEF Reader
<1>4. Closed(r)' /\ reader[r] # "none"
  BY <1>1 DEF Reader, Copy, Drain, ReadEof, ReadError, Buffer, Books, Closed, TypeOK
<1>5. Unread'
  BY <1>0, <1>1, <1>4 DEF Unread, Books
<1> QED
  BY <1>2, <1>3, <1>4, <1>5 DEF Books

LEMMA BooksWrite ==
    ASSUME TypeOK, Books, NEW p \in {"child", "kid"}, NEW r \in Streams, Write(p, r)
    PROVE  Books'
<1>1. reader[r] \notin {"none", "ended"}
  BY DEF Write, Books, Closed
<1>2. ASSUME NEW s \in Streams, s # r PROVE wrote'[s] = wrote[s] /\ pipe'[s] = pipe[s]
  BY <1>2 DEF Write, TypeOK
<1>3. CASE reader[r] = "broken"
  BY <1>3 DEF Write, request, Books, Unread, Account, Closed
<1>4. CASE reader[r] \in {"copy", "drain"}
  <2>1. wrote'[r] = wrote[r] + 1 /\ pipe'[r] = pipe[r] + 1
    BY <1>4 DEF Write, TypeOK
  <2>2. pipe[r] \in Nat /\ cap \in Nat /\ wrote[r] \in Nat /\ kept[r] \in Nat
    BY SizesAssumption DEF TypeOK
  <2>3. /\ cap' = cap /\ open' = open /\ hpc' = hpc
        /\ reader' = reader /\ kept' = kept /\ trunc' = trunc
    BY DEF Write, request
  <2>4. Account(r)'
    BY <1>4, <2>1, <2>2, <2>3 DEF Books, Account
  <2>5. ASSUME NEW s \in Streams, s # r PROVE Account(s)'
    BY <1>2, <2>3, <2>5 DEF Books, Account
  <2> QED
    BY <2>3, <2>4, <2>5 DEF Books, Unread, Closed
<1> QED
  BY <1>1, <1>3, <1>4 DEF TypeOK

LEMMA BooksRest ==
    ASSUME TypeOK, Books,
           \/ \E p \in {"child", "kid"}, s \in Streams : Close(p, s)
           \/ Exit \/ KidExit \/ Fork \/ Signal \/ Tick \/ UNCHANGED vars
    PROVE  Books'
<1>1. UNCHANGED <<cap, hpc, wrote, pipe, reader, kept, trunc>>
  BY DEF Close, Exit, KidExit, Fork, Signal, Tick, request, data, vars
<1>2. ASSUME NEW s \in Streams, NEW p \in {"child", "kid"}, s \in open'[p]
      PROVE  s \in open["child"] \cup open["kid"]
  <2>1. CASE \E q \in {"child", "kid"}, u \in Streams : Close(q, u)
    BY <1>2, <2>1 DEF Close, TypeOK
  <2>2. CASE Exit \/ Signal
    BY <1>2, <2>2 DEF Exit, Signal, Die, TypeOK
  <2>3. CASE KidExit \/ Fork
    BY <1>2, <2>3 DEF KidExit, Fork, TypeOK
  <2>4. CASE Tick \/ UNCHANGED vars
    BY <1>2, <2>4 DEF Tick, procs, vars
  <2> QED
    BY <2>1, <2>2, <2>3, <2>4
<1>3. ASSUME NEW s \in Streams PROVE Account(s)' /\ Closed(s)'
  BY <1>1, <1>2 DEF Books, Account, Closed
<1> QED
  BY <1>1, <1>3 DEF Books, Unread

LEMMA BooksBalance == Spec => []Books
<1>1. Init => Books
  BY DEF Init, Books, Unread, Account, Closed
<1>2. TypeOK /\ Books /\ [Next]_vars => Books'
  <2> SUFFICES ASSUME TypeOK, Books, [Next]_vars PROVE Books'
    OBVIOUS
  <2>1. CASE Handler
    BY <2>1, BooksHandler
  <2>2. ASSUME NEW s \in Streams, Reader(s) \/ ReadError(s) PROVE Books'
    BY <2>2, BooksReader
  <2>3. ASSUME NEW s \in Streams, NEW p \in {"child", "kid"}, Write(p, s) PROVE Books'
    BY <2>3, BooksWrite
  <2>4. CASE \/ \E p \in {"child", "kid"}, s \in Streams : Close(p, s)
             \/ Exit \/ KidExit \/ Fork \/ Signal \/ Tick \/ UNCHANGED vars
    BY <2>4, BooksRest
  <2> QED
    BY <2>1, <2>2, <2>3, <2>4 DEF Next, Shell, Kid
<1> QED
  BY <1>1, <1>2, TypeCorrect, PTL DEF Spec

(* Both output caps are exact, whatever the processes do.                  *)
THEOREM OutputTheorem == Spec => []OutputExact
<1>1. Books => OutputExact
  BY DEF Books, Account, OutputExact
<1> QED
  BY <1>1, BooksBalance, PTL


-----------------------------------------------------------------------------
(* Where the handler stands and how the shell has fared by then.            *)
Waiting == {"poll", "check", "kill"}
Concluded == hpc = "join" \/ Ran

Early  == hpc \in {"policy", "spawn"} => child = "none" /\ end = "none"
Alive  == hpc \in Waiting => child \in {"running", "zombie"} /\ end # "killed"
Killed == hpc \in {"kill", "wait"} => Late
Unsaid == hpc \in Waiting \cup {"policy", "spawn", "wait"}
             => out.error = "none" /\ out.code = "none"
Fate   == /\ child = "running" => end = "none"
          /\ child = "zombie" => end # "none"
          /\ end = "exited" => \A s \in Streams : left["child"][s] = 0
Said   == /\ Concluded => /\ child = "reaped" \/ "wait" \in ignored
                        /\ out.error \in {"none", "Timeout"}
          /\ Concluded /\ out.error = "none" => end \in {"exited", "signalled"}
          /\ out.error = "Timeout" => Late /\ out.code = "none"
          /\ out.code = "status" => end = "exited"
Gone   == Ran => \A s \in Streams : Ended(s)

Stage == Early /\ Alive /\ Killed /\ Unsaid /\ Fate /\ Said /\ Gone

LEMMA StageHandler ==
    ASSUME TypeOK, Stage, Handler PROVE Stage'
<1> USE DEF Stage, Early, Alive, Killed, Unsaid, Fate, Said, Gone, Waiting, Concluded,
            Ran, Answered, Late, Ended, request, procs, data
<1>1. CASE CheckPolicy
  BY <1>1, OutcomeIn, FALSE \in BOOLEAN DEF CheckPolicy, Finish
<1>2. CASE Spawn
  <2>1. CASE Finish(Outcome("Io", "none", FALSE)) /\ UNCHANGED <<child, open, left, reader>>
    BY <1>2, <2>1, OutcomeIn, FALSE \in BOOLEAN DEF Spawn, Finish
  <2>2. CASE hpc' = "poll" /\ child' = "running" /\ out' = out
    BY <1>2, <2>2 DEF Spawn
  <2> QED
    BY <1>2, <2>1, <2>2 DEF Spawn
<1>3. CASE Poll
  <2>1. CASE child = "zombie" /\ child' = "reaped" /\ hpc' = "join"
             /\ out' = Outcome("none", IF end = "exited" THEN "status" ELSE "none", FALSE)
    <3>1. /\ out'.error = "none"
          /\ out'.code = IF end = "exited" THEN "status" ELSE "none"
      BY <2>1, OutcomeIn, FALSE \in BOOLEAN
    <3>2. end \in {"exited", "signalled"}
      BY <1>3, <2>1 DEF Poll, TypeOK
    <3> QED
      BY <1>3, <2>1, <3>1, <3>2 DEF Poll
  <2>2. CASE hpc' = "check" /\ UNCHANGED <<child, out>>
    BY <1>3, <2>2 DEF Poll
  <2>3. CASE Finish(Outcome("Io", "none", FALSE)) /\ child' = child
    BY <1>3, <2>3, OutcomeIn, FALSE \in BOOLEAN DEF Poll, Finish
  <2> QED
    BY <1>3, <2>1, <2>2, <2>3 DEF Poll
<1>4. CASE CheckElapsed
  BY <1>4 DEF CheckElapsed
<1>5. CASE Kill
  BY <1>5 DEF Kill, Die
<1>6. CASE Wait
  <2>1. out'.error = "Timeout" /\ out'.code = "none"
    BY <1>6, OutcomeIn, FALSE \in BOOLEAN DEF Wait
  <2> QED
    BY <1>6, <2>1 DEF Wait
<1>7. CASE Join
  <2>1. out'.error = out.error /\ out'.code = out.code
    BY <1>7, TruncatedIn DEF Join, Finish, TypeOK
  <2> QED
    BY <1>7, <2>1 DEF Join, Finish
<1>8. CASE Audit
  BY <1>8 DEF Audit
<1>9. CASE Reply
  BY <1>9 DEF Reply
<1> QED
  BY <1>1, <1>2, <1>3, <1>4, <1>5, <1>6, <1>7, <1>8, <1>9 DEF Handler

LEMMA StageReader ==
    ASSUME TypeOK, Stage, NEW s \in Streams, Reader(s) \/ ReadError(s) PROVE Stage'
<1>1. UNCHANGED <<hpc, request, elapsed, child, left, end, out, ignored>>
  BY DEF Reader, Copy, Drain, ReadEof, ReadError, Take, procs
<1>2. \A u \in Streams : Ended(u) => Ended(u)'
  BY DEF Reader, Copy, Drain, ReadEof, ReadError, Buffer, Ended, TypeOK
<1>3. Gone'
  BY <1>1, <1>2 DEF Gone, Stage, Ran, Answered
<1> QED
  BY <1>1, <1>3 DEF Stage, Early, Alive, Killed, Unsaid, Fate, Said, Waiting,
                    Concluded, Ran, Answered, Late, request

LEMMA StageRest ==
    ASSUME TypeOK, Stage,
           \/ \E p \in {"child", "kid"}, s \in Streams : Write(p, s) \/ Close(p, s)
           \/ Exit \/ KidExit \/ Fork \/ Signal \/ Tick \/ UNCHANGED vars
    PROVE  Stage'
<1> USE DEF Stage, Early, Alive, Killed, Unsaid, Fate, Said, Gone, Waiting, Concluded,
            Ran, Answered, Late, Ended, request, procs, data
<1>1. ASSUME NEW p \in {"child", "kid"}, NEW s \in Streams, Write(p, s) PROVE Stage'
  <2>1. p = "child" => end = "none"
    BY <1>1 DEF Write, Running
  <2>2. p = "kid" => left'["child"] = left["child"]
    BY <1>1 DEF Write, TypeOK
  <2> QED
    BY <1>1, <2>1, <2>2 DEF Write
<1>2. ASSUME NEW p \in {"child", "kid"}, NEW s \in Streams, Close(p, s) PROVE Stage'
  <2>1. ASSUME NEW u \in Streams, left["child"][u] = 0 PROVE left'["child"][u] = 0
    <3>1. left["child"] \in [Streams -> Nat]
      BY DEF TypeOK
    <3> QED
      BY <1>2, <2>1, <3>1 DEF Close, TypeOK
  <2> QED
    BY <1>2, <2>1 DEF Close
<1>3. CASE Exit
  BY <1>3 DEF Exit, Die
<1>4. CASE KidExit
  BY <1>4 DEF KidExit
<1>5. CASE Fork
  BY <1>5 DEF Fork
<1>6. CASE Signal
  BY <1>6 DEF Signal, Die
<1>7. CASE Tick
  BY <1>7 DEF Tick, TypeOK
<1>8. CASE UNCHANGED vars
  BY <1>8 DEF vars
<1> QED
  BY <1>1, <1>2, <1>3, <1>4, <1>5, <1>6, <1>7, <1>8

LEMMA StageKept == Spec => []Stage
<1>1. Init => Stage
  BY OutcomeIn, FALSE \in BOOLEAN
  DEF Init, Stage, Early, Alive, Killed, Unsaid, Fate, Said, Gone, Waiting, Concluded,
      Ran, Answered
<1>2. TypeOK /\ Stage /\ [Next]_vars => Stage'
  BY StageHandler, StageReader, StageRest DEF Next, Shell, Kid
<1> QED
  BY <1>1, <1>2, TypeCorrect, PTL DEF Spec

(* A timeout is never early, Ok never hides a kill, and an exit code is     *)
(* never that of a command cut short.                                       *)
THEOREM TruthTheorem == Spec => []TruthfulEnd
<1>1. TypeOK /\ Stage => TruthfulEnd
  BY DEF Stage, Fate, Said, Concluded, Ran, TruthfulEnd
<1> QED
  BY <1>1, TypeCorrect, StageKept, PTL

(* What is answered of a command is final: its shell is reaped, unless the  *)
(* wait failed, its readers are gone, and of a stream read to its end       *)
(* nothing is on the way and nobody can add to it.                          *)
THEOREM CleanTheorem == Spec => []AnswerIsFinal
<1>1. Books /\ Stage => AnswerIsFinal
  BY DEF Books, Account, Closed, Stage, Said, Gone, Concluded, AnswerIsFinal
<1> QED
  BY <1>1, BooksBalance, StageKept, PTL

(* One audit entry, or one append that failed, before every answer, early   *)
(* returns included.                                                        *)
THEOREM AuditTheorem == Spec => []AuditedBeforeAnswer
<1>1. Init => AuditedBeforeAnswer
  BY DEF Init, AuditedBeforeAnswer
<1>2. TypeOK /\ AuditedBeforeAnswer /\ [Next]_vars => AuditedBeforeAnswer'
  <2> SUFFICES ASSUME TypeOK, AuditedBeforeAnswer, [Next]_vars PROVE AuditedBeforeAnswer'
    OBVIOUS
  <2> USE DEF AuditedBeforeAnswer
  <2>1. CASE CheckPolicy \/ Spawn \/ Poll \/ CheckElapsed \/ Kill \/ Wait \/ Join
    BY <2>1 DEF CheckPolicy, Spawn, Poll, CheckElapsed, Kill, Wait, Join, Finish
  <2>2. CASE Audit
    BY <2>2 DEF Audit, TypeOK
  <2>3. CASE Reply
    BY <2>3 DEF Reply
  <2>4. ASSUME NEW s \in Streams, Reader(s) \/ ReadError(s) PROVE AuditedBeforeAnswer'
    BY <2>4 DEF Reader, Copy, Drain, ReadEof, ReadError, Take
  <2>5. CASE \/ \E p \in {"child", "kid"}, s \in Streams : Close(p, s)
             \/ Shell \/ Kid \/ Fork \/ Signal \/ Tick \/ UNCHANGED vars
    BY <2>5 DEF Close, Shell, Kid, Write, Exit, KidExit, Fork, Signal, Tick, vars
  <2> QED
    BY <2>1, <2>2, <2>3, <2>4, <2>5 DEF Next, Handler
<1> QED
  BY <1>1, <1>2, TypeCorrect, PTL DEF Spec
=============================================================================
