----------------------------- MODULE TunnelProofs -----------------------------
(* Theorems about Tunnel, for any streams, pool size and pauses.           *)
EXTENDS Tunnel, FiniteSetTheorems, TLAPS

LEMMA SmallerIn ==
    ASSUME NEW a \in Nat, NEW b \in Nat \ {0}
    PROVE  /\ Smaller(a, b) \in 0 .. b
           /\ a # 0 => Smaller(a, b) \in 1 .. b
  BY DEF Smaller

LEMMA TypedReturn ==
    ASSUME TypeOK, Return
    PROVE  /\ st' \in [Streams -> Steps] /\ alive' \in [Streams -> BOOLEAN]
           /\ loop' = "returned" /\ proc' = "exiting"
  BY DEF Return, TypeOK, Steps, Dead

LEMMA TypedLoop ==
    ASSUME TypeOK, Loop \/ Disconnected \/ Exit \/ Kill \/ Restart \/ Pair \/ UNCHANGED vars
    PROVE  TypeOK'
<1> USE TunnelAssumption DEF TypeOK
<1>1. CASE Begin
  BY <1>1 DEF Begin
<1>2. CASE Resolved
  BY <1>2 DEF Resolved
<1>3. CASE BeginFails \/ ResolveFails
  BY <1>3, TypedReturn DEF BeginFails, ResolveFails
<1>4. CASE DialFails
  BY <1>4, SmallerIn DEF DialFails
<1>5. CASE Wake
  <2>1. 2 * backoff \in Nat /\ 2 * backoff # 0
    OBVIOUS
  <2> QED
    BY <1>5, <2>1, SmallerIn DEF Wake
<1>6. CASE Connected
  BY <1>6 DEF Connected
<1>7. CASE Disconnected
  BY <1>7 DEF Disconnected, Dead
<1>8. CASE Exit
  BY <1>8 DEF Exit
<1>9. CASE Kill
  BY <1>9 DEF Kill, Dead, Steps
<1>10. CASE Restart
  BY <1>10 DEF Restart
<1>11. CASE Pair
  BY <1>11 DEF Pair
<1>12. CASE UNCHANGED vars
  BY <1>12 DEF vars
<1> QED
  BY <1>1, <1>2, <1>3, <1>4, <1>5, <1>6, <1>7, <1>8, <1>9, <1>10, <1>11, <1>12 DEF Loop

LEMMA TypedTask ==
    ASSUME TypeOK, NEW s \in Streams, Task(s) PROVE TypeOK'
<1>1. st' \in [Streams -> Steps]
  BY DEF Task, Accept, ReadRequest, ReadAborted, Run, RunEnds, Abandon, WriteAnswer, Move,
         TypeOK, Steps
<1>2. alive' \in [Streams -> BOOLEAN] /\ bad' \subseteq Streams
  BY DEF Task, Accept, ReadRequest, ReadAborted, Run, RunEnds, Abandon, WriteAnswer, TypeOK
<1>3. UNCHANGED <<proc, paired, loop, backoff, fails, kills>>
  BY DEF Task, Accept, ReadRequest, ReadAborted, Run, RunEnds, Abandon, WriteAnswer, Move
<1> QED
  BY <1>1, <1>2, <1>3 DEF TypeOK

(* The type invariant; the pause is never zero and never above its limit.  *)
THEOREM TypeCorrect == Spec => []TypeOK
<1>1. Init => TypeOK
  BY TunnelAssumption DEF Init, TypeOK, Steps
<1>2. TypeOK /\ [Next]_vars => TypeOK'
  BY TypedLoop, TypedTask DEF Next
<1> QED
  BY <1>1, <1>2, PTL DEF Spec

-----------------------------------------------------------------------------
(* Streams are open only while `run` serves, and a handler is only cut      *)
(* short by a kill.                                                         *)
Attached == \A s \in Streams :
    /\ alive[s] => loop = "serve"
    /\ st[s] = "idle" => ~alive[s]
    /\ st[s] \in {"void", "lost", "cut"} => ~alive[s] \/ s \in bad
    /\ st[s] \in {"read", "queue", "write"} => Up /\ loop # "start"
    /\ st[s] = "run" => proc \in {"up", "exiting"} /\ loop # "start"
    /\ st[s] = "cut" => kills > 0
Matched == /\ loop = "returned" <=> ~Up
           /\ proc # "stopped"

LEMMA AttachedLoop ==
    ASSUME TypeOK, Attached, Matched,
           Loop \/ Disconnected \/ Exit \/ Kill \/ Restart \/ Pair \/ UNCHANGED vars
    PROVE  Attached' /\ Matched'
<1> USE DEF TypeOK, Attached, Matched, Up
<1>1. CASE Begin
  BY <1>1 DEF Begin
<1>2. CASE Resolved \/ Wake \/ Connected \/ DialFails \/ Pair
  BY <1>2 DEF Resolved, Wake, Connected, DialFails, Pair
<1>3. CASE BeginFails \/ ResolveFails
  BY <1>3 DEF BeginFails, ResolveFails, Return, Dead
<1>4. CASE Disconnected
  BY <1>4 DEF Disconnected, Dead
<1>5. CASE Exit
  BY <1>5 DEF Exit, In
<1>6. CASE Kill
  BY <1>6 DEF Kill, Dead
<1>7. CASE Restart
  BY <1>7 DEF Restart
<1>8. CASE UNCHANGED vars
  BY <1>8 DEF vars
<1> QED
  BY <1>1, <1>2, <1>3, <1>4, <1>5, <1>6, <1>7, <1>8 DEF Loop

LEMMA AttachedTask ==
    ASSUME TypeOK, Attached, Matched, NEW s \in Streams, Task(s) PROVE Attached' /\ Matched'
<1>1. UNCHANGED <<proc, paired, loop, backoff, fails, kills>>
  BY DEF Task, Accept, ReadRequest, ReadAborted, Run, RunEnds, Abandon, WriteAnswer, Move
<1>2. \A u \in Streams : u # s => st'[u] = st[u] /\ alive'[u] = alive[u] /\ (u \in bad => u \in bad')
  BY DEF Task, Accept, ReadRequest, ReadAborted, Run, RunEnds, Abandon, WriteAnswer, Move, TypeOK
<1> USE DEF TypeOK, Attached, Matched, Up, Move
<1>3. CASE Accept(s)
  BY <1>1, <1>2, <1>3 DEF Accept
<1>4. CASE ReadRequest(s)
  BY <1>1, <1>2, <1>4 DEF ReadRequest
<1>5. CASE ReadAborted(s)
  BY <1>1, <1>2, <1>5 DEF ReadAborted
<1>6. CASE Run(s)
  BY <1>1, <1>2, <1>6 DEF Run
<1>7. CASE RunEnds(s)
  BY <1>1, <1>2, <1>7 DEF RunEnds
<1>8. CASE WriteAnswer(s)
  BY <1>1, <1>2, <1>8 DEF WriteAnswer
<1>9. CASE Abandon(s)
  BY <1>1, <1>2, <1>9 DEF Abandon
<1> QED
  BY <1>3, <1>4, <1>5, <1>6, <1>7, <1>8, <1>9 DEF Task

LEMMA AttachedKept == Spec => [](Attached /\ Matched)
<1>1. Init => Attached /\ Matched
  BY DEF Init, Attached, Matched, Up
<1>2. TypeOK /\ Attached /\ Matched /\ [Next]_vars => Attached' /\ Matched'
  BY AttachedLoop, AttachedTask DEF Next
<1> QED
  BY <1>1, <1>2, TypeCorrect, PTL DEF Spec

(* No request goes unanswered while its connection and its process last,    *)
(* unless its frame was no request.                                         *)
THEOREM SilentTheorem == Spec => []SilentOnlyWhenGone
<1>1. Attached => SilentOnlyWhenGone
  BY DEF Attached, SilentOnlyWhenGone
<1> QED
  BY <1>1, AttachedKept, PTL

(* Started handlers end by themselves or with a kill, and always before the *)
(* next process begins.                                                     *)
THEOREM RunsTheorem == Spec => []RunsToEnd
<1>1. Attached => RunsToEnd
  BY DEF Attached, RunsToEnd, In
<1> QED
  BY <1>1, AttachedKept, PTL

-----------------------------------------------------------------------------
(* Powers of two.  Every non-empty set of naturals has a least element, as   *)
(* strict inclusion is well-founded on finite intervals; hence the recursion *)
(* that defines PowerOfTwo has a solution.                                   *)
LEMMA Least ==
    ASSUME NEW T, T \subseteq Nat, T # {}
    PROVE  \E x \in T : \A y \in T : x <= y
<1> DEFINE Below == {0 .. n : n \in T}
<1>1. Below \subseteq FiniteSubsetsOf(Nat) /\ Below # {}
  <2>1. ASSUME NEW n \in T PROVE 0 .. n \in FiniteSubsetsOf(Nat)
    <3>1. IsFiniteSet(0 .. n)
      BY FS_Interval
    <3> QED
      BY <3>1 DEF FiniteSubsetsOf
  <2> QED
    BY <2>1
<1>2. PICK b \in Below : \A c \in Below : ~ (<<c, b>> \in StrictSubsetOrdering(Nat))
  BY <1>1, FS_StrictSubsetOrderingWellFounded, WFMin
<1>3. PICK x \in T : b = 0 .. x
  BY <1>2
<1>4. ASSUME NEW y \in T, y < x PROVE FALSE
  <2>1. 0 .. y \in Below /\ 0 .. y \subseteq 0 .. x /\ x \notin 0 .. y /\ x \in 0 .. x
    BY <1>4
  <2>2. 0 .. y # 0 .. x
    BY <2>1
  <2>3. 0 .. y \subseteq Nat /\ 0 .. x \subseteq Nat
    OBVIOUS
  <2>4. <<0 .. y, 0 .. x>> \in StrictSubsetOrdering(Nat)
    BY <2>1, <2>2, <2>3 DEF StrictSubsetOrdering
  <2> QED
    BY <1>2, <1>3, <2>1, <2>4
<1> QED
  BY <1>4

LEMMA PowerIs ==
    PowerOfTwo = [n \in 0 .. MaxFails |-> IF n = 0 THEN 1 ELSE 2 * PowerOfTwo[n - 1]]
<1> DEFINE Solves(f, k) == f = [n \in 0 .. k |-> IF n = 0 THEN 1 ELSE 2 * f[n - 1]]
           Bad == {k \in Nat : \A f : ~Solves(f, k)}
<1>1. Bad = {}
  <2> SUFFICES ASSUME Bad # {} PROVE FALSE
    OBVIOUS
  <2>1. PICK k \in Bad : \A j \in Bad : k <= j
    BY Least
  <2>2. k # 0
    <3>1. Solves([n \in 0 .. 0 |-> 1], 0)
      OBVIOUS
    <3> QED
      BY <3>1, <2>1
  <2>3. k - 1 \in Nat /\ k - 1 \notin Bad
    <3>1. k \in Nat
      OBVIOUS
    <3> HIDE DEF Bad
    <3> QED
      BY <2>1, <2>2, <3>1
  <2>4. PICK f : Solves(f, k - 1)
    BY <2>3
  <2> DEFINE g == [n \in 0 .. k |-> IF n = 0 THEN 1 ELSE 2 * f[n - 1]]
  <2>5. \A n \in 0 .. k - 1 : g[n] = f[n]
    BY <2>3, <2>4
  <2>6. Solves(g, k)
    <3>1. ASSUME NEW n \in 0 .. k
          PROVE  g[n] = IF n = 0 THEN 1 ELSE 2 * g[n - 1]
      <4>1. g[n] = IF n = 0 THEN 1 ELSE 2 * f[n - 1]
        OBVIOUS
      <4>2. n # 0 => n - 1 \in 0 .. k - 1
        BY <2>3
      <4> HIDE DEF g
      <4> QED
        BY <4>1, <4>2, <2>5
    <3> QED
      BY <3>1
  <2> QED
    BY <2>1, <2>6
<1> HIDE DEF Solves
<1>2. \E f : Solves(f, MaxFails)
  BY <1>1, TunnelAssumption
<1> USE DEF Solves
<1> QED
  BY <1>2 DEF PowerOfTwo

LEMMA PowerType == \A n \in 0 .. MaxFails : PowerOfTwo[n] \in Nat \ {0}
<1> DEFINE Bad == {n \in 0 .. MaxFails : PowerOfTwo[n] \notin Nat \ {0}}
<1> SUFFICES ASSUME Bad # {} PROVE FALSE
  OBVIOUS
<1>1. PICK n \in Bad : \A m \in Bad : n <= m
  <2>1. Bad \subseteq Nat
    BY TunnelAssumption
  <2> HIDE DEF Bad
  <2> QED
    BY <2>1, Least
<1>2. n \in 0 .. MaxFails /\ PowerOfTwo[n] = IF n = 0 THEN 1 ELSE 2 * PowerOfTwo[n - 1]
  BY PowerIs
<1>3. n # 0 => n - 1 \in 0 .. MaxFails /\ ~(n <= n - 1)
  BY <1>2, TunnelAssumption
<1>4. n # 0 => PowerOfTwo[n - 1] \in Nat \ {0}
  BY <1>1, <1>3
<1> QED
  BY <1>2, <1>4

LEMMA PowerFirst == PowerOfTwo[0] = 1
BY PowerIs, TunnelAssumption

LEMMA PowerNext ==
    ASSUME NEW n \in 0 .. MaxFails, n # MaxFails
    PROVE  PowerOfTwo[n + 1] = 2 * PowerOfTwo[n]
<1>1. n + 1 \in 0 .. MaxFails /\ n + 1 # 0 /\ (n + 1) - 1 = n
  BY TunnelAssumption
<1> QED
  BY <1>1, PowerIs

(* What a pause is made of, step by step.                                   *)
LEMMA PauseDoubles ==
    ASSUME NEW n \in 0 .. MaxFails, n # MaxFails
    PROVE  Smaller(2 * Smaller(PowerOfTwo[n], MaxBackoff), MaxBackoff)
             = Smaller(PowerOfTwo[n + 1], MaxBackoff)
<1>1. PowerOfTwo[n] \in Nat /\ PowerOfTwo[n + 1] = 2 * PowerOfTwo[n] /\ MaxBackoff \in Nat
  BY PowerType, PowerNext, TunnelAssumption
<1> QED
  BY <1>1 DEF Smaller

LEMMA PauseAtBound ==
    \A n \in {MaxFails - 1, MaxFails} : Smaller(PowerOfTwo[n], MaxBackoff) = MaxBackoff
<1>1. MaxFails - 1 \in 0 .. MaxFails /\ MaxFails \in 0 .. MaxFails
      /\ MaxFails - 1 # MaxFails /\ (MaxFails - 1) + 1 = MaxFails
  BY TunnelAssumption
<1>2. PowerOfTwo[MaxFails] = 2 * PowerOfTwo[MaxFails - 1]
  BY <1>1, PowerNext
<1>3. PowerOfTwo[MaxFails - 1] \in Nat /\ MaxBackoff \in Nat
  BY <1>1, PowerType, TunnelAssumption
<1> QED
  BY <1>2, <1>3, BoundAssumption DEF Smaller

-----------------------------------------------------------------------------
(* The pause that the next failure will cause, wherever `run` stands; while  *)
(* it sleeps the failure has been counted and the pause not yet doubled.     *)
Pausing ==
    loop # "returned" =>
        /\ loop = "sleep" => fails # 0
        /\ backoff = Smaller(PowerOfTwo[IF loop = "sleep" THEN fails - 1 ELSE fails], MaxBackoff)

LEMMA PausingLoop ==
    ASSUME TypeOK, Matched, Pausing,
           Loop \/ Disconnected \/ Exit \/ Kill \/ Restart \/ Pair \/ UNCHANGED vars
    PROVE  Pausing'
<1>0. fails \in 0 .. MaxFails /\ MaxFails \in Nat \ {0} /\ MaxBackoff \in Nat \ {0}
  BY TunnelAssumption DEF TypeOK
<1>1. Smaller(PowerOfTwo[0], MaxBackoff) = 1
  BY <1>0, PowerFirst DEF Smaller
<1>2. CASE Begin \/ BeginFails \/ Resolved \/ ResolveFails \/ Disconnected \/ Pair
           \/ UNCHANGED vars
  BY <1>2 DEF Begin, BeginFails, Resolved, ResolveFails, Disconnected, Pair, vars, Return, Pausing
<1>3. CASE DialFails
  <2>1. loop' = "sleep" /\ backoff' = backoff /\ fails' = Smaller(fails + 1, MaxFails)
        /\ backoff = Smaller(PowerOfTwo[fails], MaxBackoff)
    BY <1>3 DEF DialFails, Pausing
  <2>2. CASE fails = MaxFails
    <3>1. fails' = MaxFails
      BY <1>0, <2>1, <2>2 DEF Smaller
    <3> QED
      BY <1>0, <2>1, <2>2, <3>1, PauseAtBound DEF Pausing
  <2>3. CASE fails # MaxFails
    <3>1. fails' = fails + 1 /\ fails' # 0 /\ fails' - 1 = fails
      BY <1>0, <2>1, <2>3 DEF Smaller
    <3> QED
      BY <2>1, <3>1 DEF Pausing
  <2> QED
    BY <2>2, <2>3
<1>4. CASE Wake
  <2>1. loop' = "resolve" /\ fails' = fails /\ backoff' = Smaller(2 * backoff, MaxBackoff)
        /\ fails # 0 /\ backoff = Smaller(PowerOfTwo[fails - 1], MaxBackoff)
    BY <1>4 DEF Wake, Pausing
  <2>2. fails - 1 \in 0 .. MaxFails /\ fails - 1 # MaxFails /\ (fails - 1) + 1 = fails
    BY <1>0, <2>1
  <2>3. backoff' = Smaller(PowerOfTwo[(fails - 1) + 1], MaxBackoff)
    BY <2>1, <2>2, PauseDoubles
  <2> QED
    BY <2>1, <2>2, <2>3 DEF Pausing
<1>5. CASE Connected \/ Restart
  BY <1>1, <1>5 DEF Connected, Restart, Pausing
<1>6. CASE Exit
  BY <1>6 DEF Exit, Pausing, Matched, Up
<1>7. CASE Kill
  BY <1>7 DEF Kill, Pausing
<1> QED
  BY <1>2, <1>3, <1>4, <1>5, <1>6, <1>7 DEF Loop

(* The documented back-off, for any limit: after the n-th failure in a row   *)
(* the pause is 2^(n-1), or the limit, whatever connected, failed or was     *)
(* restarted before.                                                         *)
THEOREM BackoffTheorem == Spec => []BackoffSchedule
<1>1. Init => Pausing
  BY PowerFirst, TunnelAssumption DEF Init, Pausing, Smaller
<1>2. TypeOK /\ Matched /\ Pausing /\ [Next]_vars => Pausing'
  <2>1. ASSUME Pausing, NEW s \in Streams, Task(s) PROVE Pausing'
    BY <2>1 DEF Task, Accept, ReadRequest, ReadAborted, Run, RunEnds, Abandon, WriteAnswer,
                Move, Pausing
  <2> QED
    BY <2>1, PausingLoop DEF Next
<1>3. Pausing => BackoffSchedule
  BY DEF Pausing, BackoffSchedule
<1> QED
  BY <1>1, <1>2, <1>3, TypeCorrect, AttachedKept, PTL DEF Spec
=============================================================================
