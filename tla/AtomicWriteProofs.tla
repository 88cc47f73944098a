-------------------------- MODULE AtomicWriteProofs --------------------------
(* Theorems about AtomicWrite, for any number of writers and blocks.       *)
EXTENDS AtomicWrite, TLAPS

(* The strengthening: a content whose rename is allowed is complete on      *)
(* disk, and only renamed contents are ever named, in the cache or on disk. *)
IInv ==
    /\ TypeOK
    /\ \A w \in Writers : pc[w] \in {"synced", "renamed", "acked"} => stored[w] = Blocks
    /\ \A w \in Writers : stored[w] <= cached[w]
    /\ \A w \in Writers : name = w \/ diskName = w
          => pc[w] \in {"renamed", "acked", "dead"} /\ stored[w] = Blocks

LEMMA Inductive == Spec => []IInv
<1> USE BlocksAssumption, OldAssumption
<1>1. Init => IInv
  BY DEF Init, IInv, TypeOK, Steps
<1>2. IInv /\ [Next]_vars => IInv'
  <2> SUFFICES ASSUME IInv, [Next]_vars PROVE IInv'
    OBVIOUS
  <2> USE DEF IInv, TypeOK, Steps
  <2>1. ASSUME NEW w \in Writers, Create(w) PROVE IInv'
    BY <2>1 DEF Create, Goto
  <2>2. ASSUME NEW w \in Writers, Fill(w) PROVE IInv'
    BY <2>2 DEF Fill
  <2>3. ASSUME NEW w \in Writers, Sync(w) PROVE IInv'
    BY <2>3 DEF Sync, Goto
  <2>4. ASSUME NEW w \in Writers, Rename(w) PROVE IInv'
    BY <2>4 DEF Rename, Goto
  <2>5. ASSUME NEW w \in Writers, Ack(w) PROVE IInv'
    BY <2>5 DEF Ack, Goto
  <2>6. ASSUME NEW w \in Writers, Fail(w) PROVE IInv'
    BY <2>6 DEF Fail, Goto
  <2>7. ASSUME NEW w \in Writers, WriteBack(w) PROVE IInv'
    BY <2>7 DEF WriteBack
  <2>8. CASE WriteBackName
    BY <2>8 DEF WriteBackName
  <2>9. CASE Kill
    BY <2>9 DEF Kill, Stopped, Underway
  <2>10. CASE PowerLoss
    BY <2>10 DEF PowerLoss, Stopped, Underway
  <2>11. CASE UNCHANGED vars
    BY <2>11 DEF vars
  <2> QED
    BY <2>1, <2>2, <2>3, <2>4, <2>5, <2>6, <2>7, <2>8, <2>9, <2>10, <2>11 DEF Next
<1> QED
  BY <1>1, <1>2, PTL DEF Spec

(* Type correctness of every step, kills and power losses included.        *)
THEOREM TypeCorrect == Spec => []TypeOK
<1>1. IInv => TypeOK
  BY DEF IInv
<1> QED
  BY <1>1, Inductive, PTL

(* No kill and no power loss ever leaves part of a content under the name. *)
THEOREM NeverTornTheorem == Spec => []NeverTorn
<1>1. IInv => NeverTorn
  BY BlocksAssumption DEF IInv, TypeOK, NeverTorn
<1> QED
  BY <1>1, Inductive, PTL

(* A write answered with an error is nowhere, in the cache or on disk.     *)
THEOREM NoTraceTheorem == Spec => []FailedLeavesNoTrace
<1>1. IInv => FailedLeavesNoTrace
  BY DEF IInv, FailedLeavesNoTrace
<1> QED
  BY <1>1, Inductive, PTL
=============================================================================
