------------------------------ MODULE FileStore ------------------------------
(***************************************************************************)
(* What the file handlers promise, without their system calls: every       *)
(* request is open until it is answered; a write takes effect at one       *)
(* instant, once, before it is answered Ok; a refused request has changed  *)
(* no file, and at most left the directory it needed; a request whose      *)
(* daemon died is lost, with or without effect.                            *)
(***************************************************************************)
EXTENDS Naturals

CONSTANTS Tasks, Paths, Dirs, DirOf, Writers, Target
VARIABLES
    store,   \* [Paths -> Entry]
    folders, \* the directories there are
    phase,   \* [Tasks -> Phases]
    changes  \* changes made by local programs

Entry == [id : Nat, to : Paths]
Phases == {"open", "applied", "ok", "refused", "lost"}

TypeOK ==
    /\ store \in [Paths -> Entry]
    /\ folders \subseteq Dirs
    /\ phase \in [Tasks -> Phases]
    /\ changes \in Nat

Init ==
    /\ store \in [Paths -> Entry]
    /\ folders \in SUBSET Dirs
    /\ phase = [t \in Tasks |-> "open"]
    /\ changes = 0

(* A content that no name stands for yet appears under a path.             *)
Fresh(e, p) == e.to = p /\ e.id # 0 /\ \A q \in Paths : store[q].id # e.id

MakeFolder(t) ==
    /\ t \in Writers
    /\ phase[t] = "open"
    /\ folders' = folders \cup {DirOf[Target[t]]}
    /\ UNCHANGED <<store, phase, changes>>

Apply(t) ==
    /\ t \in Writers
    /\ phase[t] = "open"
    /\ phase' = [phase EXCEPT ![t] = "applied"]
    /\ LET e == store'[Target[t]] IN
       /\ Fresh(e, Target[t])
       /\ store' = [store EXCEPT ![Target[t]] = e]
    /\ DirOf[Target[t]] \in folders
    /\ UNCHANGED <<folders, changes>>

Answer(t) ==
    /\ phase[t] = IF t \in Writers THEN "applied" ELSE "open"
    /\ phase' = [phase EXCEPT ![t] = "ok"]
    /\ UNCHANGED <<store, folders, changes>>

Refuse(t) ==
    /\ phase[t] = "open"
    /\ phase' = [phase EXCEPT ![t] = "refused"]
    /\ UNCHANGED <<store, folders, changes>>

Lose ==
    /\ \A t \in Tasks :
          \/ phase'[t] = phase[t]
          \/ phase[t] \in {"open", "applied"} /\ phase'[t] = "lost"
    /\ phase' = [t \in Tasks |-> phase'[t]]
    /\ UNCHANGED <<store, folders, changes>>

LocalChange(p) ==
    /\ LET e == store'[p] IN
       /\ \/ Fresh(e, p) /\ folders' = folders \cup {DirOf[p]}
          \/ e = [id |-> 0, to |-> p] /\ folders' = folders
       /\ store' = [store EXCEPT ![p] = e]
    /\ changes' = changes + 1
    /\ UNCHANGED phase

Next ==
    \/ \E t \in Tasks : MakeFolder(t) \/ Apply(t) \/ Answer(t) \/ Refuse(t)
    \/ Lose
    \/ \E p \in Paths : LocalChange(p)

Spec == Init /\ [][Next]_<<store, folders, phase, changes>>
=============================================================================
