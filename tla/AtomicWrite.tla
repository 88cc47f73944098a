----------------------------- MODULE AtomicWrite -----------------------------
(***************************************************************************)
(* atomic_write of write_file.rs against the page cache: several writers    *)
(* replace one file, block by block into their own temporary files, fsync   *)
(* and rename, while the kernel writes blocks and names back when it likes. *)
(* The daemon may be killed and the machine may lose power at any moment.   *)
(***************************************************************************)
EXTENDS Naturals

CONSTANTS Writers, \* concurrent writes of the file, each with a temp file
          Blocks,  \* length of a new content
          Old      \* the content before the first write, complete on disk

ASSUME BlocksAssumption == Blocks \in Nat \ {0}
ASSUME OldAssumption == Old \notin Writers

VARIABLES
    pc,       \* [Writers -> step]
    cached,   \* [Writers -> 0..Blocks], blocks of a temp file in the cache
    stored,   \* [Writers -> 0..Blocks], those of them on disk
    name,     \* whose content the file name stands for
    diskName  \* the same, as the disk has it

vars == <<pc, cached, stored, name, diskName>>

Steps == {"idle", "fill", "synced", "renamed", "acked", "failed", "dead"}
Underway(w) == pc[w] \in {"idle", "fill", "synced", "renamed"}

TypeOK ==
    /\ pc \in [Writers -> Steps]
    /\ cached \in [Writers -> 0 .. Blocks]
    /\ stored \in [Writers -> 0 .. Blocks]
    /\ name \in Writers \cup {Old}
    /\ diskName \in Writers \cup {Old}

Init ==
    /\ pc = [w \in Writers |-> "idle"]
    /\ cached = [w \in Writers |-> 0]
    /\ stored = [w \in Writers |-> 0]
    /\ name = Old /\ diskName = Old

Goto(w, step) == pc' = [pc EXCEPT ![w] = step]

(* NamedTempFile::new_in, in the directory of the target.                  *)
Create(w) ==
    /\ pc[w] = "idle"
    /\ Goto(w, "fill")
    /\ UNCHANGED <<cached, stored, name, diskName>>

(* Variant: a write that is interrupted is tried again from the first       *)
(* block, behind the blocks that are there already.                         *)
FillRetried(w) ==
    /\ pc[w] = "fill"
    /\ cached[w] < Blocks
    /\ cached' = [cached EXCEPT ![w] = @ + 1] \/ cached' = [cached EXCEPT ![w] = @ + Blocks]
    /\ UNCHANGED <<pc, stored, name, diskName>>

(* write_all: one block at a time reaches the page cache, and one that is   *)
(* interrupted goes on behind the last.                                     *)
Fill(w) ==
    /\ pc[w] = "fill"
    /\ cached[w] < Blocks
    /\ cached' = [cached EXCEPT ![w] = @ + 1]
    /\ UNCHANGED <<pc, stored, name, diskName>>

(* Variant: no fsync before the rename.                                     *)
SyncSkipped(w) ==
    /\ pc[w] = "fill"
    /\ cached[w] = Blocks
    /\ Goto(w, "synced")
    /\ UNCHANGED <<cached, stored, name, diskName>>

(* sync_all returns when every block written so far is on disk.            *)
Sync(w) ==
    /\ pc[w] = "fill"
    /\ cached[w] = Blocks
    /\ Goto(w, "synced")
    /\ stored' = [stored EXCEPT ![w] = cached[w]]
    /\ UNCHANGED <<cached, name, diskName>>

(* persist: from here on every other process sees the new content.         *)
Rename(w) ==
    /\ pc[w] = "synced"
    /\ Goto(w, "renamed")
    /\ name' = w
    /\ UNCHANGED <<cached, stored, diskName>>

(* The handler answers Ok; the directory is not synced first.              *)
Ack(w) ==
    /\ pc[w] = "renamed"
    /\ Goto(w, "acked")
    /\ UNCHANGED <<cached, stored, name, diskName>>

(* Variant: a failure after the rename is reported like one before it.     *)
FailLate(w) ==
    /\ pc[w] \in {"idle", "fill", "synced", "renamed"}
    /\ Goto(w, "failed")
    /\ UNCHANGED <<cached, stored, name, diskName>>

(* Creating, filling, syncing or renaming fails, which drops the temp file. *)
Fail(w) ==
    /\ pc[w] \in {"idle", "fill", "synced"}
    /\ Goto(w, "failed")
    /\ UNCHANGED <<cached, stored, name, diskName>>

(* The kernel writes back a block of a temp file, or the directory.        *)
WriteBack(w) ==
    /\ stored[w] < cached[w]
    /\ stored' = [stored EXCEPT ![w] = @ + 1]
    /\ UNCHANGED <<pc, cached, name, diskName>>

WriteBackName ==
    /\ diskName # name
    /\ diskName' = name
    /\ UNCHANGED <<pc, cached, stored, name>>

Stopped == [w \in Writers |-> IF Underway(w) /\ pc[w] # "idle" THEN "dead" ELSE pc[w]]

(* The process dies, the cache survives.                                   *)
Kill ==
    /\ \E w \in Writers : pc[w] \in {"fill", "synced", "renamed"}
    /\ pc' = Stopped
    /\ UNCHANGED <<cached, stored, name, diskName>>

(* The machine dies: what is on disk is all there is.                      *)
PowerLoss ==
    /\ <<name, cached>> # <<diskName, stored>>
    /\ pc' = Stopped
    /\ name' = diskName
    /\ cached' = stored
    /\ UNCHANGED <<stored, diskName>>

Next ==
    \/ \E w \in Writers : Create(w) \/ Fill(w) \/ Sync(w) \/ Rename(w) \/ Ack(w) \/ Fail(w)
    \/ \E w \in Writers : WriteBack(w)
    \/ WriteBackName \/ Kill \/ PowerLoss

Spec == Init /\ [][Next]_vars

-----------------------------------------------------------------------------
(* Never torn (write_file.rs:10): whatever the name stands for, in the      *)
(* cache and on the disk a power loss would leave, is a complete content.   *)
NeverTorn ==
    /\ name \in Writers => cached[name] = Blocks
    /\ diskName \in Writers => stored[diskName] = Blocks

(* A write answered with an error left the file alone, now and on disk.    *)
FailedLeavesNoTrace ==
    \A w \in Writers : pc[w] = "failed" => name # w /\ diskName # w

(* write_file.rs:11-12, "fsync the temp file before rename so the rename    *)
(* point is a durable commit": an acknowledged content that is in place     *)
(* gives way only to a newer rename.                                        *)
AckedStays ==
    [][\A w \in Writers :
          pc[w] = "acked" /\ name = w
              => name' = w \/ \E v \in Writers : pc[v] = "synced" /\ name' = v]_vars
=============================================================================
