------------------------------- MODULE AuditLog -------------------------------
(***************************************************************************)
(* The audit log: one file a day, to which handlers, lifecycle events and   *)
(* pairing commands append at the same time, and the `audit` command that   *)
(* lists it.  The file is opened for appending and not buffered, so that    *)
(* `writeln!` is two writes, the text and the end of the line; each is      *)
(* atomic.  A writer may fail or be killed before, between or after them.   *)
(*                                                                          *)
(* A day's file is the sequence of what was appended.  `audit` takes a line *)
(* apart as one object: a line with two, or none, is passed over silently.  *)
(***************************************************************************)
EXTENDS Naturals, Sequences, FiniteSets

CONSTANTS
    Entries,   \* the entries of a run, each written once
    Width,     \* writers at a time
    DayLength, \* length of a day
    MaxTime,   \* bound: when time ends
    MaxFails   \* bound: writers that fail or are killed

ASSUME AuditAssumption ==
    /\ IsFiniteSet(Entries) /\ "nl" \notin Entries
    /\ Width \in Nat /\ DayLength \in Nat \ {0} /\ MaxTime \in Nat /\ MaxFails \in Nat

VARIABLES
    now,
    files,  \* [Days -> Seq], what each day's file holds
    pc,     \* [Entries -> step of its writer: idle, text, newline, done, failed]
    ts,     \* [Entries -> time it is stamped with]
    beside, \* history: [Entries -> entries that were being written beside it]
    fails   \* history: writers that failed

vars == <<now, files, pc, ts, beside, fails>>

Day(t) == t \div DayLength
Days == {Day(t) : t \in 0 .. MaxTime}
Underway(e) == pc[e] \in {"text", "newline"}

Init ==
    /\ now = 0 /\ fails = 0
    /\ files = [d \in Days |-> << >>]
    /\ pc = [e \in Entries |-> "idle"]
    /\ ts = [e \in Entries |-> 0]
    /\ beside = [e \in Entries |-> {}]

-----------------------------------------------------------------------------
Tick ==
    /\ now < MaxTime
    /\ now' = now + 1
    /\ UNCHANGED <<files, pc, ts, beside, fails>>

(* The writers under way and a new one are beside each other.               *)
Join(e) == beside' = [f \in Entries |-> CASE f = e      -> {g \in Entries : Underway(g)}
                                          [] Underway(f) -> beside[f] \cup {e}
                                          [] OTHER       -> beside[f]]

(* Audit::write stamps the entry.                                           *)
Stamp(e) ==
    /\ pc[e] = "idle" /\ Cardinality({f \in Entries : Underway(f)}) < Width
    /\ ts' = [ts EXCEPT ![e] = now]
    /\ pc' = [pc EXCEPT ![e] = "text"]
    /\ Join(e)
    /\ UNCHANGED <<now, files, fails>>

AppendTo(day, mark) == files' = [files EXCEPT ![day] = Append(@, mark)]

(* Variant: the file is the current day's, not that of the stamp.           *)
WriteTextToday(e) ==
    /\ pc[e] = "text"
    /\ AppendTo(Day(now), e)
    /\ pc' = [pc EXCEPT ![e] = "newline"]
    /\ UNCHANGED <<now, ts, beside, fails>>

(* append_line: the text goes to the file of the entry's own day ...        *)
WriteText(e) ==
    /\ pc[e] = "text"
    /\ AppendTo(Day(ts[e]), e)
    /\ pc' = [pc EXCEPT ![e] = "newline"]
    /\ UNCHANGED <<now, ts, beside, fails>>

(* Variant: write! in the place of writeln!.                                *)
WriteNoNewline(e) ==
    /\ pc[e] = "newline"
    /\ pc' = [pc EXCEPT ![e] = "done"]
    /\ UNCHANGED <<now, files, ts, beside, fails>>

(* ... and the end of the line after it.                                    *)
WriteNewline(e) ==
    /\ pc[e] = "newline"
    /\ AppendTo(Day(ts[e]), "nl")
    /\ pc' = [pc EXCEPT ![e] = "done"]
    /\ UNCHANGED <<now, ts, beside, fails>>

(* A write fails, or the process is killed.                                 *)
Fail(e) ==
    /\ Underway(e) /\ fails < MaxFails
    /\ fails' = fails + 1
    /\ pc' = [pc EXCEPT ![e] = "failed"]
    /\ UNCHANGED <<now, files, ts, beside>>

Next == Tick \/ \E e \in Entries :
            Stamp(e) \/ WriteText(e) \/ WriteNewline(e) \/ Fail(e)

Spec == Init /\ [][Next]_vars

-----------------------------------------------------------------------------
(* The `audit` command.  Spots are the places in the files, in the order in *)
(* which it reads them: day by day, line by line.                           *)
Spots == UNION {{day} \X DOMAIN files[day] : day \in Days}
Mark(p) == files[p[1]][p[2]]

(* Alone on its line, hence one object.                                     *)
Alone(p) ==
    LET file == files[p[1]] i == p[2]
    IN  /\ file[i] # "nl"
        /\ i = 1 \/ file[i - 1] = "nl"
        /\ i = Len(file) \/ file[i + 1] = "nl"

(* Variant: the files are read in no particular order, the last day's first. *)
EarlierUnsorted(p, q) == p[1] > q[1] \/ (p[1] = q[1] /\ p[2] < q[2])

Earlier(p, q) == p[1] < q[1] \/ (p[1] = q[1] /\ p[2] < q[2])

(* What can be shown of the entries since a time, and the last of these.    *)
Shown(since) == {p \in Spots : Alone(p) /\ ts[Mark(p)] >= since}
Listed(since, limit) ==
    {p \in Shown(since) : Cardinality({q \in Shown(since) : Earlier(p, q)}) < limit}

-----------------------------------------------------------------------------
(* What was acknowledged is in the file of the day it is stamped with, once, *)
(* and in no other, whenever midnight passes.                               *)
AckedIsFiled ==
    \A e \in Entries : pc[e] = "done" =>
        \E p \in Spots : /\ p[1] = Day(ts[e])
                         /\ {q \in Spots : Mark(q) = e} = {p}

(* An acknowledged entry is missing from the listing only if another of the  *)
(* same day was written at the same time, or failed, which may have left its *)
(* text in the file without an end of line.                                  *)
HiddenOnlyByAnother ==
    \A e \in Entries :
        pc[e] = "done" /\ (\A f \in Entries \ {e} : Day(ts[f]) = Day(ts[e]) =>
                               f \notin beside[e] /\ pc[f] # "failed")
        => \E p \in Shown(0) : Mark(p) = e

(* The listing is the most recent part of what can be shown: an entry that  *)
(* is left out is no younger than one that is listed, those written side by *)
(* side excepted.                                                           *)
ListsMostRecent ==
    \A since \in 0 .. MaxTime, limit \in 1 .. Cardinality(Entries) :
        LET shown == Shown(since) listed == Listed(since, limit)
        IN  /\ Cardinality(listed) <= limit
            /\ listed # shown => Cardinality(listed) = limit
            /\ \A p \in listed, q \in shown \ listed :
                   \/ ts[Mark(q)] <= ts[Mark(p)]
                   \/ Mark(q) \in beside[Mark(p)]
=============================================================================
