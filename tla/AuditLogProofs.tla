---------------------------- MODULE AuditLogProofs ----------------------------
(* Theorems about AuditLog, for any entries, writers, days and failures.    *)
EXTENDS AuditLog, FiniteSetTheorems, TLAPS

Marks == Entries \cup {"nl"}
Steps == {"idle", "text", "newline", "done", "failed"}

Typed ==
    /\ now \in 0 .. MaxTime
    /\ files \in [Days -> Seq(Marks)]
    /\ pc \in [Entries -> Steps]
    /\ ts \in [Entries -> 0 .. MaxTime]
    /\ beside \in [Entries -> SUBSET Entries]

LEMMA DayIn == ASSUME NEW t \in 0 .. MaxTime PROVE Day(t) \in Days
  BY DEF Days

(* What appending a mark does to a file.                                    *)
LEMMA Appended ==
    ASSUME NEW s \in Seq(Marks), NEW m \in Marks
    PROVE  /\ Append(s, m) \in Seq(Marks)
           /\ Len(Append(s, m)) = Len(s) + 1
           /\ Append(s, m)[Len(s) + 1] = m
           /\ \A i \in 1 .. Len(s) : Append(s, m)[i] = s[i]
  OBVIOUS

LEMMA AppendedTo ==
    ASSUME Typed, NEW d \in Days, NEW m \in Marks, AppendTo(d, m)
    PROVE  /\ files' \in [Days -> Seq(Marks)]
           /\ files'[d] = Append(files[d], m)
           /\ \A x \in Days \ {d} : files'[x] = files[x]
  BY DEF Typed, AppendTo

LEMMA TypedStep ==
    ASSUME Typed, [Next]_vars PROVE Typed'
<1> USE DEF Typed
<1>1. CASE Tick
  BY <1>1, AuditAssumption DEF Tick
<1>2. ASSUME NEW e \in Entries, Stamp(e) PROVE Typed'
  <2>1. beside' \in [Entries -> SUBSET Entries]
    BY <1>2 DEF Stamp, Join
  <2> QED
    BY <1>2, <2>1 DEF Stamp, Steps
<1>3. ASSUME NEW e \in Entries, WriteText(e) PROVE Typed'
  BY <1>3, DayIn, AppendedTo DEF WriteText, Marks, Steps
<1>4. ASSUME NEW e \in Entries, WriteNewline(e) PROVE Typed'
  BY <1>4, DayIn, AppendedTo DEF WriteNewline, Marks, Steps
<1>5. ASSUME NEW e \in Entries, Fail(e) PROVE Typed'
  BY <1>5 DEF Fail, Steps
<1>6. CASE UNCHANGED vars
  BY <1>6 DEF vars
<1> QED
  BY <1>1, <1>2, <1>3, <1>4, <1>5, <1>6 DEF Next

LEMMA TypeCorrect == Spec => []Typed
<1>1. Init => Typed
  BY AuditAssumption DEF Init, Typed, Steps
<1> QED
  BY <1>1, TypedStep, PTL DEF Spec

-----------------------------------------------------------------------------
(* Where an entry is: nowhere before its text is written, then in the file  *)
(* of its day and in one place.                                             *)
At(e, s) == {i \in 1 .. Len(s) : s[i] = e}
Placed(e) == pc[e] \notin {"idle", "text"}
Placing ==
    \A e \in Entries : \A d \in Days : At(e, files[d]) # {} =>
        Placed(e) /\ d = Day(ts[e]) /\ \E i : At(e, files[d]) = {i}
Written ==
    \A e \in Entries : pc[e] \in {"newline", "done"} => At(e, files[Day(ts[e])]) # {}

LEMMA AtAppended ==
    ASSUME NEW e \in Entries, NEW s \in Seq(Marks), NEW m \in Marks
    PROVE  At(e, Append(s, m)) = IF m = e THEN At(e, s) \cup {Len(s) + 1} ELSE At(e, s)
<1>1. 1 .. Len(Append(s, m)) = 1 .. Len(s) \cup {Len(s) + 1}
  BY Appended
<1> QED
  BY <1>1, Appended DEF At

(* A step of the writer of e that appends its text or the end of its line.  *)
LEMMA PlacingAppend ==
    ASSUME Typed, Placing, Written, NEW e \in Entries, NEW m \in {e, "nl"},
           AppendTo(Day(ts[e]), m), ts' = ts,
           \A f \in Entries \ {e} : pc'[f] = pc[f],
           m = e => pc[e] = "text" /\ pc'[e] = "newline",
           m # e => pc[e] = "newline" /\ pc'[e] = "done"
    PROVE  Placing' /\ Written'
<1> USE DEF Placed
<1> DEFINE D == Day(ts[e])
<1>1. D \in Days /\ m \in Marks /\ \A d \in Days : files[d] \in Seq(Marks)
  BY DayIn DEF Typed, Marks
<1>2. files'[D] = Append(files[D], m) /\ \A x \in Days \ {D} : files'[x] = files[x]
  BY <1>1, AppendedTo
<1> HIDE DEF D
<1>3. \A f \in Entries : \A d \in Days :
        /\ d = D /\ m = f => At(f, files'[d]) = At(f, files[d]) \cup {Len(files[D]) + 1}
        /\ d # D \/ m # f => At(f, files'[d]) = At(f, files[d])
  <2> SUFFICES ASSUME NEW f \in Entries, NEW d \in Days
               PROVE  /\ d = D /\ m = f => At(f, files'[d]) = At(f, files[d]) \cup {Len(files[D]) + 1}
                      /\ d # D \/ m # f => At(f, files'[d]) = At(f, files[d])
    OBVIOUS
  <2>1. CASE d = D
    <3>1. At(f, Append(files[D], m))
            = IF m = f THEN At(f, files[D]) \cup {Len(files[D]) + 1} ELSE At(f, files[D])
      BY <1>1, AtAppended
    <3> QED
      BY <1>2, <2>1, <3>1
  <2>2. CASE d # D
    BY <1>2, <2>2
  <2> QED
    BY <2>1, <2>2
<1>4. m = e => \A d \in Days : At(e, files[d]) = {}
  BY DEF Placing
<1>5. \A f \in Entries : m = f => f = e
  BY AuditAssumption
<1>6. Placing'
  <2> SUFFICES ASSUME NEW f \in Entries, NEW d \in Days, At(f, files'[d]) # {}
               PROVE  Placed(f)' /\ d = Day(ts[f]) /\ \E i : At(f, files'[d]) = {i}
    BY DEF Placing
  <2>1. CASE d = D /\ m = f
    <3>1. At(f, files'[d]) = {Len(files[D]) + 1} /\ f = e
      BY <1>3, <1>4, <1>5, <2>1
    <3> QED
      BY <2>1, <3>1 DEF D
  <2>2. CASE d # D \/ m # f
    <3>1. At(f, files'[d]) = At(f, files[d])
      BY <1>3, <2>2
    <3>2. Placed(f) /\ d = Day(ts[f]) /\ \E i : At(f, files[d]) = {i}
      BY <3>1 DEF Placing
    <3> QED
      BY <3>1, <3>2
  <2> QED
    BY <2>1, <2>2
<1>7. Written'
  <2>1. \A f \in Entries : Day(ts[f]) \in Days
    BY DayIn DEF Typed
  <2> SUFFICES ASSUME NEW f \in Entries, pc'[f] \in {"newline", "done"}
               PROVE  At(f, files'[Day(ts[f])]) # {}
    BY DEF Written
  <2>2. CASE m = f
    BY <1>3, <1>5, <2>1, <2>2 DEF D
  <2>3. CASE m # f
    <3>1. At(f, files'[Day(ts[f])]) = At(f, files[Day(ts[f])])
      BY <1>3, <2>1, <2>3
    <3>2. pc[f] \in {"newline", "done"}
      BY <2>3
    <3> QED
      BY <3>1, <3>2 DEF Written
  <2> QED
    BY <2>2, <2>3
<1> QED
  BY <1>6, <1>7

LEMMA PlacingStep ==
    ASSUME Typed, Placing, Written, [Next]_vars
    PROVE  Placing' /\ Written'
<1> USE DEF Placed
<1>1. CASE Tick \/ UNCHANGED vars
  BY <1>1 DEF Tick, vars, Placing, Written
<1>2. ASSUME NEW e \in Entries, Stamp(e) PROVE Placing' /\ Written'
  <2>1. /\ files' = files /\ pc[e] = "idle" /\ pc'[e] = "text"
        /\ \A f \in Entries \ {e} : pc'[f] = pc[f] /\ ts'[f] = ts[f]
    BY <1>2 DEF Stamp, Typed
  <2> QED
    BY <2>1 DEF Placing, Written
<1>3. ASSUME NEW e \in Entries, WriteText(e) PROVE Placing' /\ Written'
  <2>1. /\ AppendTo(Day(ts[e]), e) /\ ts' = ts /\ pc[e] = "text" /\ pc'[e] = "newline"
        /\ \A f \in Entries \ {e} : pc'[f] = pc[f]
    BY <1>3 DEF WriteText, Typed
  <2> QED
    BY <2>1, PlacingAppend
<1>4. ASSUME NEW e \in Entries, WriteNewline(e) PROVE Placing' /\ Written'
  <2>1. /\ AppendTo(Day(ts[e]), "nl") /\ ts' = ts /\ pc[e] = "newline" /\ pc'[e] = "done"
        /\ \A f \in Entries \ {e} : pc'[f] = pc[f]
    BY <1>4 DEF WriteNewline, Typed
  <2>2. e # "nl"
    BY AuditAssumption
  <2> QED
    BY <2>1, <2>2, PlacingAppend
<1>5. ASSUME NEW e \in Entries, Fail(e) PROVE Placing' /\ Written'
  BY <1>5 DEF Fail, Typed, Placing, Written
<1> QED
  BY <1>1, <1>2, <1>3, <1>4, <1>5 DEF Next

LEMMA Kept == Spec => [](Placing /\ Written)
<1>1. Init => Placing /\ Written
  BY DEF Init, Placing, Written, At
<1>2. Typed /\ Placing /\ Written /\ [Next]_vars => Placing' /\ Written'
  BY PlacingStep
<1> QED
  BY <1>1, <1>2, TypeCorrect, PTL DEF Spec

(* An acknowledged entry is in the file of the day it is stamped with, once, *)
(* whoever writes beside it and whenever midnight passes.                    *)
THEOREM FiledTheorem == Spec => []AckedIsFiled
<1>1. Typed /\ Placing /\ Written => AckedIsFiled
  <2> SUFFICES ASSUME Typed, Placing, Written, NEW e \in Entries, pc[e] = "done"
               PROVE  \E p \in Spots : p[1] = Day(ts[e]) /\ {q \in Spots : Mark(q) = e} = {p}
    BY DEF AckedIsFiled
  <2> DEFINE D == Day(ts[e])
  <2>1. D \in Days
    BY DayIn DEF Typed
  <2>2. PICK i : At(e, files[D]) = {i}
    BY <2>1 DEF Placing, Written
  <2>3. \A d \in Days : DOMAIN files[d] = 1 .. Len(files[d])
    BY DEF Typed
  <2>4. \A d \in Days : At(e, files[d]) # {} => d = D
    BY DEF Placing
  <2> HIDE DEF D
  <2>5. <<D, i>> \in Spots /\ Mark(<<D, i>>) = e
    BY <2>1, <2>2, <2>3 DEF Spots, Mark, At
  <2>6. ASSUME NEW q \in Spots, Mark(q) = e PROVE q = <<D, i>>
    <3>1. PICK d \in Days : q \in {d} \X DOMAIN files[d]
      BY DEF Spots
    <3>2. q = <<d, q[2]>> /\ q[2] \in At(e, files[d])
      BY <2>3, <2>6, <3>1 DEF Mark, At
    <3> QED
      BY <2>2, <2>4, <3>1, <3>2
  <2> QED
    BY <2>5, <2>6 DEF D
<1> QED
  BY <1>1, TypeCorrect, Kept, PTL

-----------------------------------------------------------------------------
(* Who can be on one line: writers under way know of each other; a text at  *)
(* the end of a file is still to get its end of line, or never will; and of *)
(* two texts without one between, the first has failed or they were beside  *)
(* each other.                                                              *)
Known ==
    \A e \in Entries : \A f \in Entries \ {e} : Underway(e) /\ Underway(f) => f \in beside[e]
Open ==
    \A e \in Entries : \A d \in Days :
        Len(files[d]) \in At(e, files[d]) => pc[e] \in {"newline", "failed"}
Joined(e, f) == pc[e] = "failed" \/ (f \in beside[e] /\ e \in beside[f])
Adjoining ==
    \A e, f \in Entries : \A d \in Days :
        (\E i \in At(e, files[d]) : i + 1 \in At(f, files[d])) => Joined(e, f)
Lines == Known /\ Open /\ Adjoining

LEMMA LinesText ==
    ASSUME Typed, Placing, Lines, NEW e \in Entries, WriteText(e)
    PROVE  Lines'
<1> DEFINE D == Day(ts[e])
<1>1. /\ D \in Days /\ e \in Marks /\ AppendTo(D, e)
      /\ \A d \in Days : files[d] \in Seq(Marks)
  BY DayIn DEF WriteText, Typed, Marks
<1>2. files'[D] = Append(files[D], e) /\ \A x \in Days \ {D} : files'[x] = files[x]
  BY <1>1, AppendedTo
<1>3. /\ pc[e] = "text" /\ pc'[e] = "newline" /\ beside' = beside
      /\ \A f \in Entries \ {e} : pc'[f] = pc[f]
  BY DEF WriteText, Typed
<1>4. \A d \in Days : At(e, files[d]) = {}
  BY <1>3 DEF Placing, Placed
<1> HIDE DEF D
<1>5. Known'
  BY <1>3 DEF Lines, Known, Underway
<1>6. /\ Len(files'[D]) = Len(files[D]) + 1 /\ Len(files[D]) \in Nat
      /\ At(e, files'[D]) = {Len(files[D]) + 1}
      /\ \A f \in Entries \ {e} : At(f, files'[D]) = At(f, files[D])
  BY <1>1, <1>2, <1>4, Appended, AtAppended
<1>7. Open'
  <2> SUFFICES ASSUME NEW f \in Entries, NEW d \in Days, Len(files'[d]) \in At(f, files'[d])
               PROVE  pc'[f] \in {"newline", "failed"}
    BY DEF Open
  <2>1. CASE f = e
    BY <1>3, <2>1
  <2>2. CASE f # e /\ d = D
    BY <1>6, <2>2 DEF At
  <2>3. CASE f # e /\ d # D
    BY <1>2, <1>3, <2>3 DEF Lines, Open
  <2> QED
    BY <2>1, <2>2, <2>3
<1>8. Adjoining'
  <2> SUFFICES ASSUME NEW f \in Entries, NEW g \in Entries, NEW d \in Days,
                      NEW i \in At(f, files'[d]), i + 1 \in At(g, files'[d])
               PROVE  Joined(f, g)'
    BY DEF Adjoining
  <2>1. CASE d # D
    <3>1. Joined(f, g) /\ f # e
      BY <1>2, <1>4, <2>1 DEF Lines, Adjoining
    <3> QED
      BY <1>3, <3>1 DEF Joined
  <2>2. CASE d = D /\ f = e
    BY <1>6, <2>2 DEF At
  <2>3. CASE d = D /\ f # e /\ g # e
    <3>1. Joined(f, g)
      BY <1>6, <2>3 DEF Lines, Adjoining
    <3> QED
      BY <1>3, <2>3, <3>1 DEF Joined
  <2>4. CASE d = D /\ f # e /\ g = e
    <3>1. i = Len(files[D]) /\ i \in At(f, files[D])
      BY <1>6, <2>4 DEF At
    <3>2. pc[f] \in {"newline", "failed"}
      BY <1>1, <3>1 DEF Lines, Open
    <3> QED
      BY <1>3, <2>4, <3>2 DEF Lines, Known, Underway, Joined
  <2> QED
    BY <2>1, <2>2, <2>3, <2>4
<1> QED
  BY <1>5, <1>7, <1>8 DEF Lines

LEMMA LinesNewline ==
    ASSUME Typed, Placing, Lines, NEW e \in Entries, WriteNewline(e)
    PROVE  Lines'
<1> DEFINE D == Day(ts[e])
<1>1. /\ D \in Days /\ "nl" \in Marks /\ AppendTo(D, "nl") /\ "nl" \notin Entries
      /\ \A d \in Days : files[d] \in Seq(Marks)
  BY DayIn, AuditAssumption DEF WriteNewline, Typed, Marks
<1>2. files'[D] = Append(files[D], "nl") /\ \A x \in Days \ {D} : files'[x] = files[x]
  BY <1>1, AppendedTo
<1>3. /\ pc[e] = "newline" /\ pc'[e] = "done" /\ beside' = beside
      /\ \A f \in Entries \ {e} : pc'[f] = pc[f]
  BY DEF WriteNewline, Typed
<1>4. \A d \in Days \ {D} : At(e, files[d]) = {}
  BY DEF Placing
<1> HIDE DEF D
<1>5. Known'
  BY <1>3 DEF Lines, Known, Underway
<1>6. /\ Len(files'[D]) = Len(files[D]) + 1 /\ Len(files[D]) \in Nat
      /\ \A f \in Entries : \A d \in Days : At(f, files'[d]) = At(f, files[d])
  <2>1. \A f \in Entries : At(f, files'[D]) = At(f, files[D])
    BY <1>1, <1>2, AtAppended
  <2>2. \A f \in Entries : \A d \in Days \ {D} : At(f, files'[d]) = At(f, files[d])
    BY <1>2
  <2>3. files[D] \in Seq(Marks)
    BY <1>1
  <2>4. Len(files'[D]) = Len(files[D]) + 1 /\ Len(files[D]) \in Nat
    BY <1>1, <1>2, <2>3, Appended
  <2> QED
    BY <2>1, <2>2, <2>4
<1>7. Open'
  <2> SUFFICES ASSUME NEW f \in Entries, NEW d \in Days, Len(files'[d]) \in At(f, files'[d])
               PROVE  pc'[f] \in {"newline", "failed"}
    BY DEF Open
  <2>1. CASE d = D
    BY <1>6, <2>1 DEF At
  <2>2. CASE d # D
    <3>1. Len(files[d]) \in At(f, files[d]) /\ f # e
      BY <1>2, <1>4, <2>2
    <3> QED
      BY <1>3, <3>1 DEF Lines, Open
  <2> QED
    BY <2>1, <2>2
<1>8. Adjoining'
  BY <1>3, <1>6 DEF Lines, Adjoining, Joined
<1> QED
  BY <1>5, <1>7, <1>8 DEF Lines

LEMMA LinesStep ==
    ASSUME Typed, Placing, Lines, [Next]_vars
    PROVE  Lines'
<1>1. CASE Tick \/ UNCHANGED vars
  BY <1>1 DEF Tick, vars, Lines, Known, Open, Adjoining, Joined, Underway
<1>2. ASSUME NEW e \in Entries, Stamp(e) PROVE Lines'
  <2>1. /\ files' = files /\ pc[e] = "idle" /\ pc'[e] = "text"
        /\ \A f \in Entries \ {e} : pc'[f] = pc[f]
    BY <1>2 DEF Stamp, Typed
  <2>2. beside' = [f \in Entries |-> CASE f = e      -> {g \in Entries : Underway(g)}
                                        [] Underway(f) -> beside[f] \cup {e}
                                        [] OTHER       -> beside[f]]
    BY <1>2 DEF Stamp, Join
  <2>3. /\ \A g \in Entries : Underway(g) => g \in beside'[e]
        /\ \A f \in Entries \ {e} : /\ beside[f] \subseteq beside'[f]
                                    /\ Underway(f) => e \in beside'[f]
    <3>1. \A g \in Entries : Underway(g) => g \in beside'[e]
      <4>1. beside'[e] = CASE e = e      -> {g \in Entries : Underway(g)}
                           [] Underway(e) -> beside[e] \cup {e}
                           [] OTHER       -> beside[e]
        BY <2>2
      <4>2. ~Underway(e)
        BY <2>1 DEF Underway
      <4> QED
        BY <4>1, <4>2
    <3>2. \A f \in Entries \ {e} : beside'[f] = IF Underway(f) THEN beside[f] \cup {e} ELSE beside[f]
      <4> SUFFICES ASSUME NEW f \in Entries \ {e}
                   PROVE  beside'[f] = IF Underway(f) THEN beside[f] \cup {e} ELSE beside[f]
        OBVIOUS
      <4>1. Underway(f) \in BOOLEAN
        BY DEF Underway
      <4>2. beside'[f] = CASE f = e      -> {g \in Entries : Underway(g)}
                           [] Underway(f) -> beside[f] \cup {e}
                           [] OTHER       -> beside[f]
        BY <2>2
      <4>3. CASE Underway(f)
        BY <4>2, <4>3
      <4>4. CASE ~Underway(f)
        BY <4>2, <4>4
      <4> QED
        BY <4>3, <4>4
    <3>3. \A f \in Entries \ {e} : beside[f] \subseteq beside'[f] /\ (Underway(f) => e \in beside'[f])
      BY <3>2
    <3> QED
      BY <3>1, <3>3
  <2>4. \A d \in Days : At(e, files[d]) = {}
    BY <2>1 DEF Placing, Placed
  <2>5. Known'
    BY <2>1, <2>3 DEF Lines, Known, Underway
  <2>6. Open'
    BY <2>1, <2>4 DEF Lines, Open
  <2>7. Adjoining'
    <3> SUFFICES ASSUME NEW f \in Entries, NEW g \in Entries, NEW d \in Days,
                        \E i \in At(f, files[d]) : i + 1 \in At(g, files[d])
                 PROVE  Joined(f, g)'
      BY <2>1 DEF Adjoining
    <3>1. f # e /\ g # e /\ Joined(f, g)
      BY <2>4 DEF Lines, Adjoining
    <3> QED
      BY <2>1, <2>3, <3>1 DEF Joined
  <2> QED
    BY <2>5, <2>6, <2>7 DEF Lines
<1>3. ASSUME NEW e \in Entries, Fail(e) PROVE Lines'
  <2>1. /\ files' = files /\ beside' = beside /\ pc'[e] = "failed"
        /\ \A f \in Entries \ {e} : pc'[f] = pc[f]
    BY <1>3 DEF Fail, Typed
  <2> QED
    BY <2>1 DEF Lines, Known, Open, Adjoining, Joined, Underway
<1> QED
  BY <1>1, <1>2, <1>3, LinesText, LinesNewline DEF Next

(* An entry that was acknowledged is listed unless another was written to    *)
(* its file beside it, or was left there without its end of line.            *)
THEOREM HiddenTheorem == Spec => []HiddenOnlyByAnother
<1>1. Init => Lines
  BY DEF Init, Lines, Known, Open, Adjoining, Underway, At
<1>2. Typed /\ Placing /\ Lines /\ [Next]_vars => Lines'
  BY LinesStep
<1>3. Typed /\ Placing /\ Written /\ Lines => HiddenOnlyByAnother
  <2> SUFFICES ASSUME Typed, Placing, Written, Lines, NEW e \in Entries, pc[e] = "done",
                      \A f \in Entries \ {e} : Day(ts[f]) = Day(ts[e]) =>
                          f \notin beside[e] /\ pc[f] # "failed"
               PROVE  \E p \in Shown(0) : Mark(p) = e
    BY DEF HiddenOnlyByAnother
  <2> DEFINE D == Day(ts[e])
  <2>1. D \in Days /\ "nl" \notin Entries
    BY DayIn, AuditAssumption DEF Typed
  <2>2. PICK i : At(e, files[D]) = {i}
    BY <2>1 DEF Placing, Written
  <2>3. files[D] \in Seq(Marks)
    BY <2>1 DEF Typed
  <2>4. \A f \in Entries : At(f, files[D]) # {} => Day(ts[f]) = Day(ts[e])
    BY <2>1 DEF Placing
  <2> HIDE DEF D
  <2>5. i \in 1 .. Len(files[D]) /\ files[D][i] = e /\ Len(files[D]) \in Nat
    BY <2>2, <2>3 DEF At
  <2>6. ASSUME NEW j \in 1 .. Len(files[D]), j = i - 1 \/ j = i + 1, files[D][j] # "nl"
        PROVE  FALSE
    <3>1. PICK f \in Entries : j \in At(f, files[D])
      BY <2>3, <2>6 DEF Marks, At
    <3>2. f # e /\ Day(ts[f]) = Day(ts[e])
      BY <2>2, <2>4, <2>5, <2>6, <3>1
    <3>3. f \in beside[e] \/ pc[f] = "failed"
      <4>1. CASE j = i + 1
        BY <2>1, <2>2, <3>1, <4>1 DEF Lines, Adjoining, Joined
      <4>2. CASE j = i - 1
        <5>1. j + 1 \in At(e, files[D])
          BY <2>2, <2>5, <4>2
        <5> QED
          BY <2>1, <3>1, <5>1 DEF Lines, Adjoining, Joined
      <4> QED
        BY <2>6, <4>1, <4>2
    <3> QED
      BY <3>2, <3>3
  <2>7. i = 1 \/ files[D][i - 1] = "nl"
    BY <2>5, <2>6
  <2>8. i = Len(files[D]) \/ files[D][i + 1] = "nl"
    BY <2>5, <2>6
  <2>9. Alone(<<D, i>>)
    BY <2>1, <2>5, <2>7, <2>8 DEF Alone
  <2>10. <<D, i>> \in Spots /\ Mark(<<D, i>>) = e
    BY <2>1, <2>3, <2>5 DEF Spots, Mark
  <2>11. ts[e] >= 0
    BY DEF Typed
  <2> QED
    BY <2>9, <2>10, <2>11 DEF Shown
<1> QED
  BY <1>1, <1>2, <1>3, TypeCorrect, Kept, PTL DEF Spec

-----------------------------------------------------------------------------
(* Facts about finite sets, proved from the well-foundedness of inclusion:  *)
(* among some subsets of a finite set one contains no other.                *)
LEMMA Smallest ==
    ASSUME NEW S, IsFiniteSet(S), NEW C, C \subseteq SUBSET S, C # {}
    PROVE  \E X \in C : \A Y \in C : Y \subseteq X => Y = X
<1>1. C \subseteq FiniteSubsetsOf(S)
  BY FS_FiniteSubsetsOfFinite
<1>2. PICK X \in C : \A Y \in C : ~ (<<Y, X>> \in StrictSubsetOrdering(S))
  BY <1>1, FS_StrictSubsetOrderingWellFounded, WFMin
<1>3. ASSUME NEW Y \in C, Y \subseteq X, Y # X PROVE FALSE
  <2>1. <<Y, X>> \in StrictSubsetOrdering(S)
    BY <1>3 DEF StrictSubsetOrdering
  <2> QED
    BY <1>2, <2>1
<1> QED
  BY <1>2, <1>3

(* Places, and those of a set that come after one.                          *)
Places == Nat \X Nat
After(S, p) == {q \in S : Earlier(p, q)}

LEMMA InOrder ==
    /\ \A p \in Places : ~Earlier(p, p)
    /\ \A p, q \in Places : p # q => Earlier(p, q) \/ Earlier(q, p)
    /\ \A p, q, r \in Places : Earlier(p, q) /\ Earlier(q, r) => Earlier(p, r)
<1>1. \A p \in Places : ~Earlier(p, p)
  BY DEF Places, Earlier
<1>2. \A p, q \in Places : p # q => Earlier(p, q) \/ Earlier(q, p)
  BY DEF Places, Earlier
<1>3. \A p, q, r \in Places : Earlier(p, q) /\ Earlier(q, r) => Earlier(p, r)
  BY DEF Places, Earlier
<1> QED
  BY <1>1, <1>2, <1>3

(* The first and the last of a set of places.                               *)
LEMMA LastOf ==
    ASSUME NEW S, S \subseteq Places, IsFiniteSet(S), NEW T, T \subseteq S, T # {}
    PROVE  \E l \in T : \A t \in T : ~Earlier(l, t)
<1> DEFINE C == {After(S, p) : p \in T}
<1>1. C \subseteq SUBSET S /\ C # {}
  BY DEF After
<1>2. \E X \in C : \A Y \in C : Y \subseteq X => Y = X
  <2> HIDE DEF C
  <2> QED
    BY <1>1, Smallest
<1>3. PICK l \in T : \A t \in T : After(S, t) \subseteq After(S, l) => After(S, t) = After(S, l)
  BY <1>2
<1>4. ASSUME NEW t \in T, Earlier(l, t) PROVE FALSE
  <2>1. After(S, t) \subseteq After(S, l)
    BY <1>4, InOrder DEF After
  <2>2. t \in After(S, l) /\ t \notin After(S, t)
    BY <1>4, InOrder DEF After
  <2> QED
    BY <1>3, <2>1, <2>2
<1> QED
  BY <1>4

LEMMA FirstOf ==
    ASSUME NEW S, S \subseteq Places, IsFiniteSet(S), NEW T, T \subseteq S, T # {}
    PROVE  \E l \in T : \A t \in T : ~Earlier(t, l)
<1> DEFINE C == {S \ After(S, p) : p \in T}
<1>1. C \subseteq SUBSET S /\ C # {}
  BY DEF After
<1>2. \E X \in C : \A Y \in C : Y \subseteq X => Y = X
  <2> HIDE DEF C
  <2> QED
    BY <1>1, Smallest
<1>3. PICK l \in T : \A t \in T :
        S \ After(S, t) \subseteq S \ After(S, l) => S \ After(S, t) = S \ After(S, l)
  <2>1. PICK X \in C : \A Y \in C : Y \subseteq X => Y = X
    BY <1>2
  <2>2. PICK l \in T : X = S \ After(S, l)
    BY <2>1
  <2>3. \A t \in T : S \ After(S, t) \in C
    OBVIOUS
  <2> HIDE DEF C
  <2>4. \A t \in T : S \ After(S, t) \subseteq X => S \ After(S, t) = X
    BY <2>1, <2>3
  <2> QED
    BY <2>2, <2>4, Zenon
<1>4. ASSUME NEW t \in T, Earlier(t, l) PROVE FALSE
  <2>1. S \ After(S, t) \subseteq S \ After(S, l)
    BY <1>4, InOrder DEF After
  <2>2. l \in S \ After(S, l) /\ l \notin S \ After(S, t)
    BY <1>4, InOrder DEF After
  <2> QED
    BY <1>3, <2>1, <2>2
<1> QED
  BY <1>4

(* The places of a set that fewer than a limit come after: at most so many,  *)
(* exactly so many where a place is left out, and after every such place.    *)
LEMMA LastFew ==
    ASSUME NEW S, S \subseteq Places, IsFiniteSet(S), NEW limit \in Nat \ {0}
    PROVE  LET last == {p \in S : Cardinality(After(S, p)) < limit}
           IN  /\ Cardinality(last) <= limit
               /\ last # S => Cardinality(last) = limit
               /\ \A p \in last, q \in S \ last : Earlier(q, p)
<1> DEFINE last == {p \in S : Cardinality(After(S, p)) < limit}
<1>1. \A p \in S : IsFiniteSet(After(S, p)) /\ Cardinality(After(S, p)) \in Nat
  BY FS_Subset, FS_CardinalityType DEF After
<1>2. IsFiniteSet(last) /\ Cardinality(last) \in Nat
  BY FS_Subset, FS_CardinalityType
<1>3. \A p, q \in S : Earlier(p, q) => After(S, q) \subseteq After(S, p)
  BY InOrder DEF After
<1>4. Cardinality(last) <= limit
  <2>1. CASE last = {}
    BY <2>1, FS_EmptySet
  <2>2. CASE last # {}
    <3> HIDE DEF last
    <3>1. last \subseteq S
      BY DEF last
    <3>2. PICK l \in last : \A t \in last : ~Earlier(t, l)
      BY <2>2, <3>1, FirstOf
    <3>3. last \ {l} \subseteq After(S, l)
      BY <3>1, <3>2, InOrder DEF After
    <3>4. Cardinality(last \ {l}) <= Cardinality(After(S, l))
      BY <1>1, <3>1, <3>3, FS_Subset
    <3>5. Cardinality(last \ {l}) = Cardinality(last) - 1
      BY <1>2, FS_RemoveElement
    <3>6. Cardinality(After(S, l)) < limit
      BY DEF last
    <3>7. Cardinality(After(S, l)) \in Nat
      BY <1>1, <3>1
    <3> QED
      BY <1>2, <3>4, <3>5, <3>6, <3>7
  <2> QED
    BY <2>1, <2>2
<1>5. ASSUME NEW p \in last, NEW q \in S \ last PROVE Earlier(q, p)
  <2>1. p # q /\ p \in Places /\ q \in Places
    OBVIOUS
  <2>2. CASE Earlier(p, q)
    <3>1. Cardinality(After(S, q)) <= Cardinality(After(S, p))
      BY <1>1, <1>3, <2>2, FS_Subset
    <3>2. Cardinality(After(S, p)) < limit /\ ~(Cardinality(After(S, q)) < limit)
      OBVIOUS
    <3> QED
      BY <1>1, <3>1, <3>2
  <2> QED
    BY <2>1, <2>2, InOrder
<1>6. ASSUME last # S PROVE Cardinality(last) = limit
  <2> DEFINE rest == S \ last
  <2>1. rest \subseteq S /\ rest # {}
    BY <1>6
  <2> HIDE DEF rest
  <2>2. PICK l \in rest : \A t \in rest : ~Earlier(l, t)
    BY <2>1, LastOf
  <2>3. After(S, l) \subseteq last
    BY <2>2 DEF After, rest
  <2>4. Cardinality(After(S, l)) <= Cardinality(last)
    BY <1>2, <2>3, FS_Subset
  <2>5. l \in S /\ ~(Cardinality(After(S, l)) < limit)
    BY DEF rest
  <2> HIDE DEF last
  <2> QED
    BY <1>1, <1>2, <1>4, <2>4, <2>5
<1> QED
  BY <1>4, <1>5, <1>6

-----------------------------------------------------------------------------
(* Times against places.  No stamp is from the future; an entry that was     *)
(* stamped while an older one still waits to be written is beside it; and an *)
(* entry comes after an older one in its file, or was beside it.             *)
Past == \A e \in Entries : ts[e] <= now
Overtakes(e, f) == ts[e] <= ts[f] \/ e \in beside[f]
Waiting ==
    \A e, f \in Entries : pc[e] # "idle" /\ pc[f] = "text" => Overtakes(e, f)
Following ==
    \A e, f \in Entries : \A d \in Days :
        \A i \in At(e, files[d]), j \in At(f, files[d]) : i < j => Overtakes(e, f)
Timely == Past /\ Waiting /\ Following

LEMMA DayMonotone ==
    ASSUME NEW t \in Nat, NEW u \in Nat, t <= u PROVE Day(t) <= Day(u)
  BY AuditAssumption DEF Day

LEMMA TimelyText ==
    ASSUME Typed, Placing, Timely, NEW e \in Entries, WriteText(e)
    PROVE  Timely'
<1> DEFINE D == Day(ts[e])
<1>1. D \in Days /\ e \in Marks /\ \A d \in Days : files[d] \in Seq(Marks)
  BY DayIn DEF Typed, Marks
<1>2. files'[D] = Append(files[D], e) /\ \A x \in Days \ {D} : files'[x] = files[x]
  BY <1>1, AppendedTo DEF WriteText
<1>3. /\ pc[e] = "text" /\ pc'[e] = "newline" /\ beside' = beside /\ ts' = ts /\ now' = now
      /\ \A f \in Entries \ {e} : pc'[f] = pc[f]
  BY DEF WriteText, Typed
<1>4. \A d \in Days : At(e, files[d]) = {}
  BY <1>3 DEF Placing, Placed
<1> HIDE DEF D
<1>5. Past' /\ Waiting'
  BY <1>3 DEF Timely, Past, Waiting, Overtakes
<1>6. /\ Len(files[D]) \in Nat
      /\ At(e, files'[D]) = {Len(files[D]) + 1}
      /\ \A f \in Entries \ {e} : At(f, files'[D]) = At(f, files[D])
  <2>1. files[D] \in Seq(Marks)
    BY <1>1
  <2>2. Len(files[D]) \in Nat
    BY <2>1
  <2>3. At(e, files'[D]) = {} \cup {Len(files[D]) + 1}
    BY <1>1, <1>2, <1>4, <2>1, AtAppended
  <2>4. \A f \in Entries \ {e} : At(f, files'[D]) = At(f, files[D])
    BY <1>1, <1>2, <2>1, AtAppended
  <2> QED
    BY <2>2, <2>3, <2>4
<1>7. Following'
  <2> SUFFICES ASSUME NEW f \in Entries, NEW g \in Entries, NEW d \in Days,
                      NEW i \in At(f, files'[d]), NEW j \in At(g, files'[d]), i < j
               PROVE  Overtakes(f, g)
    BY <1>3 DEF Following, Overtakes
  <2>1. CASE d # D \/ (f # e /\ g # e)
    <3>1. At(f, files'[d]) = At(f, files[d]) /\ At(g, files'[d]) = At(g, files[d])
      BY <1>2, <1>6, <2>1
    <3> QED
      BY <3>1 DEF Timely, Following
  <2>2. CASE d = D /\ f = e
    BY <1>1, <1>6, <2>2 DEF At
  <2>3. CASE d = D /\ f # e /\ g = e
    <3>1. i \in At(f, files[d])
      BY <1>6, <2>3
    <3>2. pc[f] # "idle"
      BY <3>1 DEF Placing, Placed
    <3> QED
      BY <1>3, <2>3, <3>2 DEF Timely, Waiting
  <2> QED
    BY <2>1, <2>2, <2>3
<1> QED
  BY <1>5, <1>7 DEF Timely

LEMMA TimelyStamp ==
    ASSUME Typed, Placing, Timely, NEW e \in Entries, Stamp(e)
    PROVE  Timely'
<1>1. /\ files' = files /\ now' = now /\ pc[e] = "idle" /\ pc'[e] = "text" /\ ts'[e] = now
      /\ \A f \in Entries \ {e} : pc'[f] = pc[f] /\ ts'[f] = ts[f]
  BY DEF Stamp, Typed
<1>2. \A f \in Entries \ {e} :
        beside[f] \subseteq beside'[f] /\ (pc[f] = "text" => e \in beside'[f])
  BY DEF Stamp, Join, Underway
<1>3. \A d \in Days : At(e, files[d]) = {}
  BY <1>1 DEF Placing, Placed
<1>4. Past'
  BY <1>1 DEF Timely, Past, Typed
<1>5. Waiting'
  <2> SUFFICES ASSUME NEW f \in Entries, NEW g \in Entries, pc'[f] # "idle", pc'[g] = "text"
               PROVE  Overtakes(f, g)'
    BY DEF Waiting
  <2>1. CASE g = e
    BY <1>1, <1>4, <2>1 DEF Past, Overtakes
  <2>2. CASE g # e /\ f = e
    BY <1>1, <1>2, <2>2 DEF Overtakes
  <2>3. CASE g # e /\ f # e
    BY <1>1, <1>2, <2>3 DEF Timely, Waiting, Overtakes
  <2> QED
    BY <2>1, <2>2, <2>3
<1>6. Following'
  <2> SUFFICES ASSUME NEW f \in Entries, NEW g \in Entries, NEW d \in Days,
                      NEW i \in At(f, files[d]), NEW j \in At(g, files[d]), i < j
               PROVE  Overtakes(f, g)'
    BY <1>1 DEF Following
  <2>1. f # e /\ g # e /\ Overtakes(f, g)
    BY <1>3 DEF Timely, Following
  <2> QED
    BY <1>1, <1>2, <2>1 DEF Overtakes
<1> QED
  BY <1>4, <1>5, <1>6 DEF Timely

LEMMA TimelyStep ==
    ASSUME Typed, Placing, Timely, [Next]_vars
    PROVE  Timely'
<1>1. CASE Tick \/ UNCHANGED vars
  BY <1>1 DEF Tick, vars, Timely, Past, Waiting, Following, Overtakes, Typed
<1>2. ASSUME NEW e \in Entries, WriteNewline(e) PROVE Timely'
  <2>1. /\ pc[e] = "newline" /\ pc'[e] = "done" /\ beside' = beside /\ ts' = ts /\ now' = now
        /\ \A f \in Entries \ {e} : pc'[f] = pc[f]
    BY <1>2 DEF WriteNewline, Typed
  <2>2. \A f \in Entries : \A d \in Days : At(f, files'[d]) = At(f, files[d])
    <3> DEFINE D == Day(ts[e])
    <3>1. D \in Days /\ "nl" \in Marks /\ \A d \in Days : files[d] \in Seq(Marks)
      BY DayIn DEF Typed, Marks
    <3>2. files'[D] = Append(files[D], "nl") /\ \A x \in Days \ {D} : files'[x] = files[x]
      BY <1>2, <3>1, AppendedTo DEF WriteNewline
    <3> HIDE DEF D
    <3>3. \A f \in Entries : At(f, files'[D]) = At(f, files[D])
      BY <3>1, <3>2, AtAppended, AuditAssumption
    <3> QED
      BY <3>2, <3>3
  <2> QED
    BY <2>1, <2>2 DEF Timely, Past, Waiting, Following, Overtakes
<1>3. ASSUME NEW e \in Entries, Fail(e) PROVE Timely'
  <2>1. /\ files' = files /\ beside' = beside /\ ts' = ts /\ now' = now /\ pc'[e] = "failed"
        /\ pc[e] # "idle" /\ \A f \in Entries \ {e} : pc'[f] = pc[f]
    BY <1>3 DEF Fail, Typed, Underway
  <2> QED
    BY <2>1 DEF Timely, Past, Waiting, Following, Overtakes
<1> QED
  BY <1>1, <1>2, <1>3, TimelyText, TimelyStamp DEF Next

(* What can be shown: finitely many places, each with an entry that is filed *)
(* under its day.                                                            *)
LEMMA Showing ==
    ASSUME Typed, Placing, NEW since \in 0 .. MaxTime
    PROVE  /\ Shown(since) \subseteq Places /\ IsFiniteSet(Shown(since))
           /\ \A p \in Shown(since) :
                /\ Mark(p) \in Entries /\ p[1] \in Days /\ p[1] = Day(ts[Mark(p)])
                /\ p[2] \in At(Mark(p), files[p[1]])
<1>1. \A d \in Days : files[d] \in Seq(Marks) /\ DOMAIN files[d] = 1 .. Len(files[d])
  BY DEF Typed
<1>2. Days \subseteq Nat
  BY AuditAssumption DEF Days, Day
<1>3. ASSUME NEW p \in Shown(since)
      PROVE  /\ p \in Places /\ Mark(p) \in Entries /\ p[1] \in Days /\ p[1] = Day(ts[Mark(p)])
             /\ p[2] \in At(Mark(p), files[p[1]]) /\ p = <<p[1], p[2]>>
             /\ At(Mark(p), files[p[1]]) = {p[2]}
  <2>1. PICK d \in Days : p \in {d} \X DOMAIN files[d]
    BY DEF Shown, Spots
  <2>2. p = <<d, p[2]>> /\ p[1] = d /\ p[2] \in 1 .. Len(files[d])
    BY <1>1, <2>1
  <2>3. Mark(p) = files[d][p[2]] /\ Mark(p) \in Marks /\ Mark(p) # "nl"
    BY <1>1, <2>2 DEF Shown, Alone, Mark
  <2>4. Mark(p) \in Entries /\ p[2] \in At(Mark(p), files[d])
    BY <2>2, <2>3 DEF Marks, At
  <2>5. d = Day(ts[Mark(p)]) /\ At(Mark(p), files[d]) = {p[2]}
    BY <2>4 DEF Placing
  <2>6. p \in Places
    BY <1>1, <1>2, <2>2 DEF Places
  <2> QED
    BY <2>2, <2>4, <2>5, <2>6
<1>4. IsFiniteSet(Shown(since))
  <2> DEFINE filed == [p \in Shown(since) |-> Mark(p)]
  <2>1. \A p, q \in Shown(since) : Mark(p) = Mark(q) => p = q
    BY <1>3
  <2>2. filed \in Injection(Shown(since), Entries)
    BY <1>3, <2>1 DEF Injection, IsInjective
  <2> QED
    BY <2>2, FS_Injection, AuditAssumption
<1> QED
  BY <1>3, <1>4

(* The listing is the most recent part of what can be shown, for any writers, *)
(* days and limit: at most the limit, short of it only if nothing is left     *)
(* out, and nothing is left out that is younger than something listed, but    *)
(* for entries written side by side.                                          *)
THEOREM ListingTheorem == Spec => []ListsMostRecent
<1>1. Init => Timely
  BY AuditAssumption DEF Init, Timely, Past, Waiting, Following, Overtakes, At
<1>2. Typed /\ Placing /\ Timely /\ [Next]_vars => Timely'
  BY TimelyStep
<1>3. Typed /\ Placing /\ Timely => ListsMostRecent
  <2> SUFFICES ASSUME Typed, Placing, Timely,
                      NEW since \in 0 .. MaxTime, NEW limit \in 1 .. Cardinality(Entries)
               PROVE  LET shown == Shown(since) listed == Listed(since, limit)
                      IN  /\ Cardinality(listed) <= limit
                          /\ listed # shown => Cardinality(listed) = limit
                          /\ \A p \in listed, q \in shown \ listed :
                                 ts[Mark(q)] <= ts[Mark(p)] \/ Mark(q) \in beside[Mark(p)]
    BY DEF ListsMostRecent
  <2> DEFINE shown == Shown(since) listed == Listed(since, limit)
  <2>1. limit \in Nat \ {0}
    BY FS_CardinalityType, AuditAssumption
  <2>2. shown \subseteq Places /\ IsFiniteSet(shown)
    BY Showing
  <2>3. listed = {p \in shown : Cardinality(After(shown, p)) < limit}
    BY DEF Listed, After
  <2>4. /\ Cardinality(listed) <= limit
        /\ listed # shown => Cardinality(listed) = limit
        /\ \A p \in listed, q \in shown \ listed : Earlier(q, p)
    <3> HIDE DEF shown, listed
    <3> DEFINE last == {p \in shown : Cardinality(After(shown, p)) < limit}
    <3>1. /\ Cardinality(last) <= limit
          /\ last # shown => Cardinality(last) = limit
          /\ \A p \in last, q \in shown \ last : Earlier(q, p)
      BY <2>1, <2>2, LastFew
    <3>2. listed = last
      BY <2>3
    <3> QED
      BY <3>1, <3>2
  <2>5. ASSUME NEW p \in listed, NEW q \in shown \ listed
        PROVE  Overtakes(Mark(q), Mark(p))
    <3>1. p \in Shown(since) /\ q \in Shown(since) /\ Earlier(q, p)
      BY <2>4, <2>3
    <3>2. /\ Mark(p) \in Entries /\ p[1] \in Days /\ p[1] = Day(ts[Mark(p)])
          /\ p[2] \in At(Mark(p), files[p[1]]) /\ p \in Places
          /\ Mark(q) \in Entries /\ q[1] = Day(ts[Mark(q)])
          /\ q[2] \in At(Mark(q), files[q[1]]) /\ q \in Places
      BY <3>1, Showing
    <3>3. CASE q[1] < p[1]
      <4>1. ts[Mark(p)] \in Nat /\ ts[Mark(q)] \in Nat
        BY <3>2 DEF Typed
      <4>2. ts[Mark(p)] <= ts[Mark(q)] => p[1] <= q[1]
        BY <3>2, <4>1, DayMonotone
      <4>3. p[1] \in Nat /\ q[1] \in Nat
        BY <3>2 DEF Places
      <4> QED
        BY <3>3, <4>1, <4>2, <4>3 DEF Overtakes
    <3>4. CASE q[1] = p[1] /\ q[2] < p[2]
      BY <3>2, <3>4 DEF Timely, Following
    <3> QED
      BY <3>1, <3>3, <3>4 DEF Earlier
  <2> QED
    BY <2>4, <2>5 DEF Overtakes
<1> QED
  BY <1>1, <1>2, <1>3, TypeCorrect, Kept, PTL DEF Spec
=============================================================================
