---------------------------- MODULE ServiceProofs ----------------------------
(* Theorems about Service, for any executables and failures.                *)
EXTENDS Service, SequenceTheorems, TLAPS

Calls == {"truncate", "write", "remove", "reload", "enable", "disable", "start", "stop",
          "bootout", "bootstrap", "kickstart", "kill"}
Steps == [call : Calls, try : BOOLEAN]
Kinds == {"install", "uninstall", "start", "stop"}

Typed ==
    /\ os \in {"linux", "macos"}
    /\ file \in Exes \cup {"none", "torn"}
    /\ loaded \in Exes \cup {"none"}
    /\ enabled \in BOOLEAN
    /\ daemon \in Exes \cup {"down", "due"}
    /\ kind \in Kinds \cup {"none"} /\ exe \in Exes
    /\ inst \in Exes \cup {"gone", "unknown"}
    /\ halted \in BOOLEAN /\ slip \in BOOLEAN /\ fails \in 0 .. MaxFails

(* The last n steps of a command.  Of the one underway the last Len(todo)    *)
(* are left.                                                                *)
Last(s, n) == SubSeq(s, Len(s) - n + 1, Len(s))
OnScript ==
    \/ todo = <<>>
    \/ /\ kind \in Kinds /\ Len(todo) \in 1 .. Len(Script(kind))
       /\ todo = Last(Script(kind), Len(todo))
Left(k, n) == kind = k /\ Len(todo) = n

(* What was last achieved is only open while one of the two that achieve it  *)
(* is underway.                                                             *)
Settled == inst # "unknown" /\ todo # <<>> => kind \in {"start", "stop"}

(* install: from the write of the unit file on it holds the executable, and  *)
(* with the last step the supervisor holds it too.                          *)
Installing == Left("install", 1) \/ Left("install", 2) => file = exe
Installed  == inst \in Exes => file = inst /\ loaded = inst /\ (os = "linux" => enabled)

(* uninstall: nothing runs after its first step, and nothing is left to      *)
(* start it again once all are done.                                        *)
Reloading == os = "linux" /\ Left("uninstall", 1)
Removing  ==
    kind = "uninstall" /\ todo # <<>> /\ Len(todo) < Len(Script("uninstall")) /\ ~slip
    => daemon = "down" /\ (os = "macos" => loaded = "none")
Removed   == Reloading => file = "none"
Gone      == inst = "gone" => file = "none"
Clear     == file = "none" /\ ~slip => daemon = "down" /\ (loaded = "none" \/ Reloading)

(* stop, and what the supervisors do with what is not loaded.               *)
Launchd == os = "macos" /\ loaded = "none" => daemon = "down"
Halted  == os = "linux" /\ halted => daemon = "down" /\ (todo # <<>> => kind # "start")

IInv ==
    /\ Typed /\ OnScript /\ Settled /\ Installing /\ Installed
    /\ Removing /\ Removed /\ Gone /\ Clear /\ Launchd /\ Halted

-----------------------------------------------------------------------------
(* The scripts are sequences of steps.                                      *)
LEMMA Tuples ==
    \A a, b, c, d \in Steps :
        /\ <<a>> \in Seq(Steps) /\ Len(<<a>>) = 1
        /\ <<a, b>> \in Seq(Steps) /\ Len(<<a, b>>) = 2
        /\ <<a, b, c, d>> \in Seq(Steps) /\ Len(<<a, b, c, d>>) = 4
  OBVIOUS

LEMMA StepIn == \A call \in Calls : Must(call) \in Steps /\ Try(call) \in Steps
  BY DEF Must, Try, Steps

LEMMA Scripts ==
    /\ LinuxInstall \in Seq(Steps) /\ Len(LinuxInstall) = 4
    /\ MacInstall \in Seq(Steps) /\ Len(MacInstall) = 4
    /\ LinuxUninstall \in Seq(Steps) /\ Len(LinuxUninstall) = 4
    /\ MacUninstall \in Seq(Steps) /\ Len(MacUninstall) = 2
    /\ LinuxStart \in Seq(Steps) /\ Len(LinuxStart) = 1
    /\ MacStart \in Seq(Steps) /\ Len(MacStart) = 1
    /\ LinuxStop \in Seq(Steps) /\ Len(LinuxStop) = 1
    /\ MacStop \in Seq(Steps) /\ Len(MacStop) = 1
<1>1. LinuxInstall \in Seq(Steps) /\ Len(LinuxInstall) = 4
  BY Tuples, StepIn DEF Calls, LinuxInstall
<1>2. MacInstall \in Seq(Steps) /\ Len(MacInstall) = 4
  BY Tuples, StepIn DEF Calls, MacInstall
<1>3. LinuxUninstall \in Seq(Steps) /\ Len(LinuxUninstall) = 4
  BY Tuples, StepIn DEF Calls, LinuxUninstall
<1>4. MacUninstall \in Seq(Steps) /\ Len(MacUninstall) = 2
  BY Tuples, StepIn DEF Calls, MacUninstall
<1>5. LinuxStart \in Seq(Steps) /\ Len(LinuxStart) = 1
  BY Tuples, StepIn DEF Calls, LinuxStart
<1>6. MacStart \in Seq(Steps) /\ Len(MacStart) = 1
  BY Tuples, StepIn DEF Calls, MacStart
<1>7. LinuxStop \in Seq(Steps) /\ Len(LinuxStop) = 1
  BY Tuples, StepIn DEF Calls, LinuxStop
<1>8. MacStop \in Seq(Steps) /\ Len(MacStop) = 1
  BY Tuples, StepIn DEF Calls, MacStop
<1> QED
  BY <1>1, <1>2, <1>3, <1>4, <1>5, <1>6, <1>7, <1>8

LEMMA ScriptIs ==
    ASSUME Typed, NEW k \in Kinds
    PROVE  /\ Script(k) \in Seq(Steps) /\ Len(Script(k)) \in 1 .. 4
           /\ k = "install"   => Script(k) = IF os = "linux" THEN LinuxInstall ELSE MacInstall
           /\ k = "uninstall" => Script(k) = IF os = "linux" THEN LinuxUninstall ELSE MacUninstall
           /\ k = "start"     => Script(k) = IF os = "linux" THEN LinuxStart ELSE MacStart
           /\ k = "stop"      => Script(k) = IF os = "linux" THEN LinuxStop ELSE MacStop
<1>1. CASE k = "install"
  BY <1>1, Scripts DEF Script
<1>2. CASE k = "uninstall"
  BY <1>2, Scripts DEF Script
<1>3. CASE k = "start"
  BY <1>3, Scripts DEF Script
<1>4. CASE k = "stop"
  BY <1>4, Scripts DEF Script
<1> QED
  BY <1>1, <1>2, <1>3, <1>4 DEF Kinds

LEMMA LastSteps ==
    ASSUME NEW s \in Seq(Steps), NEW n \in 1 .. Len(s)
    PROVE  /\ Len(Last(s, n)) = n
           /\ Head(Last(s, n)) = s[Len(s) - n + 1]
           /\ Tail(Last(s, n)) = Last(s, n - 1)
           /\ Last(s, Len(s)) = s /\ Last(s, 0) = <<>>
<1> DEFINE m == Len(s) - n + 1
<1>1. m \in 1 .. Len(s) /\ Len(s) \in m .. Len(s) /\ \A i \in m .. Len(s) : s[i] \in Steps
  OBVIOUS
<1>2. Len(Last(s, n)) = n
  BY <1>1, SubSeqProperties DEF Last
<1>3. Head(Last(s, n)) = s[m] /\ Tail(Last(s, n)) = SubSeq(s, m + 1, Len(s))
  BY <1>1, HeadTailOfSubSeq DEF Last
<1>4. m + 1 = Len(s) - (n - 1) + 1
  OBVIOUS
<1>5. Last(s, Len(s)) = s
  BY SubSeqFull DEF Last
<1>6. Last(s, 0) = <<>>
  BY SubSeqEmpty DEF Last
<1> QED
  BY <1>2, <1>3, <1>4, <1>5, <1>6 DEF Last

(* What is done next, and what is left after it.                            *)
LEMMA NextStep ==
    ASSUME Typed, OnScript, todo # <<>>
    PROVE  /\ Len(todo) \in 1 .. 4 /\ kind \in Kinds
           /\ Len(Tail(todo)) = Len(todo) - 1
           /\ Tail(todo) = <<>> <=> Len(todo) = 1
           /\ Tail(todo) # <<>> => Tail(todo) = Last(Script(kind), Len(Tail(todo)))
           /\ Len(todo) \in 1 .. Len(Script(kind))
           /\ Head(todo) = Script(kind)[Len(Script(kind)) - Len(todo) + 1]
<1> DEFINE s == Script(kind) n == Len(todo)
<1>1. kind \in Kinds /\ n \in 1 .. Len(s) /\ todo = Last(s, n)
  BY DEF OnScript
<1>2. s \in Seq(Steps) /\ Len(s) \in 1 .. 4
  BY <1>1, ScriptIs
<1> HIDE DEF s, n
<1>3. Head(todo) = s[Len(s) - n + 1] /\ Tail(todo) = Last(s, n - 1) /\ n \in Nat
  BY <1>1, <1>2, LastSteps
<1>4. Len(Last(s, n - 1)) = n - 1 /\ (n - 1 = 0 <=> Last(s, n - 1) = <<>>)
  <2>1. CASE n - 1 = 0
    BY <1>1, <1>2, <2>1, LastSteps
  <2>2. CASE n - 1 # 0
    <3>1. n - 1 \in 1 .. Len(s)
      BY <1>1, <1>2, <2>2
    <3>2. Len(Last(s, n - 1)) = n - 1
      BY <1>2, <3>1, LastSteps
    <3> QED
      BY <2>2, <3>2
  <2> QED
    BY <2>1, <2>2
<1>5. n \in 1 .. 4 /\ Len(Tail(todo)) = n - 1 /\ (Tail(todo) = <<>> <=> n = 1)
  <2>1. n \in 1 .. 4
    <3>1. \A m : m \in 1 .. 4 /\ n \in 1 .. m => n \in 1 .. 4
      OBVIOUS
    <3> QED
      BY <1>1, <1>2, <3>1, Zenon
  <2>2. n - 1 = 0 <=> n = 1
    BY <2>1
  <2> QED
    BY <1>3, <1>4, <2>1, <2>2
<1>6. Tail(todo) = Last(s, Len(Tail(todo)))
  BY <1>3, <1>5
<1> QED
  BY <1>1, <1>3, <1>5, <1>6 DEF s, n

(* The table of the steps: which call is next, and whether its failure is    *)
(* ignored, by the command and the number of steps left.                     *)
LEMMA Table ==
    ASSUME Typed, OnScript, todo # <<>>
    PROVE  \/ /\ Left("install", 4) /\ Head(todo) = Must("truncate")
           \/ /\ Left("install", 3) /\ Head(todo) = Must("write")
           \/ /\ Left("install", 2) /\ os = "linux" /\ Head(todo) = Must("reload")
           \/ /\ Left("install", 1) /\ os = "linux" /\ Head(todo) = Must("enable")
           \/ /\ Left("install", 2) /\ os = "macos" /\ Head(todo) = Try("bootout")
           \/ /\ Left("install", 1) /\ os = "macos" /\ Head(todo) = Must("bootstrap")
           \/ /\ Left("uninstall", 4) /\ os = "linux" /\ Head(todo) = Try("stop")
           \/ /\ Left("uninstall", 3) /\ os = "linux" /\ Head(todo) = Try("disable")
           \/ /\ Left("uninstall", 2) /\ os = "linux" /\ Head(todo) = Must("remove")
           \/ /\ Left("uninstall", 1) /\ os = "linux" /\ Head(todo) = Try("reload")
           \/ /\ Left("uninstall", 2) /\ os = "macos" /\ Head(todo) = Try("bootout")
           \/ /\ Left("uninstall", 1) /\ os = "macos" /\ Head(todo) = Must("remove")
           \/ /\ Left("start", 1) /\ os = "linux" /\ Head(todo) = Must("start")
           \/ /\ Left("start", 1) /\ os = "macos" /\ Head(todo) = Must("kickstart")
           \/ /\ Left("stop", 1) /\ os = "linux" /\ Head(todo) = Must("stop")
           \/ /\ Left("stop", 1) /\ os = "macos" /\ Head(todo) = Must("kill")
<1> DEFINE s == Script(kind) n == Len(todo) next == Head(todo)
<1>1. kind \in Kinds /\ n \in 1 .. Len(s) /\ next = s[Len(s) - n + 1] /\ n \in 1 .. 4
  BY NextStep
<1>2. os = "linux" \/ os = "macos"
  BY DEF Typed
<1> USE DEF Left
<1>3. CASE kind = "install" /\ os = "linux"
  <2>1. s = LinuxInstall /\ Len(s) = 4
    BY <1>1, <1>3, ScriptIs, Scripts
  <2> HIDE DEF s, n, next
  <2>2. /\ n \in 1 .. 4
        /\ n = 4 => next = LinuxInstall[1]
        /\ n = 3 => next = LinuxInstall[2]
        /\ n = 2 => next = LinuxInstall[3]
        /\ n = 1 => next = LinuxInstall[4]
    BY <1>1, <2>1
  <2>3. /\ LinuxInstall[1] = Must("truncate") /\ LinuxInstall[2] = Must("write")
        /\ LinuxInstall[3] = Must("reload") /\ LinuxInstall[4] = Must("enable")
    BY DEF LinuxInstall
  <2>4. n = 1 \/ n = 2 \/ n = 3 \/ n = 4
    BY <1>1, <2>1, <2>2
  <2> QED
    BY <1>3, <2>2, <2>3, <2>4 DEF n, next
<1>4. CASE kind = "install" /\ os = "macos"
  <2>1. s = MacInstall /\ Len(s) = 4
    BY <1>1, <1>4, ScriptIs, Scripts
  <2> HIDE DEF s, n, next
  <2>2. /\ n \in 1 .. 4
        /\ n = 4 => next = MacInstall[1]
        /\ n = 3 => next = MacInstall[2]
        /\ n = 2 => next = MacInstall[3]
        /\ n = 1 => next = MacInstall[4]
    BY <1>1, <2>1
  <2>3. /\ MacInstall[1] = Must("truncate") /\ MacInstall[2] = Must("write")
        /\ MacInstall[3] = Try("bootout") /\ MacInstall[4] = Must("bootstrap")
    BY DEF MacInstall
  <2>4. n = 1 \/ n = 2 \/ n = 3 \/ n = 4
    BY <1>1, <2>1, <2>2
  <2> QED
    BY <1>4, <2>2, <2>3, <2>4 DEF n, next
<1>5. CASE kind = "uninstall" /\ os = "linux"
  <2>1. s = LinuxUninstall /\ Len(s) = 4
    BY <1>1, <1>5, ScriptIs, Scripts
  <2> HIDE DEF s, n, next
  <2>2. /\ n \in 1 .. 4
        /\ n = 4 => next = LinuxUninstall[1]
        /\ n = 3 => next = LinuxUninstall[2]
        /\ n = 2 => next = LinuxUninstall[3]
        /\ n = 1 => next = LinuxUninstall[4]
    BY <1>1, <2>1
  <2>3. /\ LinuxUninstall[1] = Try("stop") /\ LinuxUninstall[2] = Try("disable")
        /\ LinuxUninstall[3] = Must("remove") /\ LinuxUninstall[4] = Try("reload")
    BY DEF LinuxUninstall
  <2>4. n = 1 \/ n = 2 \/ n = 3 \/ n = 4
    BY <1>1, <2>1, <2>2
  <2> QED
    BY <1>5, <2>2, <2>3, <2>4 DEF n, next
<1>6. CASE kind = "uninstall" /\ os = "macos"
  <2>1. s = MacUninstall /\ Len(s) = 2
    BY <1>1, <1>6, ScriptIs, Scripts
  <2> HIDE DEF s, n, next
  <2>2. /\ n \in 1 .. 2
        /\ n = 2 => next = MacUninstall[1]
        /\ n = 1 => next = MacUninstall[2]
    BY <1>1, <2>1
  <2>3. /\ MacUninstall[1] = Try("bootout") /\ MacUninstall[2] = Must("remove")
    BY DEF MacUninstall
  <2>4. n = 1 \/ n = 2
    BY <1>1, <2>1, <2>2
  <2> QED
    BY <1>6, <2>2, <2>3, <2>4 DEF n, next
<1>7. CASE kind = "start"
  <2>1. s = (IF os = "linux" THEN LinuxStart ELSE MacStart) /\ Len(s) = 1
    BY <1>1, <1>7, ScriptIs, Scripts
  <2> HIDE DEF s, n, next
  <2>2. next = s[1] /\ n = 1
    <3>1. n \in 1 .. 1 /\ next = s[1 - n + 1]
      BY <1>1, <2>1, Zenon
    <3> QED
      BY <3>1
  <2> QED
    BY <1>2, <1>7, <2>1, <2>2 DEF LinuxStart, MacStart, n, next
<1>8. CASE kind = "stop"
  <2>1. s = (IF os = "linux" THEN LinuxStop ELSE MacStop) /\ Len(s) = 1
    BY <1>1, <1>8, ScriptIs, Scripts
  <2> HIDE DEF s, n, next
  <2>2. next = s[1] /\ n = 1
    <3>1. n \in 1 .. 1 /\ next = s[1 - n + 1]
      BY <1>1, <2>1, Zenon
    <3> QED
      BY <3>1
  <2> QED
    BY <1>2, <1>8, <2>1, <2>2 DEF LinuxStop, MacStop, n, next
<1> QED
  BY <1>1, <1>2, <1>3, <1>4, <1>5, <1>6, <1>7, <1>8 DEF Kinds

(* What one step that is over leaves.                                       *)
LEMMA Advanced ==
    ASSUME Typed, OnScript, todo # <<>>, Advance
    PROVE  /\ OnScript' /\ Len(todo') = Len(todo) - 1 /\ (todo' = <<>> <=> Len(todo) = 1)
           /\ os' = os /\ kind' = kind /\ exe' = exe
           /\ inst' = IF Len(todo) # 1 THEN inst ELSE
                         IF kind = "install" THEN exe ELSE
                           IF kind = "uninstall" THEN "gone" ELSE inst
           /\ halted' = (halted \/ (Len(todo) = 1 /\ kind = "stop"))
<1>1. /\ todo' = Tail(todo) /\ os' = os /\ kind' = kind /\ exe' = exe
  BY DEF Advance
<1>2. /\ Len(todo') = Len(todo) - 1 /\ (todo' = <<>> <=> Len(todo) = 1)
      /\ todo' # <<>> => todo' = Last(Script(kind), Len(todo'))
      /\ Len(todo) \in 1 .. Len(Script(kind)) /\ kind \in Kinds
  BY <1>1, NextStep
<1>3. Script(kind') = Script(kind) /\ Script(kind)' = Script(kind)
  BY <1>1 DEF Script
<1>4. Len(Script(kind)) \in Nat
  BY <1>2, ScriptIs
<1>5. OnScript'
  BY <1>1, <1>2, <1>3, <1>4 DEF OnScript
<1> QED
  BY <1>1, <1>2, <1>5 DEF Advance

(* Where a command is when it makes a call.                                 *)
LEMMA Turn ==
    ASSUME Typed, OnScript, NEW call, Step(call)
    PROVE  /\ call = "truncate"  => Left("install", 4)
           /\ call = "write"     => Left("install", 3)
           /\ call = "reload"    => os = "linux" /\ (Left("install", 2) \/ Left("uninstall", 1))
           /\ call = "enable"    => os = "linux" /\ Left("install", 1)
           /\ call = "bootout"   => os = "macos" /\ (Left("install", 2) \/ Left("uninstall", 2))
           /\ call = "bootstrap" => os = "macos" /\ Left("install", 1)
           /\ call = "stop"      => os = "linux" /\ (Left("uninstall", 4) \/ Left("stop", 1))
           /\ call = "disable"   => os = "linux" /\ Left("uninstall", 3)
           /\ call = "remove"    => \/ os = "linux" /\ Left("uninstall", 2)
                                    \/ os = "macos" /\ Left("uninstall", 1)
           /\ call = "start"     => os = "linux" /\ Left("start", 1)
           /\ call = "kickstart" => os = "macos" /\ Left("start", 1)
           /\ call = "kill"      => os = "macos" /\ Left("stop", 1)
<1> DEFINE next == Head(todo)
<1>1. next.call = call /\ todo # <<>>
  BY DEF Step
<1>2. \A c \in Calls : Must(c).call = c /\ Try(c).call = c
  BY DEF Must, Try
<1>3. \/ Left("install", 4) /\ next = Must("truncate")
      \/ Left("install", 3) /\ next = Must("write")
      \/ Left("install", 2) /\ os = "linux" /\ next = Must("reload")
      \/ Left("install", 1) /\ os = "linux" /\ next = Must("enable")
      \/ Left("install", 2) /\ os = "macos" /\ next = Try("bootout")
      \/ Left("install", 1) /\ os = "macos" /\ next = Must("bootstrap")
      \/ Left("uninstall", 4) /\ os = "linux" /\ next = Try("stop")
      \/ Left("uninstall", 3) /\ os = "linux" /\ next = Try("disable")
      \/ Left("uninstall", 2) /\ os = "linux" /\ next = Must("remove")
      \/ Left("uninstall", 1) /\ os = "linux" /\ next = Try("reload")
      \/ Left("uninstall", 2) /\ os = "macos" /\ next = Try("bootout")
      \/ Left("uninstall", 1) /\ os = "macos" /\ next = Must("remove")
      \/ Left("start", 1) /\ os = "linux" /\ next = Must("start")
      \/ Left("start", 1) /\ os = "macos" /\ next = Must("kickstart")
      \/ Left("stop", 1) /\ os = "linux" /\ next = Must("stop")
      \/ Left("stop", 1) /\ os = "macos" /\ next = Must("kill")
  BY <1>1, Table
<1> HIDE DEF next
<1> QED
  BY <1>1, <1>2, <1>3 DEF Calls

(* The same by the number of steps left.                                    *)
LEMMA Over ==
    ASSUME Typed, OnScript, todo # <<>>, Advance
    PROVE  /\ OnScript'
           /\ Len(todo) = 4 => todo' # <<>> /\ Len(todo') = 3
           /\ Len(todo) = 3 => todo' # <<>> /\ Len(todo') = 2
           /\ Len(todo) = 2 => todo' # <<>> /\ Len(todo') = 1
           /\ Len(todo) = 1 => todo' = <<>> /\ Len(todo') = 0
           /\ os' = os /\ kind' = kind /\ exe' = exe
           /\ inst' = IF Len(todo) # 1 THEN inst ELSE
                         IF kind = "install" THEN exe ELSE
                           IF kind = "uninstall" THEN "gone" ELSE inst
           /\ halted' = IF Len(todo) = 1 /\ kind = "stop" THEN TRUE ELSE halted
<1>1. Len(todo') = Len(todo) - 1 /\ (todo' = <<>> <=> Len(todo) = 1)
  BY Advanced
<1>2. /\ Len(todo) = 4 => todo' # <<>> /\ Len(todo') = 3
      /\ Len(todo) = 3 => todo' # <<>> /\ Len(todo') = 2
      /\ Len(todo) = 2 => todo' # <<>> /\ Len(todo') = 1
      /\ Len(todo) = 1 => todo' = <<>> /\ Len(todo') = 0
  BY <1>1
<1>3. halted' = IF Len(todo) = 1 /\ kind = "stop" THEN TRUE ELSE halted
  BY Advanced DEF Typed
<1> QED
  BY <1>2, <1>3, Advanced

(* What is the same for every call that succeeds.                           *)
LEMMA Effects ==
    ASSUME Typed, OnScript, NEW call, Step(call)
    PROVE  /\ todo # <<>> /\ Possible(call) /\ OnScript'
           /\ Len(todo) = 4 => todo' # <<>> /\ Len(todo') = 3
           /\ Len(todo) = 3 => todo' # <<>> /\ Len(todo') = 2
           /\ Len(todo) = 2 => todo' # <<>> /\ Len(todo') = 1
           /\ Len(todo) = 1 => todo' = <<>> /\ Len(todo') = 0
           /\ os' = os /\ kind' = kind /\ exe' = exe /\ slip' = slip /\ fails' = fails
           /\ inst' = IF Len(todo) # 1 THEN inst ELSE
                         IF kind = "install" THEN exe ELSE
                           IF kind = "uninstall" THEN "gone" ELSE inst
           /\ halted' = IF Len(todo) = 1 /\ kind = "stop" THEN TRUE ELSE halted
<1>1. todo # <<>> /\ Possible(call) /\ Advance /\ slip' = slip /\ fails' = fails
  BY DEF Step
<1> QED
  BY <1>1, Over

LEMMA TypedStep ==
    ASSUME Typed, OnScript, Next PROVE Typed'
<1> USE DEF Typed
<1>1. CASE Begin
  BY <1>1 DEF Begin, unit, Kinds
<1>2. ASSUME NEW call, Step(call) PROVE os' = os /\ kind' = kind /\ exe' = exe /\ slip' = slip
        /\ fails' = fails /\ inst' \in Exes \cup {"gone", "unknown"} /\ halted' \in BOOLEAN
        /\ Possible(call)
  BY <1>2, Effects
<1>3. OnDisk \in Exes \cup {"none"} /\ Known \in Exes \cup {"none"}
  BY DEF OnDisk, Known
<1>4. CASE Truncate \/ Write \/ Remove
  BY <1>2, <1>4 DEF Truncate, Write, Remove
<1>5. CASE Reload \/ Disable \/ Stop
  BY <1>2, <1>3, <1>5 DEF Reload, Disable, Stop
<1>6. CASE Enable
  BY <1>2, <1>6 DEF Enable, Possible
<1>7. CASE Start
  BY <1>2, <1>3, <1>7 DEF Start, Possible, Running
<1>8. CASE Bootout \/ Kill
  BY <1>2, <1>8 DEF Bootout, Kill
<1>9. CASE Bootstrap
  BY <1>2, <1>9 DEF Bootstrap, Possible
<1>10. CASE Kickstart
  BY <1>2, <1>10 DEF Kickstart, Possible, Running
<1>11. CASE Fail
  <2>1. unit' = unit /\ fails' \in 0 .. MaxFails /\ slip' \in BOOLEAN
    <3>1. unit' = unit /\ slip' \in BOOLEAN
      BY <1>11 DEF Fail, unit
    <3>2. fails' = fails \/ (fails < MaxFails /\ fails' = fails + 1)
      BY <1>11 DEF Fail
    <3> QED
      BY <3>1, <3>2, ServiceAssumption
  <2>2. /\ os' = os /\ kind' = kind /\ exe' = exe
        /\ inst' \in Exes \cup {"gone", "unknown"} /\ halted' \in BOOLEAN
    BY <1>11 DEF Fail, Advance
  <2> QED
    BY <2>1, <2>2 DEF unit
<1>12. CASE Abort
  BY <1>12 DEF Abort, unit
<1>13. CASE Crash \/ Respawn
  BY <1>13 DEF Crash, Respawn, command
<1>14. CASE Login
  BY <1>3, <1>14 DEF Login, command
<1> QED
  BY <1>1, <1>4, <1>5, <1>6, <1>7, <1>8, <1>9, <1>10, <1>11, <1>12, <1>13, <1>14 DEF Next, Succeed

(* A step of install, up to the last one, which achieves it.                *)
LEMMA InstallStep ==
    ASSUME IInv, Typed', Truncate \/ Write \/ Enable \/ Bootstrap
    PROVE  IInv'
<1> USE ServiceAssumption DEF Settled, Installing, Installed, Removing, Removed, Gone, Clear, Launchd, Halted,
        Reloading, Left
<1>1. Typed /\ OnScript
  BY DEF IInv
<1>2. CASE Truncate
  <2>1. Step("truncate") /\ file' = "torn" /\ loaded' = loaded /\ enabled' = enabled /\ daemon' = daemon
    BY <1>2 DEF Truncate
  <2>2. kind = "install" /\ Len(todo) = 4
    BY <1>1, <2>1, Turn
  <2>3. /\ Len(todo') = 3 /\ todo' # <<>> /\ OnScript' /\ os' = os /\ kind' = kind /\ exe' = exe
        /\ slip' = slip /\ inst' = inst /\ halted' = halted
    BY <1>1, <2>1, <2>2, Effects
  <2>4. inst = "unknown"
    BY <1>1, <2>1, <2>2, Effects DEF IInv
  <2> QED
    BY <1>1, <2>1, <2>2, <2>3, <2>4 DEF IInv, Typed
<1>3. CASE Write
  <2>1. Step("write") /\ file' = exe /\ loaded' = loaded /\ enabled' = enabled /\ daemon' = daemon
    BY <1>3 DEF Write
  <2>2. kind = "install" /\ Len(todo) = 3
    BY <1>1, <2>1, Turn
  <2>3. /\ Len(todo') = 2 /\ todo' # <<>> /\ OnScript' /\ os' = os /\ kind' = kind /\ exe' = exe
        /\ slip' = slip /\ inst' = inst /\ halted' = halted
    BY <1>1, <2>1, <2>2, Effects
  <2>4. inst = "unknown"
    BY <1>1, <2>1, <2>2, Effects DEF IInv
  <2> QED
    BY <1>1, <2>1, <2>2, <2>3, <2>4 DEF IInv, Typed
<1>4. CASE Enable
  <2>1. /\ Step("enable") /\ file' = file /\ loaded' = file /\ enabled' = TRUE /\ daemon' = daemon
    BY <1>4 DEF Enable
  <2>2. kind = "install" /\ Len(todo) = 1 /\ os = "linux"
    BY <1>1, <2>1, Turn
  <2>3. /\ todo' = <<>> /\ Len(todo') = 0 /\ OnScript' /\ os' = os /\ kind' = kind /\ exe' = exe
        /\ slip' = slip /\ inst' = exe /\ halted' = halted
    BY <1>1, <2>1, <2>2, Effects
  <2>4. file = exe /\ exe \in Exes
    BY <2>2 DEF IInv, Typed
  <2> QED
    BY <1>1, <2>1, <2>2, <2>3, <2>4 DEF IInv, Typed
<1>5. CASE Bootstrap
  <2>1. /\ Step("bootstrap") /\ file' = file /\ loaded' = file /\ enabled' = enabled /\ daemon' = file
    BY <1>5 DEF Bootstrap
  <2>2. kind = "install" /\ Len(todo) = 1 /\ os = "macos"
    BY <1>1, <2>1, Turn
  <2>3. /\ todo' = <<>> /\ Len(todo') = 0 /\ OnScript' /\ os' = os /\ kind' = kind /\ exe' = exe
        /\ slip' = slip /\ inst' = exe /\ halted' = halted
    BY <1>1, <2>1, <2>2, Effects
  <2>4. file = exe /\ exe \in Exes
    BY <2>2 DEF IInv, Typed
  <2> QED
    BY <1>1, <2>1, <2>2, <2>3, <2>4 DEF IInv, Typed
<1> QED
  BY <1>2, <1>3, <1>4, <1>5

(* The calls of the supervisor that install and uninstall both make.        *)
LEMMA SharedStep ==
    ASSUME IInv, Typed', Reload \/ Bootout
    PROVE  IInv'
<1> USE ServiceAssumption DEF Settled, Installing, Installed, Removing, Removed, Gone, Clear, Launchd, Halted,
        Reloading, Left
<1>1. Typed /\ OnScript
  BY DEF IInv
<1>2. CASE Reload
  <2>1. Step("reload") /\ file' = file /\ loaded' = OnDisk /\ enabled' = enabled /\ daemon' = daemon
    BY <1>2 DEF Reload
  <2>2. os = "linux" /\ todo # <<>>
    BY <1>1, <2>1, Turn, Effects
  <2>3. CASE kind = "install" /\ Len(todo) = 2
    <3>1. /\ Len(todo') = 1 /\ todo' # <<>> /\ OnScript' /\ os' = os /\ kind' = kind /\ exe' = exe
          /\ slip' = slip /\ inst' = inst /\ halted' = halted
      BY <1>1, <2>1, <2>3, Effects
    <3>2. inst = "unknown" /\ file = exe /\ exe \in Exes
      BY <2>2, <2>3 DEF IInv, Typed
    <3> QED
      BY <2>1, <2>2, <2>3, <3>1, <3>2 DEF IInv, Typed
  <2>4. CASE kind = "uninstall" /\ Len(todo) = 1
    <3>1. /\ Len(todo') = 0 /\ todo' = <<>> /\ OnScript' /\ os' = os /\ kind' = kind /\ exe' = exe
          /\ slip' = slip /\ inst' = "gone" /\ halted' = halted
      BY <1>1, <2>1, <2>4, Effects
    <3>2. file = "none" /\ OnDisk = "none"
      BY <2>2, <2>4 DEF IInv, OnDisk
    <3> QED
      BY <2>1, <2>2, <2>4, <3>1, <3>2 DEF IInv, Typed
  <2> QED
    BY <1>1, <2>1, <2>3, <2>4, Turn
<1>3. CASE Bootout
  <2>1. Step("bootout") /\ file' = file /\ loaded' = "none" /\ enabled' = enabled /\ daemon' = "down"
    BY <1>3 DEF Bootout
  <2>2. os = "macos" /\ todo # <<>> /\ Len(todo) = 2 /\ kind \in {"install", "uninstall"}
    BY <1>1, <2>1, Turn, Effects
  <2>3. /\ Len(todo') = 1 /\ todo' # <<>> /\ OnScript' /\ os' = os /\ kind' = kind /\ exe' = exe
        /\ slip' = slip /\ inst' = inst /\ halted' = halted
    BY <1>1, <2>1, <2>2, Effects
  <2>4. inst = "unknown"
    BY <2>2 DEF IInv
  <2> QED
    BY <2>1, <2>2, <2>3, <2>4 DEF IInv, Typed
<1> QED
  BY <1>2, <1>3

LEMMA UninstallSize ==
    ASSUME Typed PROVE Len(Script("uninstall")) = IF os = "linux" THEN 4 ELSE 2
  BY ScriptIs, Scripts DEF Kinds

(* The steps of uninstall and of stop.                                      *)
LEMMA UninstallStep ==
    ASSUME IInv, Typed', Stop \/ Disable \/ Remove
    PROVE  IInv'
<1> USE ServiceAssumption DEF Settled, Installing, Installed, Removing, Removed, Gone, Clear, Launchd, Halted,
        Reloading, Left
<1>1. Typed /\ OnScript
  BY DEF IInv
<1>2. CASE Stop
  <2>1. Step("stop") /\ file' = file /\ loaded' = loaded /\ enabled' = enabled /\ daemon' = "down"
    BY <1>2 DEF Stop
  <2>2. os = "linux" /\ todo # <<>>
    BY <1>1, <2>1, Turn, Effects
  <2>3. CASE kind = "uninstall" /\ Len(todo) = 4
    <3>1. /\ Len(todo') = 3 /\ todo' # <<>> /\ OnScript' /\ os' = os /\ kind' = kind /\ exe' = exe
          /\ slip' = slip /\ inst' = inst /\ halted' = halted
      BY <1>1, <2>1, <2>3, Effects
    <3>2. inst = "unknown"
      BY <2>2, <2>3 DEF IInv
    <3> QED
      BY <2>1, <2>2, <2>3, <3>1, <3>2 DEF IInv, Typed
  <2>4. CASE kind = "stop" /\ Len(todo) = 1
    <3>1. /\ Len(todo') = 0 /\ todo' = <<>> /\ OnScript' /\ os' = os /\ kind' = kind /\ exe' = exe
          /\ slip' = slip /\ inst' = inst
      BY <1>1, <2>1, <2>4, Effects
    <3> QED
      BY <2>1, <2>2, <2>4, <3>1 DEF IInv, Typed
  <2> QED
    BY <1>1, <2>1, <2>3, <2>4, Turn
<1>3. CASE Disable
  <2>1. Step("disable") /\ file' = file /\ loaded' = loaded /\ enabled' = FALSE /\ daemon' = daemon
    BY <1>3 DEF Disable
  <2>2. os = "linux" /\ todo # <<>> /\ Len(todo) = 3 /\ kind = "uninstall"
    BY <1>1, <2>1, Turn, Effects
  <2>3. /\ Len(todo') = 2 /\ todo' # <<>> /\ OnScript' /\ os' = os /\ kind' = kind /\ exe' = exe
        /\ slip' = slip /\ inst' = inst /\ halted' = halted
    BY <1>1, <2>1, <2>2, Effects
  <2>4. inst = "unknown" /\ Len(Script("uninstall")) = 4
    BY <1>1, <2>2, UninstallSize DEF IInv
  <2>5. ~slip => daemon = "down"
    BY <2>2, <2>4 DEF IInv
  <2> QED
    BY <2>1, <2>2, <2>3, <2>4, <2>5 DEF IInv, Typed
<1>4. CASE Remove
  <2>1. Step("remove") /\ file' = "none" /\ loaded' = loaded /\ enabled' = enabled /\ daemon' = daemon
    BY <1>4 DEF Remove
  <2>2. kind = "uninstall" /\ todo # <<>> /\ ((os = "linux" /\ Len(todo) = 2) \/ (os = "macos" /\ Len(todo) = 1))
    BY <1>1, <2>1, Turn, Effects
  <2>3. inst = "unknown" /\ (~slip => daemon = "down" /\ (os = "macos" => loaded = "none"))
    <3>1. CASE os = "linux"
      <4>1. Len(Script("uninstall")) = 4
        BY <1>1, <3>1, UninstallSize
      <4> QED
        BY <2>2, <3>1, <4>1 DEF IInv
    <3>2. CASE os = "macos"
      <4>1. Len(Script("uninstall")) = 2
        BY <1>1, <3>2, UninstallSize
      <4> QED
        BY <2>2, <3>2, <4>1 DEF IInv
    <3> QED
      BY <2>2, <3>1, <3>2
  <2>4. CASE os = "linux"
    <3>1. /\ Len(todo') = 1 /\ todo' # <<>> /\ OnScript' /\ os' = os /\ kind' = kind /\ exe' = exe
          /\ slip' = slip /\ inst' = inst /\ halted' = halted
      BY <1>1, <2>1, <2>2, <2>4, Effects
    <3> QED
      BY <2>1, <2>2, <2>3, <2>4, <3>1 DEF IInv, Typed
  <2>5. CASE os = "macos"
    <3>1. /\ Len(todo') = 0 /\ todo' = <<>> /\ OnScript' /\ os' = os /\ kind' = kind /\ exe' = exe
          /\ slip' = slip /\ inst' = "gone" /\ halted' = halted
      BY <1>1, <2>1, <2>2, <2>5, Effects
    <3> QED
      BY <2>1, <2>2, <2>3, <2>5, <3>1 DEF IInv, Typed
  <2> QED
    BY <2>2, <2>4, <2>5
<1> QED
  BY <1>2, <1>3, <1>4

(* start, and the signal that is stop under launchd.                        *)
LEMMA StartStep ==
    ASSUME IInv, Typed', Start \/ Kickstart \/ Kill
    PROVE  IInv'
<1> USE ServiceAssumption DEF Settled, Installing, Installed, Removing, Removed, Gone, Clear, Launchd, Halted,
        Reloading, Left
<1>1. Typed /\ OnScript
  BY DEF IInv
<1>2. CASE Start
  <2>1. /\ Step("start") /\ file' = file /\ loaded' = Known /\ enabled' = enabled
        /\ daemon' = IF Running THEN daemon ELSE Known
    BY <1>2 DEF Start
  <2>2. os = "linux" /\ todo # <<>> /\ Len(todo) = 1 /\ kind = "start" /\ Known # "none"
    BY <1>1, <2>1, Turn, Effects DEF Possible
  <2>3. /\ Len(todo') = 0 /\ todo' = <<>> /\ OnScript' /\ os' = os /\ kind' = kind /\ exe' = exe
        /\ slip' = slip /\ inst' = inst /\ halted' = halted
    BY <1>1, <2>1, <2>2, Effects
  <2>4. ~halted
    BY <2>2 DEF IInv
  <2>5. file = "none" => slip
    BY <2>2 DEF IInv, Known, OnDisk
  <2>6. inst \in Exes => Known = inst
    BY DEF IInv, Known
  <2> QED
    BY <2>1, <2>2, <2>3, <2>4, <2>5, <2>6 DEF IInv, Typed
<1>3. CASE Kickstart
  <2>1. /\ Step("kickstart") /\ file' = file /\ loaded' = loaded /\ enabled' = enabled
        /\ daemon' = IF Running THEN daemon ELSE loaded
    BY <1>3 DEF Kickstart
  <2>2. os = "macos" /\ todo # <<>> /\ Len(todo) = 1 /\ kind = "start" /\ loaded # "none"
    BY <1>1, <2>1, Turn, Effects DEF Possible
  <2>3. /\ Len(todo') = 0 /\ todo' = <<>> /\ OnScript' /\ os' = os /\ kind' = kind /\ exe' = exe
        /\ slip' = slip /\ inst' = inst /\ halted' = halted
    BY <1>1, <2>1, <2>2, Effects
  <2>4. file = "none" => slip
    BY <2>2 DEF IInv
  <2> QED
    BY <2>1, <2>2, <2>3, <2>4 DEF IInv, Typed
<1>4. CASE Kill
  <2>1. Step("kill") /\ file' = file /\ loaded' = loaded /\ enabled' = enabled /\ daemon' = "due"
    BY <1>4 DEF Kill
  <2>2. os = "macos" /\ todo # <<>> /\ Len(todo) = 1 /\ kind = "stop" /\ Running
    BY <1>1, <2>1, Turn, Effects DEF Possible
  <2>3. /\ Len(todo') = 0 /\ todo' = <<>> /\ OnScript' /\ os' = os /\ kind' = kind /\ exe' = exe
        /\ slip' = slip /\ inst' = inst
    BY <1>1, <2>1, <2>2, Effects
  <2>4. daemon # "down"
    BY <2>2 DEF Running
  <2>5. loaded # "none" /\ (file = "none" => slip)
    BY <2>2, <2>4 DEF IInv
  <2> QED
    BY <2>1, <2>2, <2>3, <2>5 DEF IInv, Typed
<1> QED
  BY <1>2, <1>3, <1>4

(* A call fails: the command goes on where the failure is ignored, and ends  *)
(* there otherwise.                                                         *)
LEMMA FailStep ==
    ASSUME IInv, Typed', Fail
    PROVE  IInv'
<1> USE ServiceAssumption DEF Settled, Installing, Installed, Removing, Removed, Gone, Clear, Launchd, Halted,
        Reloading, Left
<1>1. Typed /\ OnScript /\ todo # <<>>
  BY DEF IInv, Fail
<1>2. file' = file /\ loaded' = loaded /\ enabled' = enabled /\ daemon' = daemon
  BY DEF Fail, unit
<1> DEFINE next == Head(todo)
<1>3. \/ ~Possible(next.call) /\ slip' = slip
      \/ Possible(next.call) /\ slip' = (slip \/ kind = "uninstall")
  BY DEF Fail
<1>4. slip => slip'
  BY <1>3
<1>5. \A c \in Calls : Must(c).call = c /\ ~Must(c).try /\ Try(c).call = c /\ Try(c).try
  BY DEF Must, Try
<1>6. ASSUME next.try PROVE Advance
  BY <1>6 DEF Fail
<1>7. ASSUME ~next.try
      PROVE  todo' = <<>> /\ os' = os /\ kind' = kind /\ exe' = exe /\ inst' = inst /\ halted' = halted
  BY <1>7 DEF Fail
<1>8. \/ ~next.try /\ ~Reloading
      \/ Left("install", 2) /\ os = "macos" /\ next = Try("bootout")
      \/ Left("uninstall", 4) /\ os = "linux" /\ next = Try("stop")
      \/ Left("uninstall", 3) /\ os = "linux" /\ next = Try("disable")
      \/ Left("uninstall", 1) /\ os = "linux" /\ next = Try("reload")
      \/ Left("uninstall", 2) /\ os = "macos" /\ next = Try("bootout")
  <2> HIDE DEF Left
  <2>1. Reloading => Left("uninstall", 1) /\ os = "linux"
    OBVIOUS
  <2> HIDE DEF Reloading
  <2>2. \A k, l \in Kinds : \A m, n \in 1 .. 4 : Left(k, m) /\ Left(l, n) => k = l /\ m = n
    BY DEF Left
  <2> HIDE DEF next
  <2> QED
    BY <1>1, <1>5, <2>1, <2>2, Table DEF Calls, Kinds, next
<1> HIDE DEF next
<1>9. CASE ~next.try /\ ~Reloading
  <2>1. Len(todo') = 0 /\ OnScript'
    BY <1>7, <1>9 DEF OnScript
  <2> QED
    BY <1>1, <1>2, <1>4, <1>7, <1>9, <2>1 DEF IInv, Typed
<1>10. CASE Left("install", 2) /\ os = "macos" /\ next = Try("bootout")
  <2>1. /\ Len(todo') = 1 /\ todo' # <<>> /\ OnScript' /\ os' = os /\ kind' = kind /\ exe' = exe
        /\ inst' = inst /\ halted' = halted
    BY <1>1, <1>5, <1>6, <1>10, Over DEF Calls
  <2>2. inst = "unknown"
    BY <1>1, <1>10 DEF IInv
  <2> QED
    BY <1>2, <1>4, <1>10, <2>1, <2>2 DEF IInv, Typed
<1>11. CASE Left("uninstall", 4) /\ os = "linux" /\ next = Try("stop")
  <2>1. /\ Len(todo') = 3 /\ todo' # <<>> /\ OnScript' /\ os' = os /\ kind' = kind /\ exe' = exe
        /\ inst' = inst /\ halted' = halted
    BY <1>1, <1>5, <1>6, <1>11, Over DEF Calls
  <2>2. inst = "unknown"
    BY <1>1, <1>11 DEF IInv
  <2>3. ~slip' => daemon = "down"
    BY <1>3, <1>5, <1>11 DEF Calls, Possible
  <2> QED
    BY <1>2, <1>4, <1>11, <2>1, <2>2, <2>3 DEF IInv, Typed
<1>12. CASE Left("uninstall", 3) /\ os = "linux" /\ next = Try("disable")
  <2>1. /\ Len(todo') = 2 /\ todo' # <<>> /\ OnScript' /\ os' = os /\ kind' = kind /\ exe' = exe
        /\ inst' = inst /\ halted' = halted
    BY <1>1, <1>5, <1>6, <1>12, Over DEF Calls
  <2>2. inst = "unknown"
    BY <1>1, <1>12 DEF IInv
  <2>3. slip'
    BY <1>3, <1>5, <1>12 DEF Calls, Possible
  <2> QED
    BY <1>2, <1>12, <2>1, <2>2, <2>3 DEF IInv, Typed
<1>13. CASE Left("uninstall", 1) /\ os = "linux" /\ next = Try("reload")
  <2>1. /\ Len(todo') = 0 /\ todo' = <<>> /\ OnScript' /\ os' = os /\ kind' = kind /\ exe' = exe
        /\ inst' = "gone" /\ halted' = halted
    BY <1>1, <1>5, <1>6, <1>13, Over DEF Calls
  <2>2. slip' /\ file = "none"
    BY <1>3, <1>5, <1>13 DEF Calls, Possible, IInv
  <2> QED
    BY <1>2, <1>13, <2>1, <2>2 DEF IInv, Typed
<1>14. CASE Left("uninstall", 2) /\ os = "macos" /\ next = Try("bootout")
  <2>1. /\ Len(todo') = 1 /\ todo' # <<>> /\ OnScript' /\ os' = os /\ kind' = kind /\ exe' = exe
        /\ inst' = inst /\ halted' = halted
    BY <1>1, <1>5, <1>6, <1>14, Over DEF Calls
  <2>2. inst = "unknown"
    BY <1>1, <1>14 DEF IInv
  <2>3. ~slip' => loaded = "none"
    BY <1>3, <1>5, <1>14 DEF Calls, Possible
  <2> QED
    BY <1>2, <1>4, <1>14, <2>1, <2>2, <2>3 DEF IInv, Typed
<1> QED
  BY <1>8, <1>9, <1>10, <1>11, <1>12, <1>13, <1>14

(* A command begins or is killed, the daemon dies or is restarted, and the   *)
(* customer logs in.                                                        *)
LEMMA OtherStep ==
    ASSUME IInv, Typed', Begin \/ Abort \/ Crash \/ Respawn \/ Login
    PROVE  IInv'
<1> USE ServiceAssumption DEF Settled, Installing, Installed, Removing, Removed, Gone, Clear, Launchd, Halted,
        Reloading, Left
<1>1. Typed /\ OnScript
  BY DEF IInv
<1>2. CASE Begin
  <2>1. /\ kind' \in Kinds /\ todo = <<>> /\ Len(todo) = 0
        /\ os' = os /\ file' = file /\ loaded' = loaded /\ enabled' = enabled /\ daemon' = daemon
        /\ slip' = slip /\ exe' \in Exes
    BY <1>1, <1>2 DEF Begin, unit, Kinds, Typed
  <2>2. todo' = Script(kind') /\ Script(kind)' = Script(kind') /\ Script("uninstall")' = Script("uninstall")
    BY <1>2, <2>1 DEF Begin, Script
  <2>3. /\ Script(kind') \in Seq(Steps) /\ Len(Script(kind')) \in 1 .. 4
        /\ Last(Script(kind'), Len(Script(kind'))) = Script(kind')
    BY <1>1, <2>1, ScriptIs, SubSeqFull DEF Last
  <2>4. OnScript'
    BY <2>1, <2>2, <2>3 DEF OnScript
  <2>5. /\ kind' \in {"install", "uninstall"} => inst' = "unknown"
        /\ kind' \notin {"install", "uninstall"} => inst' = inst
        /\ halted' => halted /\ kind' # "start"
    BY <1>2 DEF Begin
  <2>6. kind' = "install" => Len(todo') = 4
    BY <1>1, <2>2, ScriptIs, Scripts DEF Kinds
  <2>7. kind' = "uninstall" => Len(todo') = IF os = "linux" THEN 4 ELSE 2
    BY <1>1, <2>2, UninstallSize
  <2>8. kind' = "uninstall" => Len(Script("uninstall"))' = Len(todo')
    BY <2>2
  <2>9. ~Reloading /\ ~Reloading' /\ Removing'
    BY <2>1, <2>7, <2>8
  <2>10. Settled' /\ Installing' /\ Removed'
    BY <2>1, <2>5, <2>6, <2>9 DEF Kinds
  <2>11. Installed' /\ Gone' /\ Clear' /\ Launchd' /\ Halted'
    <3> HIDE DEF Reloading
    <3> QED
      BY <2>1, <2>5, <2>9 DEF IInv
  <2> QED
    BY <2>4, <2>9, <2>10, <2>11 DEF IInv
<1>3. CASE Abort
  <2>1. OnScript' /\ todo' = <<>> /\ Len(todo') = 0
    BY <1>3 DEF Abort, OnScript
  <2>2. /\ os' = os /\ file' = file /\ loaded' = loaded /\ enabled' = enabled /\ daemon' = daemon
        /\ kind' = kind /\ exe' = exe /\ inst' = inst /\ halted' = halted
        /\ (slip \/ kind = "uninstall" => slip')
    BY <1>3 DEF Abort, unit
  <2>3. Settled' /\ Installing' /\ Removing' /\ Removed' /\ Halted'
    BY <2>1, <2>2 DEF IInv
  <2>4. Installed' /\ Gone' /\ Clear' /\ Launchd'
    BY <2>2 DEF IInv
  <2> QED
    BY <2>1, <2>3, <2>4 DEF IInv
<1>4. CASE Crash \/ Respawn
  <2>1. /\ os' = os /\ file' = file /\ loaded' = loaded /\ enabled' = enabled /\ todo' = todo
        /\ kind' = kind /\ exe' = exe /\ inst' = inst /\ halted' = halted /\ slip' = slip
    BY <1>4 DEF Crash, Respawn, command
  <2>2. /\ daemon # "down"
        /\ daemon' = IF loaded = "none" THEN "down" ELSE IF daemon = "due" THEN loaded ELSE "due"
    BY <1>4 DEF Crash, Respawn, Running
  <2>3. OnScript' /\ Script("uninstall")' = Script("uninstall")
    BY <1>1, <2>1 DEF OnScript, Script
  <2> QED
    BY <2>1, <2>2, <2>3 DEF IInv
<1>5. CASE Login
  <2>1. /\ os' = os /\ file' = file /\ loaded' = OnDisk /\ enabled' = enabled /\ todo' = <<>> /\ todo = <<>>
        /\ kind' = kind /\ exe' = exe /\ inst' = inst /\ ~halted' /\ ~slip' /\ Len(todo') = 0
    BY <1>5 DEF Login, command
  <2>2. OnDisk = "none" => daemon' = "down"
    BY <1>5 DEF Login
  <2>3. (file = "none" => OnDisk = "none") /\ (file \in Exes => OnDisk = file) /\ OnScript'
    BY <2>1 DEF OnDisk, OnScript
  <2> QED
    BY <2>1, <2>2, <2>3 DEF IInv, Typed
<1> QED
  BY <1>2, <1>3, <1>4, <1>5

LEMMA Inductive == Spec => []IInv
<1>1. Init => IInv
  <2> SUFFICES ASSUME Init PROVE IInv
    OBVIOUS
  <2>1. Typed /\ OnScript
    <3>1. enabled \in BOOLEAN /\ halted \in BOOLEAN /\ slip \in BOOLEAN
      BY DEF Init
    <3>2. fails \in 0 .. MaxFails
      BY ServiceAssumption DEF Init
    <3> QED
      BY <3>1, <3>2 DEF Init, Typed, OnScript
  <2>2. todo = <<>> /\ Len(todo) = 0
    BY DEF Init
  <2>3. Settled /\ Installing /\ Removing /\ Removed
    BY <2>2 DEF Settled, Installing, Removing, Removed, Reloading, Left
  <2>4. Installed /\ Gone /\ Clear /\ Launchd /\ Halted
    BY ServiceAssumption DEF Init, Installed, Gone, Clear, Launchd, Halted
  <2> QED
    BY <2>1, <2>3, <2>4 DEF IInv
<1>2. IInv /\ [Next]_vars => IInv'
  <2> SUFFICES ASSUME IInv, [Next]_vars PROVE IInv'
    OBVIOUS
  <2>1. CASE Next
    <3>1. Typed'
      BY <2>1, TypedStep DEF IInv
    <3> QED
      BY <2>1, <3>1, InstallStep, SharedStep, UninstallStep, StartStep, FailStep, OtherStep
         DEF Next, Succeed
  <2>2. CASE UNCHANGED vars
    <3>1. /\ os' = os /\ file' = file /\ loaded' = loaded /\ enabled' = enabled /\ daemon' = daemon
          /\ todo' = todo /\ kind' = kind /\ exe' = exe /\ inst' = inst /\ halted' = halted
          /\ slip' = slip /\ fails' = fails
      BY <2>2 DEF vars, unit, command
    <3>2. OnScript' /\ Script("uninstall")' = Script("uninstall")
      BY <3>1 DEF IInv, OnScript, Script
    <3>3. Typed'
      BY <3>1 DEF IInv, Typed
    <3> QED
      BY <3>1, <3>2, <3>3 DEF IInv, Settled, Installing, Installed, Removing, Removed, Gone, Clear, Launchd,
            Halted, Reloading, Left
  <2> QED
    BY <2>1, <2>2
<1> QED
  BY <1>1, <1>2, PTL DEF Spec

(* Once uninstall has answered well the service reads as not installed, and  *)
(* where it does nothing runs and nothing comes back, whatever commands, the *)
(* supervisor and the customer did before.                                  *)
THEOREM UninstalledTheorem == Spec => []UninstalledIsGone
<1>1. IInv => UninstalledIsGone
  BY DEF IInv, Typed, Gone, Clear, UninstalledIsGone, Status, Running
<1> QED
  BY <1>1, Inductive, PTL

(* What was stopped under systemd stays down until it is started or the      *)
(* customer logs in.                                                        *)
THEOREM StoppedTheorem == Spec => []StoppedStaysDown
<1>1. IInv => StoppedStaysDown
  BY DEF IInv, Halted, StoppedStaysDown
<1> QED
  BY <1>1, Inductive, PTL

(* After an installation that answered well every daemon the supervisor      *)
(* starts is the one installed, and the next login starts it.               *)
THEOREM InstalledTheorem == Spec => InstalledIsNext
<1> DEFINE Right == inst' \in Exes =>
                        /\ daemon' \in Exes \ {daemon} => daemon' = inst'
                        /\ Login => daemon' = inst'
<1>1. IInv /\ IInv' /\ [Next]_vars => [Right]_vars
  <2> SUFFICES ASSUME IInv, IInv', Next, inst' \in Exes
               PROVE  /\ daemon' \in Exes \ {daemon} => daemon' = inst'
                      /\ Login => daemon' = inst'
    OBVIOUS
  <2>1. file' = inst' /\ loaded' = inst' /\ (os' = "linux" => enabled')
    BY DEF IInv, Installed
  <2>2. ASSUME Login PROVE daemon' = inst'
    BY <2>1, <2>2, ServiceAssumption DEF Login, OnDisk, IInv, Typed
  <2>3. daemon' \in {daemon, loaded', "down", "due"}
    BY ServiceAssumption DEF Next, Begin, Succeed, Truncate, Write, Remove, Reload, Enable, Disable, Start, Stop,
          Bootout, Bootstrap, Kickstart, Kill, Fail, Abort, Crash, Respawn, Login, unit
  <2> QED
    BY <2>1, <2>2, <2>3, ServiceAssumption
<1> QED
  BY <1>1, Inductive, PTL DEF Spec, InstalledIsNext
=============================================================================
