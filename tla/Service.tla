------------------------------- MODULE Service -------------------------------
(***************************************************************************)
(* install, uninstall, start and stop, given one at a time under systemd or *)
(* launchd, and what the supervisor does meanwhile: it restarts a daemon    *)
(* that dies and starts it at the next login.  A command is a script of     *)
(* steps on the unit file and calls of the supervisor; where the code       *)
(* ignores a failure the script goes on, else it ends there.                *)
(***************************************************************************)
EXTENDS Naturals, Sequences

CONSTANTS
    Exes,    \* executables that may be installed
    MaxFails \* bound: steps that fail for no reason of their own

ASSUME ServiceAssumption ==
    Exes \cap {"none", "torn", "gone", "unknown", "down", "due"} = {} /\ MaxFails \in Nat

VARIABLES
    os,        \* "linux" or "macos"
    file,      \* the executable in the unit file or plist, or "none" or "torn"
    loaded,    \* the one in the definition the supervisor holds, or "none"
    enabled,   \* systemd: the unit is wanted at login
    daemon,    \* the executable that runs, or "down", or "due" for a restart
    todo,      \* steps left of the command underway
    kind, exe, \* the last command and its executable
    inst,      \* history: what install or uninstall last achieved, or "unknown"
    halted,    \* history: stopped, and not started or logged in since
    slip,      \* history: an uninstall of this session was cut or let a failure pass
    fails      \* history: failures so far

unit    == <<file, loaded, enabled, daemon>>
command == <<todo, kind, exe>>
vars    == <<os, unit, command, inst, halted, slip, fails>>

Init ==
    /\ os \in {"linux", "macos"}
    /\ file = "none" /\ loaded = "none" /\ enabled = FALSE /\ daemon = "down"
    /\ todo = <<>> /\ kind = "none" /\ exe \in Exes
    /\ inst = "gone" /\ halted = FALSE /\ slip = FALSE /\ fails = 0

-----------------------------------------------------------------------------
(* The commands: `try` marks a step whose failure is ignored.               *)
Must(call) == [call |-> call, try |-> FALSE]
Try(call)  == [call |-> call, try |-> TRUE]

LinuxInstall == << Must("truncate"), Must("write"), Must("reload"), Must("enable") >>

(* Variant: whether the plist was loaded is ignored too.                    *)
MacInstallTrying == << Must("truncate"), Must("write"), Try("bootout"), Try("bootstrap") >>

MacInstall == << Must("truncate"), Must("write"), Try("bootout"), Must("bootstrap") >>

(* Variant: the daemon is left to the next login.                           *)
LinuxUninstallAlive == << Try("disable"), Must("remove"), Try("reload") >>

LinuxUninstall == << Try("stop"), Try("disable"), Must("remove"), Try("reload") >>
MacUninstall   == << Try("bootout"), Must("remove") >>

LinuxStart == << Must("start") >>
MacStart   == << Must("kickstart") >>

(* Variant: a signal, as on macOS.                                          *)
LinuxStopBySignal == << Must("kill") >>

LinuxStop == << Must("stop") >>
MacStop   == << Must("kill") >>

Script(k) ==
    CASE k = "install"   -> IF os = "linux" THEN LinuxInstall ELSE MacInstall
      [] k = "uninstall" -> IF os = "linux" THEN LinuxUninstall ELSE MacUninstall
      [] k = "start"     -> IF os = "linux" THEN LinuxStart ELSE MacStart
      [] k = "stop"      -> IF os = "linux" THEN LinuxStop ELSE MacStop

Begin ==
    /\ todo = <<>>
    /\ kind' \in {"install", "uninstall", "start", "stop"}
    /\ IF kind' = "install" THEN exe' \in Exes ELSE exe' = exe
    /\ todo' = Script(kind')
    /\ inst' = IF kind' \in {"install", "uninstall"} THEN "unknown" ELSE inst
    /\ halted' = (halted /\ kind' # "start")
    /\ UNCHANGED <<os, unit, slip, fails>>

(* One step is over, and with the last one the command.                     *)
Advance ==
    /\ todo' = Tail(todo)
    /\ inst' = CASE todo' = <<>> /\ kind = "install"   -> exe
                 [] todo' = <<>> /\ kind = "uninstall" -> "gone"
                 [] OTHER -> inst
    /\ halted' = (halted \/ (todo' = <<>> /\ kind = "stop"))
    /\ UNCHANGED <<os, kind, exe>>

(* systemd looks on disk for what is not loaded yet.                        *)
OnDisk  == IF file \in Exes THEN file ELSE "none"
Known   == IF loaded # "none" THEN loaded ELSE OnDisk
Running == daemon \in Exes

(* What a call needs to succeed.                                            *)
Possible(call) ==
    /\ call = "enable"    => file \in Exes
    /\ call = "start"     => Known # "none"
    /\ call = "stop"      => daemon # "down" \/ Known # "none"
    /\ call = "bootout"   => loaded # "none"
    /\ call = "bootstrap" => loaded = "none" /\ file \in Exes
    /\ call = "kickstart" => loaded # "none"
    /\ call = "kill"      => Running

Step(call) ==
    /\ todo # <<>> /\ Head(todo).call = call /\ Possible(call)
    /\ Advance
    /\ UNCHANGED <<slip, fails>>

(* The unit file: std::fs::write truncates first.                           *)
Truncate == Step("truncate") /\ file' = "torn" /\ UNCHANGED <<loaded, enabled, daemon>>
Write    == Step("write")    /\ file' = exe    /\ UNCHANGED <<loaded, enabled, daemon>>
Remove   == Step("remove")   /\ file' = "none" /\ UNCHANGED <<loaded, enabled, daemon>>

-----------------------------------------------------------------------------
(* systemctl --user.                                                        *)
Reload  == Step("reload")  /\ loaded' = OnDisk   /\ UNCHANGED <<file, enabled, daemon>>
Enable  == Step("enable")  /\ enabled' = TRUE /\ loaded' = file /\ UNCHANGED <<file, daemon>>
Disable == Step("disable") /\ enabled' = FALSE   /\ UNCHANGED <<file, loaded, daemon>>
Stop    == Step("stop")    /\ daemon' = "down"   /\ UNCHANGED <<file, loaded, enabled>>
Start   == /\ Step("start")
           /\ loaded' = Known /\ daemon' = IF Running THEN daemon ELSE Known
           /\ UNCHANGED <<file, enabled>>

(* launchctl.  The plist asks for the daemon to run once it is loaded.      *)
Bootout   == /\ Step("bootout") /\ loaded' = "none" /\ daemon' = "down"
             /\ UNCHANGED <<file, enabled>>
Bootstrap == /\ Step("bootstrap") /\ loaded' = file /\ daemon' = file
             /\ UNCHANGED <<file, enabled>>
Kickstart == /\ Step("kickstart") /\ daemon' = IF Running THEN daemon ELSE loaded
             /\ UNCHANGED <<file, loaded, enabled>>
Kill      == Step("kill") /\ daemon' = "due" /\ UNCHANGED <<file, loaded, enabled>>

Succeed == \/ Truncate \/ Write \/ Remove \/ Reload \/ Enable \/ Disable \/ Start \/ Stop
           \/ Bootout \/ Bootstrap \/ Kickstart \/ Kill

(* A step fails because it must, or for a reason of its own.                *)
Fail ==
    /\ todo # <<>>
    /\ \/ ~Possible(Head(todo).call) /\ UNCHANGED <<fails, slip>>
       \/ /\ Possible(Head(todo).call) /\ fails < MaxFails
          /\ fails' = fails + 1
          /\ slip' = (slip \/ kind = "uninstall")
    /\ IF Head(todo).try THEN Advance
       ELSE todo' = <<>> /\ UNCHANGED <<os, kind, exe, inst, halted>>
    /\ UNCHANGED unit

(* The command is killed.                                                   *)
Abort ==
    /\ todo # <<>> /\ todo' = <<>>
    /\ slip' = (slip \/ kind = "uninstall")
    /\ UNCHANGED <<os, unit, kind, exe, inst, halted, fails>>

-----------------------------------------------------------------------------
(* Restart=on-failure, or KeepAlive: whatever ends the daemon is a failure. *)
Crash ==
    /\ Running
    /\ daemon' = IF loaded = "none" THEN "down" ELSE "due"
    /\ UNCHANGED <<os, file, loaded, enabled, command, inst, halted, slip, fails>>

Respawn ==
    /\ daemon = "due"
    /\ daemon' = IF loaded = "none" THEN "down" ELSE loaded
    /\ UNCHANGED <<os, file, loaded, enabled, command, inst, halted, slip, fails>>

(* The customer logs out, which ends the supervisor, and in again.          *)
Login ==
    /\ todo = <<>>
    /\ loaded' = OnDisk
    /\ daemon' = IF (os = "macos" \/ enabled) /\ OnDisk # "none" THEN OnDisk ELSE "down"
    /\ halted' = FALSE /\ slip' = FALSE
    /\ UNCHANGED <<os, file, enabled, command, inst, fails>>

Next == Begin \/ Succeed \/ Fail \/ Abort \/ Crash \/ Respawn \/ Login

Spec == Init /\ [][Next]_vars

-----------------------------------------------------------------------------
(* What `status` prints.  It takes neither systemd's "activating", of a      *)
(* restart that is due, nor launchd's "not running" for stopped.             *)
Unclear == IF os = "linux" THEN daemon = "due" ELSE loaded # "none"

Status ==
    CASE file = "none" -> "not installed"
      [] file # "none" /\ Running -> "running"
      [] file # "none" /\ ~Running /\ Unclear -> "unknown"
      [] OTHER -> "stopped"

(* Once uninstall has answered well the service reads as not installed, and  *)
(* where that is what `status` says nothing runs and nothing comes back, a   *)
(* restart that was due included; a call that failed unseen is made good by  *)
(* the next login.                                                           *)
UninstalledIsGone ==
    /\ inst = "gone" => Status = "not installed"
    /\ Status = "not installed" => daemon = "down" \/ slip

(* After an installation that answered well every daemon the supervisor      *)
(* starts is the one installed, whether it replaces one that ran or died     *)
(* before, and the next login starts it.                                     *)
InstalledIsNext ==
    [][ inst' \in Exes =>
            /\ daemon' \in Exes \ {daemon} => daemon' = inst'
            /\ Login => daemon' = inst' ]_vars

(* Under systemd a daemon that was stopped, dying or waiting for its restart *)
(* as it may be, stays down until it is started or the customer logs in.     *)
(* (launchd brings one back that `stop` has signalled.)                      *)
StoppedStaysDown == os = "linux" /\ halted => daemon = "down"
=============================================================================
