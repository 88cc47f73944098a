------------------------------ MODULE FrameStream ------------------------------
(***************************************************************************)
(* What a serial server promises a client that sends the bytes of `script`  *)
(* and then closes: the frames of the script, wherever a read may have cut  *)
(* it, are run and answered one after another, each once; the session ends  *)
(* well only at the end of a script of whole frames.                        *)
(***************************************************************************)
EXTENDS Wire

CONSTANT Requests \* bodies that decode to a request

VARIABLES
    script, \* what the client sends
    at,     \* how much of it belongs to frames that were run
    ran,    \* requests run
    out,    \* requests answered
    over    \* how the session ended, or "no"

vars == <<script, at, ran, out, over>>

Left == SubSeq(script, at + 1, Len(script))

Init == at = 0 /\ ran = <<>> /\ out = <<>> /\ over = "no"

Run ==
    /\ over = "no" /\ ran = out
    /\ Whole(Left) /\ Body(Left) \in Requests
    /\ ran' = Append(ran, Body(Left)) /\ at' = at + Size(Left)
    /\ UNCHANGED <<script, out, over>>

Answer ==
    /\ over = "no" /\ ran # out
    /\ out' = ran
    /\ UNCHANGED <<script, at, ran, over>>

(* The endings: with everything answered, as what is left of the script     *)
(* has it; or at any time, when a pipe or the log fails.                    *)
End ==
    /\ over = "no"
    /\ \/ over' \in {"broken", "unlogged"}
       \/ ran = out /\ Left = <<>> /\ over' = "ok"
       \/ ran = out /\ Left # <<>> /\ ~Whole(Left) /\ over' = "cut"
       \/ ran = out /\ Whole(Left) /\ Body(Left) \notin Requests /\ over' = "invalid"
    /\ UNCHANGED <<script, at, ran, out>>

Next == Run \/ Answer \/ End

Spec == Init /\ [][Next]_vars
===============================================================================
