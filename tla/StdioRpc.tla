------------------------------- MODULE StdioRpc -------------------------------
(***************************************************************************)
(* `run-stdio`: one client, which sends a script of bytes into a pipe, and  *)
(* closes; a server that reads what is there, in pieces of any size, cuts   *)
(* it into frames, runs each request and writes the answer to another pipe, *)
(* before it looks at the next.  An answer is named by its request.         *)
(***************************************************************************)
EXTENDS Wire

CONSTANTS
    Scripts,  \* what the client may send, sequences of bytes
    Requests, \* bodies that decode to a request
    Chunk,    \* most bytes one read returns
    InRoom,   \* bytes the pipe to the server holds
    OutRoom   \* answers the pipe from the server holds

ASSUME StdioAssumption ==
    /\ Scripts \subseteq Seq(Byte)
    /\ Requests \subseteq Seq(Byte)
    /\ Chunk \in Nat \ {0} /\ InRoom \in Nat \ {0} /\ OutRoom \in Nat \ {0}

VARIABLES
    script, \* what the client sends
    sent,   \* bytes of it that were sent,
    taken,  \* ... and read
    buf,    \* bytes read and not yet decoded
    pc,     \* where the server stands
    ran,    \* requests run
    out,    \* answers written
    got,    \* answers the client has received
    deaf,   \* the client receives no more
    result  \* what serve returned, or "none"

client == <<script, sent, got, deaf>>
vars == <<script, sent, taken, buf, pc, ran, out, got, deaf, result>>

TypeOK ==
    /\ script \in Scripts
    /\ sent \in 0 .. Len(script) /\ taken \in 0 .. sent
    /\ buf \in Seq(Byte) /\ Len(buf) <= taken
    /\ pc \in {"start", "decode", "write", "read", "closing", "over"}
    /\ ran \in Seq(Requests) /\ out \in Seq(Requests)
    /\ got \in 0 .. Len(out)
    /\ deaf \in BOOLEAN
    /\ result \in {"none", "ok", "cut", "invalid", "broken", "unlogged"}

Init ==
    /\ script \in Scripts
    /\ sent = 0 /\ taken = 0 /\ buf = <<>>
    /\ pc = "start"
    /\ ran = <<>> /\ out = <<>> /\ got = 0
    /\ deaf = FALSE /\ result = "none"

Smaller(a, b) == IF a <= b THEN a ELSE b

-----------------------------------------------------------------------------
(* cmd_run_stdio writes to the log first and last; serve runs in between.   *)
Startup ==
    /\ pc = "start"
    /\ \/ pc' = "decode" /\ result' = result
       \/ pc' = "over" /\ result' = "unlogged"
    /\ UNCHANGED <<client, taken, buf, ran, out>>

Return(what) == pc' = "closing" /\ result' = what

(* Variant: a read is thrown away once its first frame is decoded.          *)
HandleAlone ==
    /\ pc = "decode" /\ Whole(buf) /\ Body(buf) \in Requests
    /\ buf' = <<>>
    /\ ran' = Append(ran, Body(buf))
    /\ pc' = "write"
    /\ UNCHANGED <<client, taken, out, result>>

(* A whole frame is taken out of the buffer and its request run.            *)
Handle ==
    /\ pc = "decode" /\ Whole(buf) /\ Body(buf) \in Requests
    /\ buf' = After(buf)
    /\ ran' = Append(ran, Body(buf))
    /\ pc' = "write"
    /\ UNCHANGED <<client, taken, out, result>>

Refuse ==
    /\ pc = "decode" /\ Whole(buf) /\ Body(buf) \notin Requests
    /\ Return("invalid")
    /\ UNCHANGED <<client, taken, buf, ran, out>>

NeedMore ==
    /\ pc = "decode" /\ ~Whole(buf)
    /\ pc' = "read"
    /\ UNCHANGED <<client, taken, buf, ran, out, result>>

(* write_all blocks while the pipe is full and fails when nobody reads it.  *)
Write ==
    /\ pc = "write"
    /\ \/ deaf /\ Return("broken") /\ out' = out
       \/ /\ ~deaf /\ Len(out) - got < OutRoom
          /\ out' = Append(out, ran[Len(ran)])
          /\ pc' = "decode" /\ result' = result
    /\ UNCHANGED <<client, taken, buf, ran>>

(* Variant: the whole chunk is kept, however little was read.               *)
ReadWholeChunk ==
    /\ pc = "read" /\ taken < sent
    /\ \E n \in 1 .. Smaller(Chunk, sent - taken) :
          /\ buf' = buf \o [i \in 1 .. Chunk |-> IF i <= n THEN script[taken + i] ELSE 0]
          /\ taken' = taken + n
    /\ pc' = "decode"
    /\ UNCHANGED <<client, ran, out, result>>

Read ==
    /\ pc = "read" /\ taken < sent
    /\ \E n \in 1 .. Smaller(Chunk, sent - taken) :
          /\ buf' = buf \o SubSeq(script, taken + 1, taken + n)
          /\ taken' = taken + n
    /\ pc' = "decode"
    /\ UNCHANGED <<client, ran, out, result>>

(* Variant: the end of the stream is looked for between frames only.        *)
ReadEndBetween ==
    /\ pc = "read" /\ taken = Len(script) /\ buf = <<>>
    /\ Return("ok")
    /\ UNCHANGED <<client, taken, buf, ran, out>>

(* The client has closed and everything was read.                           *)
ReadEnd ==
    /\ pc = "read" /\ taken = Len(script)
    /\ Return(IF buf = <<>> THEN "ok" ELSE "cut")
    /\ UNCHANGED <<client, taken, buf, ran, out>>

ReadFails ==
    /\ pc = "read"
    /\ Return("broken")
    /\ UNCHANGED <<client, taken, buf, ran, out>>

Shutdown ==
    /\ pc = "closing"
    /\ pc' = "over" /\ result' \in {result, "unlogged"}
    /\ UNCHANGED <<client, taken, buf, ran, out>>

Server == Startup \/ Handle \/ Refuse \/ NeedMore \/ Write \/ Read \/ ReadEnd \/ Shutdown

-----------------------------------------------------------------------------
(* The client: it sends as the pipe has room, receives, or stops receiving. *)
Send ==
    /\ \E n \in 1 .. Smaller(Len(script) - sent, InRoom - (sent - taken)) : sent' = sent + n
    /\ UNCHANGED <<script, taken, buf, pc, ran, out, got, deaf, result>>

Receive ==
    /\ ~deaf /\ got < Len(out)
    /\ got' = got + 1
    /\ UNCHANGED <<script, sent, taken, buf, pc, ran, out, deaf, result>>

Hangup ==
    /\ ~deaf /\ deaf' = TRUE
    /\ UNCHANGED <<script, sent, taken, buf, pc, ran, out, got, result>>

Next == Server \/ ReadFails \/ Send \/ Receive \/ Hangup

Spec == Init /\ [][Next]_vars

(* The server is one running thread; that a handler returns is part of it.  *)
FairSpec == Spec /\ WF_vars(Server)

-----------------------------------------------------------------------------
(* rpc.rs:17-19: the requests of the script are run and answered in order,   *)
(* each once, and the session ends as the script does, however the reads     *)
(* cut it.  What was decoded is what was read less what is in the buffer.    *)
Stream == INSTANCE FrameStream WITH
    at <- taken - Len(buf), over <- IF pc = "over" THEN result ELSE "no"

ServesTheStream == Stream!Spec

(* A client that sends and receives side by side is served to the end of     *)
(* its script, however small the pipes: the server and its client never      *)
(* wait on each other.                                                       *)
Finishes == WF_vars(Send) /\ WF_vars(Receive) => <>(pc = "over")
===============================================================================
