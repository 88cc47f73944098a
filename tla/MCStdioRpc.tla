------------------------------ MODULE MCStdioRpc ------------------------------
(* Scripts for StdioRpc: up to three frames, of a request of one byte, one  *)
(* of two, none or an unknown one, the last frame cut anywhere; and one     *)
(* longer than what the server and both pipes can hold.                     *)
EXTENDS StdioRpc

MCRequests == { <<1>>, <<2, 7>> }
MCBodies == MCRequests \cup { <<>>, <<255>> }

Frames(n) == [1 .. n -> { Encode(b) : b \in MCBodies }]
Joined(n) == CASE n = 0 -> { <<>> }
               [] n = 1 -> { f[1] : f \in Frames(1) }
               [] n = 2 -> { f[1] \o f[2] : f \in Frames(2) }
               [] n = 3 -> { f[1] \o f[2] \o Encode(<<1>>) : f \in Frames(2) }

Cuts(s) == { SubSeq(s, 1, k) : k \in 0 .. Len(s) }

(* When the second answer finds its pipe full, ten bytes or a few more have *)
(* been read, twelve fill the pipe to the server, and more are to be sent.  *)
Long == LET one == Encode(<<1>>) IN one \o one \o one \o one \o one \o one

MCScripts == {Long} \cup UNION { Cuts(s) : s \in UNION { Joined(n) : n \in 0 .. 3 } }
===============================================================================
