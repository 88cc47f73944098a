------------------------------- MODULE MCTunnel -------------------------------
(* Instances of Tunnel for TLC.                                            *)
EXTENDS Tunnel

(* One handler may hang, the other requests must not suffer from it.       *)
ServedBesideOne == ServedBeside({"s1"})
=============================================================================
