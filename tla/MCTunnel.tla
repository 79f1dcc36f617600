------------------------------- MODULE MCTunnel -------------------------------
(* Small instances of Tunnel for TLC. *)
EXTENDS Tunnel

CONSTANTS l1, l2
===============================================================================
