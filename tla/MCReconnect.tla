---------------------------- MODULE MCReconnect ----------------------------
(* Reconnect with few threads, for TLC. *)
EXTENDS Reconnect

CONSTANTS t1, t2
=============================================================================
