------------------------------ MODULE MCSignaling ------------------------------
(***************************************************************************)
(* TLC instance of the signaling server: three connections for two table   *)
(* entries, so that the table fills up, a connection stays unregistered,   *)
(* an entry is reused and the host is replaced.                            *)
(***************************************************************************)
EXTENDS Signaling

================================================================================
