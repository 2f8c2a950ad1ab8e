------------------------------- MODULE MCOta -------------------------------
(* TLC instances of Ota.                                                   *)
EXTENDS Ota
=============================================================================
