----------------------------- MODULE MCProcess -----------------------------
(* TLC instances of Process.                                               *)
EXTENDS Process
=============================================================================
