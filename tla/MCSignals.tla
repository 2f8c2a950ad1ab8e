----------------------------- MODULE MCSignals -----------------------------
(* TLC instances of Signals.                                               *)
EXTENDS Signals
=============================================================================
