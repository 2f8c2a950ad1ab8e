------------------------------- MODULE MCPipe -------------------------------
(* TLC instances of Pipe.                                                  *)
EXTENDS Pipe
=============================================================================
