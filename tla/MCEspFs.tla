------------------------------ MODULE MCEspFs ------------------------------
(* TLC instances of EspFs.                                                 *)
EXTENDS EspFs

MCDatas == {<<1>>, <<0, 1>>}
=============================================================================
