------------------------------ MODULE MCFlash ------------------------------
(* What is kept in flash: the file system and the firmware slots.  They    *)
(* lie in partitions of their own, so a behaviour is one of either.        *)
EXTENDS EspFs, Ota

MCDatas == {<<1>>, <<0, 1>>}

VARIABLE side
FlashInit == side \in {"files", "update"} /\ Init /\ OtaInit
FlashNext ==
    /\ \/ side = "files" /\ Next /\ UNCHANGED otaVars
       \/ side = "update" /\ OtaNext /\ UNCHANGED vars
    /\ UNCHANGED side
FlashSpec == FlashInit /\ [][FlashNext]_<<vars, otaVars, side>>
=============================================================================
