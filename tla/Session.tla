------------------------------ MODULE Session ------------------------------
(***************************************************************************)
(* A session's channel (session.rs): two rings of bytes between the net    *)
(* task and the session's programs, and the flag that ends the session.    *)
(* The serial console has no rings: it writes every byte at once.          *)
(* A definition named after the one that follows it is a mutant, wrong on  *)
(* purpose; nothing uses it.                                               *)
(***************************************************************************)
EXTENDS Integers, Sequences, SequencesExt

CONSTANT RING_CAP

ASSUME RingAssumption == RING_CAP \in Nat \ {0, 1}

LF == "nl"
RET == "cr"

NewChannel == [open |-> TRUE, to |-> <<>>, from |-> <<>>]

\* close: the flag, then both rings are emptied.
CloseChannel(c) == [open |-> FALSE, to |-> <<>>, from |-> <<>>]

\* write: as much as fits; "nl" becomes "cr" "nl", both or neither.
Sent(b) == IF b = LF THEN <<RET, LF>> ELSE <<b>>
PutByte(w, b) ==
    IF w.stop \/ Len(w.from) + Len(Sent(b)) > RING_CAP THEN [w EXCEPT !.stop = TRUE]
    ELSE [w EXCEPT !.from = @ \o Sent(b), !.taken = @ + 1]
WriteRing(c, bytes) == FoldLeft(PutByte, [from |-> c.from, taken |-> 0, stop |-> FALSE], bytes)
WriteConsole(bytes) == FoldLeft(LAMBDA out, b : out \o Sent(b), <<>>, bytes)
\* What the caller is told: IoError on a closed channel, WouldBlock when
\* nothing fitted.
WriteAnswer(c, bytes, w) ==
    CASE ~c.open -> "IoError"
      [] c.open /\ bytes # <<>> /\ w.taken = 0 -> "WouldBlock"
      [] OTHER -> "Ok"

\* read and push_input: Ok(0) only when the session is over.
ReadAnswer(c) == CASE ~c.open -> "End" [] c.open /\ c.to = <<>> -> "WouldBlock" [] OTHER -> "Ok"
PushInput(c, data) ==
    IF c.open THEN [c EXCEPT !.to = @ \o SubSeq(data, 1, IF Len(data) < RING_CAP - Len(@) THEN Len(data) ELSE RING_CAP - Len(@))]
    ELSE c
Output(c, max) == SubSeq(c.from, 1, IF max < Len(c.from) THEN max ELSE Len(c.from))
TakeOutputAll(c, max) == [c EXCEPT !.from = <<>>]
TakeOutput(c, max) == [c EXCEPT !.from = SubSeq(@, Len(Output(c, max)) + 1, Len(@))]
=============================================================================
