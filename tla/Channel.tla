------------------------------ MODULE Channel ------------------------------
(***************************************************************************)
(* What a pipe promises its users: a bounded queue of bytes.  A call takes *)
(* or adds a block of bytes in one step, end of file is reported only when *)
(* the queue is empty and nobody has the write end open, and a broken pipe *)
(* only when nobody has the read end open.  How a caller waits, and who    *)
(* wakes it, is not part of the promise.                                   *)
(***************************************************************************)
EXTENDS Naturals, Sequences

CONSTANTS Readers, Writers, Capacity

VARIABLES
    queue,      \* the bytes written and not yet read
    open,       \* tasks that have their end open
    busy,       \* tasks in a call
    result      \* how a task's last call ended

vars == <<queue, open, busy, result>>

Task == Readers \cup Writers

Init ==
    /\ queue = << >>
    /\ open = Task
    /\ busy = {}
    /\ result = [t \in Task |-> "none"]

Begin(t) ==
    /\ t \in open \ busy
    /\ busy' = busy \cup {t}
    /\ UNCHANGED <<queue, open, result>>

End(t, res) ==
    /\ t \in busy
    /\ busy' = busy \ {t}
    /\ result' = [result EXCEPT ![t] = res]
    /\ UNCHANGED open

Receive(r) ==
    \E n \in 1 .. Len(queue) :
        /\ queue' = SubSeq(queue, n + 1, Len(queue))
        /\ End(r, "ok")

EndOfFile(r) ==
    /\ queue = << >> /\ open \cap Writers = {}
    /\ End(r, "eof")
    /\ UNCHANGED queue

Send(w) ==
    /\ \E n \in 1 .. Capacity - Len(queue) :
          /\ Len(queue') = Len(queue) + n
          /\ SubSeq(queue', 1, Len(queue)) = queue
    /\ End(w, "ok")

Broken(w) ==
    /\ open \cap Readers = {}
    /\ End(w, "broken")
    /\ UNCHANGED queue

Close(t) ==
    /\ t \in open \ busy
    /\ open' = open \ {t}
    /\ UNCHANGED <<queue, busy, result>>

Next ==
    \/ \E r \in Readers : Receive(r) \/ EndOfFile(r)
    \/ \E w \in Writers : Send(w) \/ Broken(w)
    \/ \E t \in Task : Begin(t) \/ Close(t)

Spec == Init /\ [][Next]_vars
=============================================================================
