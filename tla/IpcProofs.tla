----------------------------- MODULE IpcProofs -----------------------------
(***************************************************************************)
(* Pipes and signals.                                                      *)
(*                                                                         *)
(* For any readers, writers and capacity, in both builds: a pipe keeps     *)
(* its bytes in order, on one core it loses no wakeup, and it implements   *)
(* Channel.  All but the order is about pipes, whose inodes live as long   *)
(* as an fd refers to them; FIFOs count their ends down on every call.     *)
(*                                                                         *)
(* For programs of any length and any signals: a signal frame holds what   *)
(* it interrupted.  The three invariants of Signals need each other, and   *)
(* one fact more: the user frame below a kernel one is of code that        *)
(* executes, never of the restorer, since that is where a call in the      *)
(* kernel was made from.                                                   *)
(***************************************************************************)
EXTENDS Pipe, Signals, SequenceTheorems, WellFoundedInduction, TLAPS

(* A count is 1 while its end is open and 0 once the last fd of that side  *)
(* is closed; a task inside a call has its fd open.                        *)
EndsCounted ==
    ~Fifo =>
        /\ \A s \in Sides : pipe.count[s] \in {0, 1}
        /\ \A t \in open : pipe.count[Side(t)] = 1
        /\ \A t \in Task : pc[t] \notin {"idle", "drop"} => t \in open

(* On one core no task is ever seen between two lock sections.             *)
OneCore == ~smp => owner = NoTask /\ \A t \in Task : pc[t] \in {"idle", "head"}

IInv == TypeOK /\ InOrder /\ EndsCounted /\ OneCore /\ (~Fifo => NoLostWakeup)

-----------------------------------------------------------------------------
(* The operators on the pipe.                                              *)

(* Waking a side empties its list, takes its tasks from those asleep and   *)
(* leaves the rest alone.                                                  *)
LEMMA WakeFacts ==
    ASSUME NEW p \in PipeRec, NEW s \in Sides
    PROVE  /\ Wake(p, s) \in PipeRec
           /\ Wake(p, s).buffer = p.buffer
           /\ Wake(p, s).count = p.count
           /\ Wake(p, s).asleep = p.asleep \ p.list[s]
           /\ Wake(p, s).list[Other(s)] = p.list[Other(s)]
BY DEF Wake, PipeRec, Sides, Other

(* A count goes down by one; the rest is left alone.                       *)
LEMMA DecrementFacts ==
    ASSUME NEW p \in PipeRec, NEW s \in Sides
    PROVE  /\ Decrement(p, s) \in PipeRec
           /\ Decrement(p, s).buffer = p.buffer
           /\ Decrement(p, s).asleep = p.asleep
           /\ Decrement(p, s).list = p.list
           /\ p.count[s] = 1 => Decrement(p, s).count[s] = 0
           /\ Decrement(p, s).count[Other(s)] = p.count[Other(s)]
<1>1. p.count[s] \in 0 .. UsizeMod - 1 /\ UsizeMod \in Nat /\ UsizeMod > 2
  BY PipeConstants DEF PipeRec
<1>2. (p.count[s] + UsizeMod - 1) % UsizeMod \in 0 .. UsizeMod - 1
  BY <1>1
<1>3. p.count[s] = 1 => (p.count[s] + UsizeMod - 1) % UsizeMod = 0
  BY <1>1
<1> QED BY <1>2, <1>3 DEF Decrement, PipeRec, Sides, Other

(* Dropping an end leaves the bytes alone.                                 *)
LEMMA DropFacts ==
    ASSUME NEW p \in PipeRec, NEW s \in Sides
    PROVE  DropEnd(p, s) \in PipeRec /\ DropEnd(p, s).buffer = p.buffer
<1>1. Other(s) \in Sides
  BY DEF Other, Sides
<1> DEFINE q == Decrement(p, s)
<1>2. q \in PipeRec /\ q.buffer = p.buffer
  BY DecrementFacts
<1> HIDE DEF q
<1>3. Wake(q, Other(s)) \in PipeRec /\ Wake(q, Other(s)).buffer = q.buffer
  BY <1>1, <1>2, WakeFacts
<1>4. DropEnd(p, s) = q \/ DropEnd(p, s) = Wake(q, Other(s))
  BY Zenon DEF DropEnd, WakeIfLast, q
<1> QED BY <1>2, <1>3, <1>4, Zenon

(* A task has a side, and a side has another.                              *)
LEMMA SideFacts ==
    /\ \A t \in Task : Side(t) \in Sides /\ (Side(t) = "r" <=> t \in Readers)
    /\ \A s \in Sides : Other(s) \in Sides /\ Other(s) # s /\ Other(Other(s)) = s
BY PipeConstants DEF Side, Sides, Other, Task

(* A call that returns leaves the bytes it was given; only a FIFO's inode  *)
(* is dropped with it.                                                     *)
LEMMA ReturnFacts ==
    ASSUME NEW t \in Task, NEW p \in PipeRec, NEW res, Return(t, p, res)
    PROVE  /\ pipe' \in PipeRec /\ pipe'.buffer = p.buffer
           /\ ~Fifo => pipe' = p
<1>1. DropEnd(p, Side(t)) \in PipeRec /\ DropEnd(p, Side(t)).buffer = p.buffer
  BY SideFacts, DropFacts
<1> QED BY <1>1, Zenon DEF Return

(* drain(..n) takes the first n bytes.                                     *)
LEMMA DrainFacts ==
    ASSUME NEW b \in Seq(1 .. MaxBytes), NEW n \in 1 .. Len(b)
    PROVE  /\ Drain(b, n) \in Seq(1 .. MaxBytes)
           /\ Len(Drain(b, n)) = Len(b) - n
           /\ \A i \in 1 .. Len(b) - n : Drain(b, n)[i] = b[n + i]
<1>1. n + 1 \in 1 .. Len(b) + 1 /\ Len(b) \in Nat
  OBVIOUS
<1>2. ASSUME NEW i \in n + 1 .. Len(b) PROVE b[i] \in 1 .. MaxBytes
  <2>1. i \in 1 .. Len(b)
    BY <1>1
  <2> QED BY <2>1, ElementOfSeq
<1>3. /\ SubSeq(b, n + 1, Len(b)) \in Seq(1 .. MaxBytes)
      /\ Len(SubSeq(b, n + 1, Len(b))) = IF n + 1 <= Len(b) THEN Len(b) - (n + 1) + 1 ELSE 0
      /\ \A i \in 1 .. Len(b) - (n + 1) + 1 : SubSeq(b, n + 1, Len(b))[i] = b[(n + 1) + i - 1]
  BY <1>1, <1>2, SubSeqProperties
<1>4. \A i \in 1 .. Len(b) - n : (n + 1) + i - 1 = n + i
  BY <1>1
<1>5. /\ Len(b) - (n + 1) + 1 = Len(b) - n
      /\ n + 1 <= Len(b) \/ Len(b) - n = 0
  BY <1>1
<1> QED BY <1>3, <1>4, <1>5, Zenon DEF Drain

(* extend_from_slice puts the new bytes behind those that are there.       *)
LEMMA FillFacts ==
    ASSUME NEW b \in Seq(1 .. MaxBytes), NEW s \in Nat, NEW n \in Nat, s + n <= MaxBytes
    PROVE  LET c == b \o [i \in 1 .. n |-> s + i]
           IN  /\ c \in Seq(1 .. MaxBytes)
               /\ Len(c) = Len(b) + n
               /\ \A i \in 1 .. Len(b) : c[i] = b[i]
               /\ \A i \in 1 .. n : c[Len(b) + i] = s + i
<1> DEFINE a == [i \in 1 .. n |-> s + i]
<1>1. a \in Seq(1 .. MaxBytes) /\ Len(a) = n /\ \A i \in 1 .. n : a[i] = s + i
  BY PipeConstants
<1> HIDE DEF a
<1>2. /\ b \o a \in Seq(1 .. MaxBytes) /\ Len(b \o a) = Len(b) + Len(a)
      /\ \A i \in 1 .. Len(b) + Len(a) : (b \o a)[i] = IF i <= Len(b) THEN b[i] ELSE a[i - Len(b)]
  BY <1>1, ConcatProperties
<1>3. Len(b) \in Nat
  OBVIOUS
<1>4. ASSUME NEW i \in 1 .. n PROVE (b \o a)[Len(b) + i] = s + i
  <2>1. Len(b) + i \in 1 .. Len(b) + Len(a) /\ ~(Len(b) + i <= Len(b)) /\ Len(b) + i - Len(b) = i
    BY <1>1, <1>3
  <2> QED BY <1>1, <1>2, <2>1
<1> QED BY <1>1, <1>2, <1>3, <1>4 DEF a
-----------------------------------------------------------------------------
(* The inductive invariant.                                                *)

At == {"idle", "head", "lock", "enlist", "block", "drop"}
Results == {"none", "ok", "eof", "broken"}

(* What a step that leaves the bytes alone may do to the types.            *)
Keeps ==
    /\ smp' = smp /\ pipe' \in PipeRec /\ pipe'.buffer = pipe.buffer
    /\ sent' = sent /\ got' = got
    /\ owner' \in Task \cup {NoTask} /\ open' \subseteq Task
    /\ pc' \in [Task -> At] /\ result' \in [Task -> Results]

\* A step that touches neither the buffer nor a transfer keeps what relates
\* the bytes written, buffered and read.
LEMMA KeepsData ==
    ASSUME TypeOK, InOrder, Keeps
    PROVE  TypeOK' /\ InOrder'
BY DEF TypeOK, InOrder, Keeps, At, Results

(* read_at takes the oldest bytes and counts them.                         *)
LEMMA ReadDataKeeps ==
    ASSUME TypeOK, InOrder, NEW t \in Task, ReadData(t), smp' = smp
    PROVE  TypeOK' /\ InOrder'
<1>1. PICK n \in 1 .. Len(pipe.buffer) :
         /\ got' = got + n
         /\ Return(t, Wake([pipe EXCEPT !.buffer = Drain(pipe.buffer, n)], "w"), "ok")
  BY DEF ReadData
<1> DEFINE b == Drain(pipe.buffer, n)
           q == [pipe EXCEPT !.buffer = b]
<1>2. /\ b \in Seq(1 .. MaxBytes) /\ Len(b) = Len(pipe.buffer) - n
      /\ \A i \in 1 .. Len(pipe.buffer) - n : b[i] = pipe.buffer[n + i]
  BY DrainFacts DEF TypeOK, PipeRec
<1> HIDE DEF b
<1>3. q \in PipeRec /\ q.buffer = b
  BY <1>2 DEF TypeOK, PipeRec
<1> HIDE DEF q
<1>4. Wake(q, "w") \in PipeRec /\ Wake(q, "w").buffer = b
  BY <1>3, WakeFacts DEF Sides
<1>5. pipe' \in PipeRec /\ pipe'.buffer = b
  BY <1>1, <1>4, ReturnFacts DEF q, b
<1>6. /\ sent' = sent /\ owner' = owner /\ open' = open
      /\ pc' = [pc EXCEPT ![t] = "idle"] /\ result' = [result EXCEPT ![t] = "ok"]
  BY <1>1 DEF ReadData, Return
<1>7. Len(pipe.buffer) \in Nat /\ n \in Nat /\ got \in Nat /\ sent \in Nat /\ Capacity \in Nat
  BY PipeConstants DEF TypeOK, PipeRec
<1>10. ASSUME NEW i \in 1 .. Len(b) PROVE b[i] = got' + i
  <2>1. n + i \in 1 .. Len(pipe.buffer) /\ i \in 1 .. Len(pipe.buffer) - n /\ i \in Nat
    BY <1>2, <1>7
  <2>2. b[i] = pipe.buffer[n + i] /\ pipe.buffer[n + i] = got + (n + i)
    BY <1>2, <2>1 DEF InOrder
  <2> QED BY <1>1, <1>7, <2>1, <2>2
<1>11. got' + Len(b) = sent
  BY <1>1, <1>2, <1>7 DEF InOrder
<1>8. InOrder'
  BY <1>5, <1>6, <1>10, <1>11, Zenon DEF InOrder
<1>9. got' \in 0 .. sent' /\ Len(pipe'.buffer) <= Capacity
  BY <1>1, <1>2, <1>5, <1>6, <1>7 DEF InOrder, TypeOK
<1> QED BY <1>5, <1>6, <1>8, <1>9 DEF TypeOK

(* write_at puts its bytes behind those that are there, as far as there is *)
(* room.                                                                   *)
LEMMA WriteDataKeeps ==
    ASSUME TypeOK, InOrder, NEW t \in Task, WriteData(t), smp' = smp
    PROVE  TypeOK' /\ InOrder'
<1>0. Len(pipe.buffer) \in Nat /\ Capacity \in Nat
  BY PipeConstants DEF TypeOK, PipeRec
<1>1. PICK n \in 1 .. Room(pipe) :
         /\ sent + n <= MaxBytes /\ sent' = sent + n
         /\ Return(t, Wake([pipe EXCEPT !.buffer = pipe.buffer \o [i \in 1 .. n |-> sent + i]], "r"), "ok")
  BY DEF WriteData
<1> DEFINE b == pipe.buffer \o [i \in 1 .. n |-> sent + i]
           q == [pipe EXCEPT !.buffer = b]
<1>7. /\ Len(pipe.buffer) \in Nat /\ got \in Nat /\ sent \in Nat /\ Capacity \in Nat /\ MaxBytes \in Nat
      /\ n \in Nat /\ n <= Capacity - Len(pipe.buffer)
  BY <1>0, PipeConstants DEF TypeOK, PipeRec, Room
<1>12. /\ got + (Len(pipe.buffer) + n) = sent + n /\ got <= sent + n
       /\ \A i \in Nat : sent + (i - Len(pipe.buffer)) = got + i
  <2> DEFINE l == Len(pipe.buffer)
  <2>1. got + l = sent
    BY Zenon DEF InOrder
  <2>2. got \in Nat /\ l \in Nat /\ sent \in Nat /\ n \in Nat
    BY <1>7
  <2> HIDE DEF l, b, q
  <2>3. got + (l + n) = sent + n /\ got <= sent + n /\ \A i \in Nat : sent + (i - l) = got + i
    BY <2>1, <2>2
  <2> QED BY <2>3 DEF l
<1>13. Len(pipe.buffer) + n <= Capacity /\ got \in 0 .. sent + n
  BY <1>7, <1>12
<1>14. sent + n \in 0 .. MaxBytes
  BY <1>1, <1>7
<1>2. /\ b \in Seq(1 .. MaxBytes) /\ Len(b) = Len(pipe.buffer) + n
      /\ \A i \in 1 .. Len(pipe.buffer) : b[i] = pipe.buffer[i]
      /\ \A i \in 1 .. n : b[Len(pipe.buffer) + i] = sent + i
  BY <1>1, <1>7, FillFacts, SMTT(30) DEF TypeOK, PipeRec
<1> HIDE DEF b
<1>3. q \in PipeRec /\ q.buffer = b
  BY <1>2 DEF TypeOK, PipeRec
<1> HIDE DEF q
<1>4. Wake(q, "r") \in PipeRec /\ Wake(q, "r").buffer = b
  BY <1>3, WakeFacts DEF Sides
<1>5. pipe' \in PipeRec /\ pipe'.buffer = b
  BY <1>1, <1>4, ReturnFacts DEF q, b
<1>6. /\ got' = got /\ owner' = owner /\ open' = open
      /\ pc' = [pc EXCEPT ![t] = "idle"] /\ result' = [result EXCEPT ![t] = "ok"]
  BY <1>1 DEF WriteData, Return
<1>8. ASSUME NEW i \in 1 .. Len(b) PROVE b[i] = got + i
  <2>1. CASE i <= Len(pipe.buffer)
    <3>1. i \in 1 .. Len(pipe.buffer)
      BY <1>7, <2>1
    <3>2. b[i] = pipe.buffer[i]
      BY <1>2, <3>1, Zenon
    <3>3. pipe.buffer[i] = got + i
      BY <3>1, Zenon DEF InOrder
    <3> QED BY <3>2, <3>3, Zenon
  <2>2. CASE i > Len(pipe.buffer)
    <3>1. i - Len(pipe.buffer) \in 1 .. n /\ Len(pipe.buffer) + (i - Len(pipe.buffer)) = i
      BY <1>2, <1>7, <2>2
    <3> DEFINE j == i - Len(pipe.buffer)
    <3>2. b[Len(pipe.buffer) + j] = sent + j
      BY <1>2, <3>1
    <3>4. sent + j = got + i
      BY <1>12
    <3> QED BY <3>1, <3>2, <3>4, Zenon
  <2>3. i <= Len(pipe.buffer) \/ i > Len(pipe.buffer)
    BY <1>7
  <2> QED BY <2>1, <2>2, <2>3
<1>11. got + Len(b) = sent + n
  BY <1>2, <1>12
<1>9. InOrder'
  BY <1>1, <1>5, <1>6, <1>8, <1>11, Zenon DEF InOrder
<1>10. got' \in 0 .. sent' /\ sent' \in 0 .. MaxBytes /\ Len(pipe'.buffer) <= Capacity
  BY <1>1, <1>2, <1>5, <1>6, <1>13, <1>14, Zenon
<1> QED BY <1>5, <1>6, <1>9, <1>10 DEF TypeOK

(* Enqueueing and blocking touch the task's own list and sleep only.       *)
LEMMA EnlistFacts ==
    ASSUME NEW p \in PipeRec, NEW t \in Task
    PROVE  /\ Enlist(p, t) \in PipeRec /\ Block(p, t) \in PipeRec
           /\ Enlist(p, t).buffer = p.buffer /\ Block(p, t).buffer = p.buffer
           /\ Enlist(p, t).count = p.count /\ Block(p, t).count = p.count
           /\ Enlist(p, t).asleep = p.asleep /\ Block(p, t).list = p.list
           /\ Block(p, t).asleep = p.asleep \cup {t}
           /\ t \in Enlist(p, t).list[Side(t)]
           /\ \A s \in Sides : p.list[s] \subseteq Enlist(p, t).list[s]
<1>1. Side(t) \in Sides
  BY SideFacts
<1>2. p = [buffer |-> p.buffer, asleep |-> p.asleep, list |-> p.list, count |-> p.count]
  BY DEF PipeRec
<1>3. /\ Block(p, t) \in PipeRec /\ Block(p, t).buffer = p.buffer /\ Block(p, t).count = p.count
      /\ Block(p, t).list = p.list /\ Block(p, t).asleep = p.asleep \cup {t}
  BY DEF Block, PipeRec
<1>4. /\ Enlist(p, t) \in PipeRec /\ Enlist(p, t).buffer = p.buffer /\ Enlist(p, t).count = p.count
      /\ Enlist(p, t).asleep = p.asleep
  BY <1>1 DEF Enlist, PipeRec
<1>5. Enlist(p, t).list = [p.list EXCEPT ![Side(t)] = @ \cup {t}]
  BY <1>1 DEF Enlist, PipeRec
<1>6. p.list \in [Sides -> SUBSET Task]
  BY DEF PipeRec
<1> QED BY <1>1, <1>3, <1>4, <1>5, <1>6

(* Going to sleep leaves the bytes alone.                                  *)
LEMMA SleepKeeps ==
    ASSUME TypeOK, NEW t \in Task, Sleep(t), smp' = smp
    PROVE  Keeps
<1>1. Block(Enlist(pipe, t), t) \in PipeRec /\ Block(Enlist(pipe, t), t).buffer = pipe.buffer
  BY EnlistFacts DEF TypeOK
<1>2. pipe' \in PipeRec /\ pipe'.buffer = pipe.buffer
  BY <1>1, Zenon DEF Sleep, TypeOK
<1> QED BY <1>2 DEF Keeps, Sleep, TypeOK, At, Results

(* The order of the bytes, and the types, survive every step.              *)
LEMMA DataStep ==
    ASSUME TypeOK, InOrder, Next
    PROVE  TypeOK' /\ InOrder'
<1>1. smp' = smp
  BY DEF Next, CallStep
<1>2. PICK t \in Task : CallStep(t) \/ Call(t) \/ Close(t) \/ Kill(t)
  BY DEF Next
<1>3. Side(t) \in Sides /\ Other(Side(t)) \in Sides
  BY SideFacts
<1>4. CASE ReadData(t)
  BY <1>1, <1>4, ReadDataKeeps
<1>5. CASE WriteData(t)
  BY <1>1, <1>5, WriteDataKeeps
<1>6. CASE ReadEof(t) \/ WriteBroken(t)
  <2>1. PICK res \in {"eof", "broken"} : Return(t, pipe, res)
    BY <1>6 DEF ReadEof, WriteBroken
  <2>2. pipe' \in PipeRec /\ pipe'.buffer = pipe.buffer
    BY <2>1, ReturnFacts DEF TypeOK
  <2>3. Keeps
    BY <1>1, <1>6, <2>1, <2>2 DEF Keeps, ReadEof, WriteBroken, Return, TypeOK, At, Results
  <2> QED BY <2>3, KeepsData
<1>7. CASE ReadEmpty(t) \/ WriteFull(t)
  BY <1>1, <1>7, SleepKeeps, KeepsData DEF ReadEmpty, WriteFull
<1>8. CASE SleepEnlist(t) \/ SleepBlock(t) \/ Kill(t)
  <2>1. pipe' \in PipeRec /\ pipe'.buffer = pipe.buffer
    <3>1. CASE Kill(t)
      BY <3>1 DEF Kill, TypeOK, PipeRec
    <3> QED BY <1>8, <3>1, EnlistFacts, SMTT(30) DEF SleepEnlist, SleepBlock, TypeOK
  <2>2. Keeps
    BY <1>1, <1>8, <2>1 DEF Keeps, SleepEnlist, SleepBlock, Kill, TypeOK, At, Results
  <2> QED BY <2>2, KeepsData
<1>9. CASE CloseWakes(t)
  <2>1. pipe' \in PipeRec /\ pipe'.buffer = pipe.buffer
    BY <1>3, <1>9, WakeFacts DEF CloseWakes, TypeOK
  <2>2. Keeps
    BY <1>1, <1>9, <2>1 DEF Keeps, CloseWakes, TypeOK, At, Results
  <2> QED BY <2>2, KeepsData
<1>10. CASE Close(t)
  <2>1. /\ Decrement(pipe, Side(t)) \in PipeRec /\ Decrement(pipe, Side(t)).buffer = pipe.buffer
        /\ DropEnd(pipe, Side(t)) \in PipeRec /\ DropEnd(pipe, Side(t)).buffer = pipe.buffer
    BY <1>3, DecrementFacts, DropFacts DEF TypeOK
  <2>2. pipe' \in PipeRec /\ pipe'.buffer = pipe.buffer
    BY <1>10, <2>1, Zenon DEF Close, TypeOK
  <2>3. Keeps
    BY <1>1, <1>10, <2>2 DEF Keeps, Close, TypeOK, At, Results
  <2> QED BY <2>3, KeepsData
<1>11. CASE Call(t) \/ WriteCheck(t)
  <2>1. Keeps
    BY <1>1, <1>11 DEF Keeps, Call, WriteCheck, TypeOK, At, Results
  <2> QED BY <2>1, KeepsData
<1> QED BY <1>2, <1>4, <1>5, <1>6, <1>7, <1>8, <1>9, <1>10, <1>11 DEF CallStep

(* On one core every step ends outside the lock sections.                  *)
LEMMA OneCoreStep ==
    ASSUME TypeOK, OneCore, Next
    PROVE  OneCore'
<1> SUFFICES ASSUME ~smp PROVE owner' = NoTask /\ \A u \in Task : pc'[u] \in {"idle", "head"}
  BY DEF OneCore, Next, CallStep
<1>1. owner = NoTask /\ \A u \in Task : pc[u] \in {"idle", "head"}
  BY DEF OneCore
<1>2. PICK t \in Task : CallStep(t) \/ Call(t) \/ Close(t) \/ Kill(t)
  BY DEF Next
<1>3. owner' = NoTask
  BY <1>1, <1>2 DEF CallStep, ReadData, ReadEof, ReadEmpty, WriteBroken, WriteCheck, WriteData,
     WriteFull, Sleep, SleepEnlist, SleepBlock, CloseWakes, Call, Close, Kill
<1>4. pc' = pc \/ pc' = [pc EXCEPT ![t] = "idle"] \/ pc' = [pc EXCEPT ![t] = "head"]
  BY <1>1, <1>2 DEF CallStep, ReadData, ReadEof, ReadEmpty, WriteBroken, WriteCheck, WriteData,
     WriteFull, Sleep, SleepEnlist, SleepBlock, CloseWakes, Call, Close, Kill, Return, Runs
<1> QED BY <1>1, <1>3, <1>4 DEF TypeOK

(* A pipe's counts say which sides have an fd, and a task inside a call    *)
(* has its fd open.                                                        *)
LEMMA EndsStep ==
    ASSUME TypeOK, EndsCounted, Next
    PROVE  EndsCounted'
<1> SUFFICES ASSUME ~Fifo
             PROVE  /\ \A s \in Sides : pipe'.count[s] \in {0, 1}
                    /\ \A u \in open' : pipe'.count[Side(u)] = 1
                    /\ \A u \in Task : pc'[u] \notin {"idle", "drop"} => u \in open'
  BY DEF EndsCounted
<1>1. PICK t \in Task : CallStep(t) \/ Call(t) \/ Close(t) \/ Kill(t)
  BY DEF Next
<1>2. Side(t) \in Sides /\ Other(Side(t)) \in Sides
  BY SideFacts
<1>3. /\ \A s \in Sides : pipe.count[s] \in {0, 1}
      /\ \A u \in open : pipe.count[Side(u)] = 1
      /\ \A u \in Task : pc[u] \notin {"idle", "drop"} => u \in open
  BY DEF EndsCounted
<1>4. CASE ~Close(t)
  <2>1. open' = open
    BY <1>1, <1>4 DEF CallStep, ReadData, ReadEof, ReadEmpty, WriteBroken, WriteCheck, WriteData,
       WriteFull, Sleep, SleepEnlist, SleepBlock, CloseWakes, Call, Kill
  <2>2. pipe'.count = pipe.count
    <3>1. CASE ReadData(t) \/ WriteData(t)
      <4>1. CASE ReadData(t)
        <5>1. PICK n : pipe' = Wake([pipe EXCEPT !.buffer = Drain(pipe.buffer, n)], "w")
          BY <4>1 DEF ReadData, Return
        <5> QED BY <5>1 DEF TypeOK, PipeRec, Wake
      <4>2. CASE WriteData(t)
        <5>1. PICK n : pipe' = Wake([pipe EXCEPT !.buffer = pipe.buffer \o [i \in 1 .. n |-> sent + i]], "r")
          BY <4>2 DEF WriteData, Return
        <5> QED BY <5>1 DEF TypeOK, PipeRec, Wake
      <4> QED BY <3>1, <4>1, <4>2
    <3>2. CASE ReadEmpty(t) \/ WriteFull(t)
      <4>1. Block(Enlist(pipe, t), t).count = pipe.count
        BY EnlistFacts DEF TypeOK
      <4> QED BY <3>2, <4>1 DEF ReadEmpty, WriteFull, Sleep
    <3>3. CASE SleepEnlist(t) \/ SleepBlock(t)
      <4>1. Enlist(pipe, t).count = pipe.count /\ Block(pipe, t).count = pipe.count
        BY EnlistFacts DEF TypeOK
      <4> QED BY <3>3, <4>1, Zenon DEF SleepEnlist, SleepBlock
    <3>4. CASE CloseWakes(t)
      BY <3>4, <1>2, WakeFacts DEF CloseWakes, TypeOK
    <3>5. CASE Kill(t)
      BY <3>5 DEF Kill, TypeOK, PipeRec
    <3>6. CASE ReadEof(t) \/ WriteBroken(t) \/ WriteCheck(t) \/ Call(t)
      BY <3>6 DEF ReadEof, WriteBroken, WriteCheck, Call, Return
    <3> QED BY <1>1, <1>4, <3>1, <3>2, <3>3, <3>4, <3>5, <3>6 DEF CallStep
  <2>3. CASE CloseWakes(t)
    BY <1>3, <2>1, <2>2, <2>3 DEF CloseWakes, TypeOK
  <2>4. CASE ~CloseWakes(t)
    <3>1. pc' = pc \/ (t \in open /\ \E at \in At : pc' = [pc EXCEPT ![t] = at])
      BY <1>1, <1>3, <1>4, <2>4 DEF CallStep, ReadData, ReadEof, ReadEmpty, WriteBroken, WriteCheck,
         WriteData, WriteFull, WriteLocks, Sleep, SleepEnlist, SleepBlock, Call, Kill, Return,
         Locks, Runs, At
    <3> QED BY <1>3, <2>1, <2>2, <3>1 DEF TypeOK
  <2> QED BY <2>3, <2>4
<1>5. CASE Close(t)
  <2>1. t \in open /\ open' = open \ {t} /\ pc[t] = "idle"
    BY <1>5 DEF Close, Runs
  <2>2. \A u \in Task : pc'[u] \notin {"idle", "drop"} => u \in open'
    <3>1. pc' = pc \/ pc' = [pc EXCEPT ![t] = "drop"]
      BY <1>5 DEF Close
    <3> QED BY <1>3, <2>1, <3>1 DEF TypeOK
  <2>3. CASE ~Drops(t)
    BY <1>3, <1>5, <2>1, <2>2, <2>3 DEF Close
  <2>4. CASE Drops(t)
    <3>1. /\ pipe'.count[Side(t)] = 0
          /\ pipe'.count[Other(Side(t))] = pipe.count[Other(Side(t))]
      <4> DEFINE d == Decrement(pipe, Side(t))
      <4>1. /\ d \in PipeRec /\ d.count[Side(t)] = 0
            /\ d.count[Other(Side(t))] = pipe.count[Other(Side(t))]
        BY <1>2, <1>3, <2>1, DecrementFacts DEF TypeOK
      <4>2. pipe' = d \/ pipe' = Wake(d, Other(Side(t)))
        BY <1>5, <2>4 DEF Close, DropEnd, WakeIfLast
      <4> HIDE DEF d
      <4> QED BY <1>2, <4>1, <4>2, WakeFacts
    <3>2. \A u \in open' : Side(u) = Other(Side(t))
      BY <2>1, <2>4 DEF Drops, LastOf, Side, Other
    <3>3. \A s \in Sides : s = Side(t) \/ s = Other(Side(t))
      BY <1>2 DEF Sides, Other
    <3> QED BY <1>2, <1>3, <2>1, <2>2, <3>1, <3>2, <3>3
  <2> QED BY <2>3, <2>4
<1> QED BY <1>4, <1>5

(* On one core: data wakes every sleeper, a sleeper goes to sleep on its   *)
(* list with nothing to wait for but the other side, and the last close of *)
(* a side wakes the other.                                                 *)
LEMMA WakeupStep ==
    ASSUME TypeOK, EndsCounted, OneCore, NoLostWakeup, ~Fifo, Next
    PROVE  NoLostWakeup'
<1> DEFINE Waits(p, u) == /\ u \in p.list[Side(u)]
                          /\ IF u \in Readers THEN p.buffer = << >> ELSE Len(p.buffer) = Capacity
                          /\ p.count[Other(Side(u))] # 0
<1> SUFFICES ASSUME ~smp, NEW u \in pipe'.asleep PROVE Waits(pipe', u)
  BY DEF NoLostWakeup, Next, CallStep
<1>1. PICK t \in Task : CallStep(t) \/ Call(t) \/ Close(t) \/ Kill(t)
  BY DEF Next
<1>2. \A v \in Task : Side(v) \in Sides /\ Other(Side(v)) \in Sides /\ (Side(v) = "r" <=> v \in Readers)
  BY SideFacts
<1>3. \A v \in pipe.asleep : v \in Task /\ Waits(pipe, v)
  BY DEF NoLostWakeup, TypeOK, PipeRec
<1>4. \A v \in Task : pc[v] \in {"idle", "head"}
  BY DEF OneCore
<1>5. ASSUME u \in pipe.asleep, pipe'.buffer = pipe.buffer, pipe'.count = pipe.count,
             pipe'.list = pipe.list
      PROVE  Waits(pipe', u)
  BY <1>3, <1>5
<1>6. CASE ReadData(t)
  <2>1. PICK n \in 1 .. Len(pipe.buffer) : pipe' = Wake([pipe EXCEPT !.buffer = Drain(pipe.buffer, n)], "w")
    BY <1>6 DEF ReadData, Return
  <2>2. pipe'.asleep = pipe.asleep \ pipe.list["w"]
    BY <2>1 DEF Wake, TypeOK, PipeRec
  <2>3. pipe.buffer # << >>
    BY <2>1
  <2> QED BY <1>2, <1>3, <2>2, <2>3 DEF Side
<1>7. CASE WriteData(t)
  <2>1. PICK n \in 1 .. Room(pipe) :
           pipe' = Wake([pipe EXCEPT !.buffer = pipe.buffer \o [i \in 1 .. n |-> sent + i]], "r")
    BY <1>7 DEF WriteData, Return
  <2>2. pipe'.asleep = pipe.asleep \ pipe.list["r"]
    BY <2>1 DEF Wake, TypeOK, PipeRec
  <2>3. Len(pipe.buffer) # Capacity
    BY <2>1, PipeConstants DEF Room
  <2> QED BY <1>2, <1>3, <2>2, <2>3 DEF Side
<1>8. CASE ReadEmpty(t) \/ WriteFull(t)
  <2>1. pipe' = Block(Enlist(pipe, t), t)
    BY <1>8 DEF ReadEmpty, WriteFull, Sleep
  <2> DEFINE e == Enlist(pipe, t)
  <2>2. /\ e \in PipeRec /\ e.buffer = pipe.buffer /\ e.count = pipe.count /\ e.asleep = pipe.asleep
        /\ t \in e.list[Side(t)]
        /\ \A s \in Sides : pipe.list[s] \subseteq e.list[s]
    BY EnlistFacts DEF TypeOK
  <2> HIDE DEF e
  <2>3. /\ Block(e, t).buffer = e.buffer /\ Block(e, t).count = e.count /\ Block(e, t).list = e.list
        /\ Block(e, t).asleep = e.asleep \cup {t}
    BY <2>2, EnlistFacts
  <2>4. /\ pipe'.buffer = pipe.buffer /\ pipe'.count = pipe.count
        /\ pipe'.asleep = pipe.asleep \cup {t} /\ pipe'.list = e.list
    BY <2>1, <2>2, <2>3 DEF e
  <2>5. CASE u = t
    <3>1. pipe'.count[Other(Side(t))] # 0
      BY <1>8, <2>4, PipeConstants DEF ReadEmpty, WriteFull, WriteLocks, Side, Other
    <3>2. IF t \in Readers THEN pipe'.buffer = << >> ELSE Len(pipe'.buffer) = Capacity
      <4>1. CASE ReadEmpty(t)
        BY <2>4, <4>1 DEF ReadEmpty
      <4>2. CASE WriteFull(t)
        <5>1. t \notin Readers
          BY <4>2, PipeConstants DEF WriteFull, WriteLocks
        <5>2. Len(pipe.buffer) \in Nat /\ Len(pipe.buffer) <= Capacity /\ Capacity - Len(pipe.buffer) <= 0
          BY <4>2 DEF WriteFull, Room, TypeOK, PipeRec
        <5>3. Len(pipe.buffer) = Capacity
          BY <5>2, PipeConstants
        <5> QED BY <2>4, <5>1, <5>3
      <4> QED BY <1>8, <4>1, <4>2
    <3> QED BY <2>2, <2>4, <2>5, <3>1, <3>2
  <2>6. CASE u # t
    BY <1>2, <1>3, <2>2, <2>4, <2>6
  <2> QED BY <2>5, <2>6
<1>9. CASE Close(t)
  <2>1. CASE ~Drops(t)
    BY <1>3, <1>9, <2>1 DEF Close
  <2>2. CASE Drops(t)
    <3> DEFINE s == Side(t)
               d == Decrement(pipe, s)
    <3>1. pipe.count[s] = 1 /\ s \in Sides /\ Other(s) \in Sides
      BY <1>2, <1>9 DEF Close, EndsCounted
    <3>2. pipe' = Wake(d, Other(s))
      BY <1>9, <2>2, <3>1 DEF Close, DropEnd, WakeIfLast
    <3>3. /\ d \in PipeRec /\ d.buffer = pipe.buffer /\ d.asleep = pipe.asleep /\ d.list = pipe.list
          /\ d.count[Other(s)] = pipe.count[Other(s)]
      BY <3>1, DecrementFacts DEF TypeOK
    <3> HIDE DEF d
    <3>4. /\ pipe'.buffer = pipe.buffer /\ pipe'.asleep = pipe.asleep \ pipe.list[Other(s)]
          /\ pipe'.list[s] = pipe.list[s] /\ pipe'.count[Other(s)] = pipe.count[Other(s)]
      BY <3>1, <3>2, <3>3, WakeFacts, SideFacts
    <3>5. Side(u) = s
      BY <1>2, <1>3, <3>1, <3>4 DEF Sides, Other
    <3> QED BY <1>3, <3>4, <3>5
  <2> QED BY <2>1, <2>2
<1>10. CASE Kill(t)
  BY <1>5, <1>10 DEF Kill, TypeOK, PipeRec
<1>11. CASE ReadEof(t) \/ WriteBroken(t) \/ WriteCheck(t) \/ Call(t)
  BY <1>3, <1>11 DEF ReadEof, WriteBroken, WriteCheck, Call, Return
<1>12. ~SleepEnlist(t) /\ ~SleepBlock(t) /\ ~CloseWakes(t)
  BY <1>4 DEF SleepEnlist, SleepBlock, CloseWakes, Runs
<1> QED BY <1>1, <1>6, <1>7, <1>8, <1>9, <1>10, <1>11, <1>12 DEF CallStep

\* A pipe starts in the invariant.
LEMMA InitInv == Init => IInv
<1> SUFFICES ASSUME Init PROVE IInv
  OBVIOUS
<1>1. pipe \in PipeRec /\ pipe.buffer = << >> /\ Len(pipe.buffer) = 0 /\ pipe.asleep = {}
  BY PipeConstants DEF Init, PipeRec, Sides
<1>2. TypeOK
  BY <1>1, PipeConstants DEF TypeOK, Init
<1>3. InOrder
  BY <1>1 DEF InOrder, Init
<1>4. EndsCounted
  BY DEF EndsCounted, Init, Sides, Side
<1>5. OneCore /\ NoLostWakeup
  BY <1>1 DEF OneCore, NoLostWakeup, Init
<1> QED BY <1>2, <1>3, <1>4, <1>5 DEF IInv

\* Every step of a reader, a writer, a close or a signal keeps the invariant.
LEMMA StepInv == IInv /\ [Next]_vars => IInv'
<1> SUFFICES ASSUME IInv, [Next]_vars PROVE IInv'
  OBVIOUS
<1>1. CASE Next
  BY <1>1, DataStep, EndsStep, OneCoreStep, WakeupStep DEF IInv
<1>2. CASE UNCHANGED vars
  BY <1>2 DEF vars, IInv, TypeOK, InOrder, EndsCounted, OneCore, NoLostWakeup, LastOf
<1> QED BY <1>1, <1>2

(* The invariant of read_at, write_at, Drop and sys_kill's unblock_task:   *)
(* bytes in order, counts that tell which ends are open, and on one core   *)
(* no lock section left half done and no sleeper forgotten.                *)
THEOREM PipeInvariant == Spec => []IInv
BY InitInv, StepInv, PTL DEF Spec

(* Bytes come out of a pipe or FIFO in the order they went in, none lost   *)
(* and none twice, for any tasks, capacity and build: read_at and write_at *)
(* only touch the buffer under its lock.                                   *)
THEOREM BytesInOrder == Spec => []InOrder
<1>1. IInv => InOrder
  BY DEF IInv
<1> QED BY <1>1, PipeInvariant, PTL

(* On one core a pipe loses no wakeup: enqueueing and blocking in one lock *)
(* section, waking on every transfer and on the last close is enough.      *)
THEOREM SleepersWoken == ASSUME ~Fifo PROVE Spec => []NoLostWakeup
<1>1. IInv => NoLostWakeup
  BY DEF IInv
<1> QED BY <1>1, PipeInvariant, PTL
-----------------------------------------------------------------------------
(* A pipe implements Channel.                                              *)

Busy == {t \in Task : pc[t] \notin {"idle", "drop"}}

(* A call that ends takes its task out of the busy ones.                   *)
LEMMA CallEnds ==
    ASSUME TypeOK, NEW t \in Task, pc[t] \notin {"idle", "drop"}, NEW p, NEW res, ~Fifo,
           Return(t, p, res), open' = open
    PROVE  Chan!End(t, res) /\ pipe' = p
<1>1. t \in Busy /\ Busy' = Busy \ {t}
  BY DEF Busy, Return, TypeOK
<1>2. pipe' = p /\ result' = [result EXCEPT ![t] = res]
  BY Zenon DEF Return
<1> QED BY <1>1, <1>2 DEF Chan!End, Busy

(* The new bytes lie behind the old ones.                                  *)
LEMMA Extends ==
    ASSUME NEW b \in Seq(1 .. MaxBytes), NEW c \in Seq(1 .. MaxBytes), NEW n \in Nat,
           Len(c) = Len(b) + n, \A i \in 1 .. Len(b) : c[i] = b[i]
    PROVE  SubSeq(c, 1, Len(b)) = b
<1> DEFINE l == Len(b)
           s == SubSeq(c, 1, l)
<1>1. l \in Nat /\ Len(c) = l + n
  OBVIOUS
<1> HIDE DEF l
<1>2. \A i \in 1 .. l : c[i] \in 1 .. MaxBytes
  <2>1. \A i \in 1 .. l : i \in 1 .. Len(c)
    BY <1>1
  <2> QED BY <2>1, ElementOfSeq
<1>5. /\ SubSeq(c, 1, l) \in Seq(1 .. MaxBytes)
      /\ Len(SubSeq(c, 1, l)) = IF 1 <= l THEN l - 1 + 1 ELSE 0
      /\ \A i \in 1 .. l - 1 + 1 : SubSeq(c, 1, l)[i] = c[1 + i - 1]
  <2>1. 1 \in 1 .. Len(c) + 1 /\ l \in 1 - 1 .. Len(c)
    BY <1>1
  <2> QED BY <1>1, <1>2, <2>1, SubSeqProperties
<1>6. /\ l - 1 + 1 = l /\ (1 <= l \/ l = 0)
      /\ \A i \in 1 .. l : 1 + i - 1 = i
  BY <1>1
<1>3. s \in Seq(1 .. MaxBytes) /\ Len(s) = l /\ \A i \in 1 .. l : s[i] = c[i]
  BY <1>5, <1>6, Zenon
<1> HIDE DEF s
<1>4. \A i \in 1 .. l : s[i] = b[i]
  BY <1>3 DEF l
<1> QED BY <1>1, <1>3, <1>4, SeqEqual DEF s, l

\* A step of the pipe is a step of Channel, or leaves it as it is.
LEMMA ChannelStep ==
    ASSUME IInv, Next, ~Fifo
    PROVE  [Chan!Next]_(Chan!vars)
<1>1. PICK t \in Task : CallStep(t) \/ Call(t) \/ Close(t) \/ Kill(t)
  BY DEF Next
<1>2. TypeOK /\ EndsCounted
  BY DEF IInv
<1>3. Len(pipe.buffer) \in Nat /\ pipe.buffer \in Seq(1 .. MaxBytes)
  BY <1>2 DEF TypeOK, PipeRec
<1>4. CASE ReadData(t)
  <2>1. PICK n \in 1 .. Len(pipe.buffer) :
           Return(t, Wake([pipe EXCEPT !.buffer = Drain(pipe.buffer, n)], "w"), "ok")
    BY <1>4 DEF ReadData
  <2>2. t \in Readers /\ pc[t] = "head" /\ open' = open
    BY <1>4 DEF ReadData, Locks, Runs
  <2>3. Chan!End(t, "ok") /\ pipe' = Wake([pipe EXCEPT !.buffer = Drain(pipe.buffer, n)], "w")
    BY <1>2, <2>1, <2>2, CallEnds
  <2>4. pipe'.buffer = SubSeq(pipe.buffer, n + 1, Len(pipe.buffer))
    BY <1>2, <2>3 DEF Wake, Drain, TypeOK, PipeRec
  <2> QED BY <2>2, <2>3, <2>4 DEF Chan!Next, Chan!Receive
<1>5. CASE ReadEof(t)
  <2>1. t \in Readers /\ pc[t] = "head" /\ open' = open /\ Return(t, pipe, "eof")
    BY <1>5 DEF ReadEof, Locks, Runs
  <2>2. Chan!End(t, "eof") /\ pipe' = pipe
    BY <1>2, <2>1, CallEnds
  <2>3. pipe.buffer = << >> /\ open \cap Writers = {}
    BY <1>2, <1>5, PipeConstants DEF ReadEof, AtEof, EndsCounted, Side
  <2> QED BY <2>1, <2>2, <2>3 DEF Chan!Next, Chan!EndOfFile
<1>6. CASE WriteBroken(t)
  <2>1. t \in Writers /\ pc[t] = "head" /\ open' = open /\ Return(t, pipe, "broken")
    BY <1>6 DEF WriteBroken, Runs
  <2>2. Chan!End(t, "broken") /\ pipe' = pipe
    BY <1>2, <2>1, CallEnds
  <2>3. open \cap Readers = {}
    BY <1>2, <1>6, PipeConstants DEF WriteBroken, EndsCounted, Side
  <2> QED BY <2>1, <2>2, <2>3 DEF Chan!Next, Chan!Broken
<1>7. CASE WriteData(t)
  <2> DEFINE b(n) == pipe.buffer \o [i \in 1 .. n |-> sent + i]
  <2>1. PICK n \in 1 .. Room(pipe) :
           sent + n <= MaxBytes /\ Return(t, Wake([pipe EXCEPT !.buffer = b(n)], "r"), "ok")
    BY <1>7 DEF WriteData
  <2>2. t \in Writers /\ pc[t] \notin {"idle", "drop"} /\ open' = open
    BY <1>7 DEF WriteData, WriteLocks, Locks, Runs
  <2>3. Chan!End(t, "ok") /\ pipe' = Wake([pipe EXCEPT !.buffer = b(n)], "r")
    BY <1>2, <2>1, <2>2, CallEnds
  <2>4. n \in Nat /\ n \in 1 .. Capacity - Len(pipe.buffer) /\ sent \in Nat
    BY <1>2, <1>3, PipeConstants DEF Room, TypeOK
  <2>5. /\ b(n) \in Seq(1 .. MaxBytes) /\ Len(b(n)) = Len(pipe.buffer) + n
        /\ \A i \in 1 .. Len(pipe.buffer) : b(n)[i] = pipe.buffer[i]
    BY <1>3, <2>1, <2>4, FillFacts
  <2> HIDE DEF b
  <2>6. pipe'.buffer = b(n)
    BY <1>2, <2>3 DEF Wake, TypeOK, PipeRec
  <2>7. SubSeq(b(n), 1, Len(pipe.buffer)) = pipe.buffer
    BY <1>3, <2>4, <2>5, Extends
  <2>8. Chan!Send(t)
    BY <2>3, <2>4, <2>5, <2>6, <2>7 DEF Chan!Send
  <2> QED BY <2>2, <2>8 DEF Chan!Next
<1>8. CASE Call(t)
  <2>1. t \in open \ Busy /\ Busy' = Busy \cup {t}
    BY <1>2, <1>8 DEF Call, Runs, Busy, TypeOK
  <2> QED BY <1>8, <2>1 DEF Call, Busy, Chan!Next, Chan!Begin, Chan!Task, Task
<1>9. CASE Close(t)
  <2>1. t \in open \ Busy /\ Busy' = Busy
    BY <1>2, <1>9 DEF Close, Runs, Busy, TypeOK
  <2>2. pipe'.buffer = pipe.buffer
    <3>1. /\ Decrement(pipe, Side(t)).buffer = pipe.buffer
          /\ DropEnd(pipe, Side(t)).buffer = pipe.buffer
      BY <1>2, SideFacts, DecrementFacts, DropFacts DEF TypeOK
    <3> QED BY <1>9, <3>1, Zenon DEF Close
  <2> QED BY <1>9, <2>1, <2>2 DEF Close, Busy, Chan!Next, Chan!Close, Chan!Task, Task
<1>10. ASSUME pipe'.buffer = pipe.buffer, open' = open, result' = result,
              \E at \in At : /\ pc[t] \in {"idle", "drop"} <=> at \in {"idle", "drop"}
                             /\ pc' = [pc EXCEPT ![t] = at]
       PROVE  [Chan!Next]_(Chan!vars)
  <2>1. Busy' = Busy
    BY <1>2, <1>10 DEF Busy, TypeOK
  <2> QED BY <1>10, <2>1 DEF Busy, Chan!vars
<1>11. CASE ReadEmpty(t) \/ WriteFull(t)
  <2>1. Sleep(t) /\ pc[t] \in {"head", "lock"}
    BY <1>11 DEF ReadEmpty, WriteFull, WriteLocks, Locks, Runs
  <2>2. Block(Enlist(pipe, t), t).buffer = pipe.buffer
    BY <1>2, EnlistFacts DEF TypeOK
  <2>3. pipe'.buffer = pipe.buffer
    BY <2>1, <2>2, Zenon DEF Sleep
  <2> QED BY <1>10, <2>1, <2>3 DEF Sleep, At
<1>12. CASE SleepEnlist(t) \/ SleepBlock(t)
  <2>1. Enlist(pipe, t).buffer = pipe.buffer /\ Block(pipe, t).buffer = pipe.buffer
    BY <1>2, EnlistFacts DEF TypeOK
  <2>2. pipe'.buffer = pipe.buffer
    BY <1>12, <2>1, Zenon DEF SleepEnlist, SleepBlock
  <2> QED BY <1>10, <1>12, <2>2 DEF SleepEnlist, SleepBlock, Runs, At
<1>13. CASE CloseWakes(t)
  <2>1. pipe'.buffer = pipe.buffer
    BY <1>2, <1>13, WakeFacts, SideFacts DEF CloseWakes, TypeOK
  <2> QED BY <1>10, <1>13, <2>1 DEF CloseWakes, Runs, At
<1>14. CASE WriteCheck(t)
  BY <1>10, <1>14 DEF WriteCheck, Runs, At
<1>15. CASE Kill(t)
  <2>1. pipe'.buffer = pipe.buffer
    BY <1>2, <1>15 DEF Kill, TypeOK, PipeRec
  <2> QED BY <1>15, <2>1 DEF Kill, Chan!vars
<1> QED BY <1>1, <1>4, <1>5, <1>6, <1>7, <1>8, <1>9, <1>11, <1>12, <1>13, <1>14, <1>15 DEF CallStep

(* A pipe is a Channel, in both builds and for any tasks and capacity: the *)
(* loops of read_at and write_at, the lists and the counts implement the   *)
(* bounded queue, and nobody is told end of file or broken pipe while the  *)
(* other side has an fd open.                                              *)
THEOREM PipeIsChannel == ASSUME ~Fifo PROVE Spec => IsChannel
<1>1. Init => Chan!Init
  BY DEF Init, Chan!Init, Chan!Task, Task
<1>2. IInv /\ [Next]_vars => [Chan!Next]_(Chan!vars)
  <2>1. UNCHANGED vars => UNCHANGED Chan!vars
    BY DEF vars, Chan!vars
  <2> QED BY <2>1, ChannelStep DEF vars
<1> QED BY <1>1, <1>2, PipeInvariant, PTL DEF Spec, IsChannel, Chan!Spec
-----------------------------------------------------------------------------
(* Signals.                                                                *)

SigIInv ==
    /\ SigTypeOK
    /\ KernelFrameKept
    /\ SavedWhileHandling
    /\ outer # NoFrame => outer.pc \in Program \cup {Handler}

(* The lowest pending signal is a pending signal.                          *)
LEMMA LowestPending ==
    ASSUME NEW S \in SUBSET Sigs, S # {}
    PROVE  Min(S) \in S
<1>1. S \subseteq Nat
  BY SignalConstants
<1> DEFINE R == OpToRel(<, Nat)
<1>r. R = {ss \in Nat \X Nat : ss[1] < ss[2]}
  BY DEF OpToRel
<1>2. PICK x \in S : \A y \in S : ~(<<y, x>> \in R)
  BY <1>1, NatLessThanWellFounded, WFMin
<1> HIDE DEF R
<1>3. ASSUME NEW y \in S PROVE x <= y
  <2>1. x \in Nat /\ y \in Nat /\ ~(<<y, x>> \in R)
    BY <1>1, <1>2
  <2>2. ~(y < x)
    BY <2>1, <1>r
  <2> QED BY <2>1, <2>2
<1> QED BY <1>3 DEF Min

(* Where things lie in the address space.                                  *)
LEMMA Layout ==
    /\ Handler \notin Program /\ Restorer \notin Program /\ Handler # Restorer
    /\ Kernel \notin UserText /\ NoFrame.pc # Kernel /\ NoFrame.pc \notin UserText
    /\ UserText = Program \cup {Handler, Restorer}
    /\ NoFrame \notin Frames
    /\ \A f \in Frames : f.pc = Kernel \/ f.pc \in UserText
BY SignalConstants DEF Handler, Restorer, Program, Kernel, UserText, NoFrame, Frames

(* Where a call or an instruction leaves the program counter.              *)
LEMMA StepFacts ==
    ASSUME NEW f \in Frames, f.pc \in UserText, NEW a \in {Own, Result} \cup Sigs
    PROVE  /\ Stepped(f.pc) \in UserText
           /\ Stepped(f.pc) \in Program <=> f.pc \in Program
           /\ f.pc \notin Program => Stepped(f.pc) = f.pc
           /\ [pc |-> Stepped(f.pc), a2 |-> a] \in Frames
<1>1. CASE f.pc \in Program
  <2>1. (f.pc + 1) % (LastPc + 1) \in 0 .. LastPc
    BY <1>1, SignalConstants DEF Program
  <2> QED BY <1>1, <2>1, Layout DEF Stepped, Program, Frames
<1>2. CASE f.pc \notin Program
  BY <1>2 DEF Stepped, Frames
<1> QED BY <1>1, <1>2

(* What the trap hands to its epilogue: a frame of user text, and a saved  *)
(* context exactly when that frame is of a handler.                        *)
Handed(f, pend, hand, sav) ==
    /\ f \in Frames /\ f.pc \in UserText
    /\ pend \subseteq Sigs /\ hand \subseteq Sigs \ {9}
    /\ sav \in Frames \cup {NoFrame}
    /\ sav # NoFrame <=> f.pc \in {Handler, Restorer}
    /\ sav.pc \in Program \cup {NoFrame.pc}

(* check_signals on such a frame, at the end of a trap or at a switch.     *)
LEMMA ContinueKeeps ==
    ASSUME NEW f, NEW pend, NEW hand, NEW sav, Handed(f, pend, hand, sav),
           Continue(f, pend, hand, sav), outer' = NoFrame, handlers' = hand, data' \in BOOLEAN
    PROVE  SigIInv'
<1> DEFINE c == CheckSignals(f, pend, hand, sav)
           sig == Min(pend)
<1>1. /\ frame' = c.frame /\ pending' = c.pending /\ saved' = c.saved
      /\ mode' \in {"running", "ready", "blocked", "exited"}
  BY DEF Continue
<1>2. \/ frame' = f /\ saved' = sav /\ pending' \subseteq Sigs
      \/ /\ frame' = [pc |-> Handler, a2 |-> sig] /\ saved' = f /\ pending' \subseteq Sigs
         /\ sav = NoFrame /\ sig \in Sigs
  <2>1. CASE ~Deliverable(f, pend)
    <3>1. c = [frame |-> f, pending |-> pend, saved |-> sav, exit |-> FALSE]
      BY <2>1 DEF CheckSignals
    <3> QED BY <1>1, <3>1 DEF Handed
  <2>2. CASE Deliverable(f, pend)
    <3>1. sig \in Sigs
      BY <2>2, LowestPending DEF Deliverable, Handed
    <3>2. CASE sig \notin hand
      <4>1. c = [frame |-> f, pending |-> pend \ {sig}, saved |-> sav, exit |-> sig \in Lethal]
        BY <2>2, <3>2 DEF CheckSignals
      <4> QED BY <1>1, <4>1 DEF Handed
    <3>3. CASE sig \in hand /\ sav # NoFrame
      <4>1. c = [frame |-> f, pending |-> pend \ {sig}, saved |-> sav, exit |-> FALSE]
        BY <2>2, <3>3 DEF CheckSignals
      <4> QED BY <1>1, <4>1 DEF Handed
    <3>4. CASE sig \in hand /\ sav = NoFrame
      <4>1. c = [frame |-> [pc |-> Handler, a2 |-> sig], pending |-> pend \ {sig}, saved |-> f, exit |-> FALSE]
        BY <2>2, <3>4 DEF CheckSignals
      <4> QED BY <1>1, <3>1, <3>4, <4>1 DEF Handed
    <3> QED BY <3>2, <3>3, <3>4
  <2> QED BY <2>1, <2>2
<1> HIDE DEF c, sig
<1>3. CASE frame' = f /\ saved' = sav /\ pending' \subseteq Sigs
  BY <1>1, <1>3, Layout DEF Handed, SigIInv, SigTypeOK, KernelFrameKept, SavedWhileHandling
<1>4. CASE /\ frame' = [pc |-> Handler, a2 |-> sig] /\ saved' = f /\ pending' \subseteq Sigs
           /\ sav = NoFrame /\ sig \in Sigs
  <2>1. f.pc \in Program /\ f # NoFrame /\ f.pc # Kernel
    BY <1>4, Layout DEF Handed
  <2>2. frame' \in Frames /\ frame'.pc = Handler /\ frame'.pc # Kernel
    BY <1>4, Layout DEF Frames
  <2> QED BY <1>1, <1>4, <2>1, <2>2 DEF Handed, SigIInv, SigTypeOK, KernelFrameKept, SavedWhileHandling
<1> QED BY <1>2, <1>3, <1>4

(* The epilogue of a trap on such a frame, whether or not it switches.     *)
LEMMA EndTrapKeeps ==
    ASSUME NEW f, NEW pend, NEW hand, NEW sav, Handed(f, pend, hand, sav),
           EndTrap(f, pend, hand, sav), outer' = NoFrame, handlers' = hand, data' \in BOOLEAN
    PROVE  SigIInv'
<1>1. CASE Continue(f, pend, hand, sav)
  BY <1>1, ContinueKeeps
<1>2. CASE frame' = f /\ pending' = pend /\ saved' = sav /\ mode' = "ready"
  BY <1>2, Layout DEF Handed, SigIInv, SigTypeOK, KernelFrameKept, SavedWhileHandling
<1> QED BY <1>1, <1>2 DEF EndTrap

(* A process in user text is in a state its next trap can hand over, and   *)
(* so is what the trap returns to.                                         *)
LEMMA UserHands ==
    ASSUME SigIInv, frame.pc \in UserText
    PROVE  /\ outer = NoFrame
           /\ Handed(frame, pending, handlers, saved)
           /\ Handed(Returned(frame), pending, handlers, saved)
<1>1. outer = NoFrame
  BY Layout DEF SigIInv, KernelFrameKept
<1>2. Handed(frame, pending, handlers, saved)
  BY <1>1 DEF Handed, SigIInv, SigTypeOK, SavedWhileHandling
<1>3. Returned(frame) \in Frames /\ Returned(frame).pc = Stepped(frame.pc)
  BY <1>2, StepFacts DEF Handed, Returned
<1>4. /\ Stepped(frame.pc) \in UserText
      /\ Stepped(frame.pc) \in {Handler, Restorer} <=> frame.pc \in {Handler, Restorer}
  BY <1>2, StepFacts, Layout DEF Handed
<1> QED BY <1>1, <1>2, <1>3, <1>4 DEF Handed

(* Every step keeps the invariant.                                         *)
LEMMA SigStep == SigIInv /\ [SigNext]_sigVars => SigIInv'
<1> SUFFICES ASSUME SigIInv, [SigNext]_sigVars PROVE SigIInv'
  OBVIOUS
<1>0. Executes => mode = "running" /\ frame.pc \in UserText /\ frame.pc \in Program \cup {Handler} /\ frame.pc # Kernel
  BY Layout DEF Executes
<1>t. data \in BOOLEAN /\ pending \subseteq Sigs /\ handlers \subseteq Sigs \ {9}
  BY DEF SigIInv, SigTypeOK
<1>1. CASE Execute
  <2>1. frame' = [pc |-> Stepped(frame.pc), a2 |-> Own] /\ UNCHANGED <<outer, mode, data, pending, handlers, saved>>
    BY <1>1 DEF Execute
  <2>2. Handed(frame, pending, handlers, saved) /\ outer = NoFrame
    BY <1>0, <1>1, UserHands DEF Execute
  <2>3. frame' \in Frames /\ frame'.pc = Stepped(frame.pc) /\ Stepped(frame.pc) \in UserText
    BY <2>1, <2>2, StepFacts DEF Handed
  <2>4. Stepped(frame.pc) \in {Handler, Restorer} <=> frame.pc \in {Handler, Restorer}
    BY <2>2, StepFacts, Layout DEF Handed
  <2> QED BY <2>1, <2>2, <2>3, <2>4, Layout DEF SigIInv, SigTypeOK, KernelFrameKept, SavedWhileHandling
<1>2. CASE HandlerReturns
  <2>1. frame' \in Frames /\ frame'.pc = Restorer /\ frame.pc = Handler /\ UNCHANGED <<outer, mode, data, pending, handlers, saved>>
    BY <1>2, Layout DEF HandlerReturns, SigIInv, SigTypeOK, Frames
  <2>2. outer = NoFrame
    BY <2>1, Layout DEF SigIInv, KernelFrameKept
  <2> QED BY <2>1, <2>2, Layout DEF SigIInv, SigTypeOK, KernelFrameKept, SavedWhileHandling
<1>3. CASE TimerInterrupt
  BY <1>3, <1>t, UserHands, EndTrapKeeps DEF TimerInterrupt
<1>4. CASE SwitchTo
  <2>1. CASE frame.pc \in UserText
    BY <1>4, <1>t, <2>1, UserHands, ContinueKeeps DEF SwitchTo
  <2>2. CASE frame.pc \notin UserText
    <3>1. CheckSignals(frame, pending, handlers, saved) = [frame |-> frame, pending |-> pending, saved |-> saved, exit |-> FALSE]
      BY <2>2 DEF CheckSignals, Deliverable
    <3>2. UNCHANGED <<frame, outer, data, pending, handlers, saved>> /\ mode' = "running"
      BY <1>4, <3>1 DEF SwitchTo, Continue
    <3> QED BY <3>2 DEF SigIInv, SigTypeOK, KernelFrameKept, SavedWhileHandling
  <2> QED BY <2>1, <2>2
<1>5. CASE Syscall
  BY <1>0, <1>5, <1>t, UserHands, EndTrapKeeps DEF Syscall
<1>6. CASE SysWaitBlocks
  BY <1>6 DEF SysWaitBlocks, SigIInv, SigTypeOK, KernelFrameKept, SavedWhileHandling
<1>7. CASE SysPipeBlocks
  <2>1. outer = NoFrame /\ Handed(frame, pending, handlers, saved) /\ frame.pc \in Program \cup {Handler} /\ frame.pc # Kernel
    BY <1>0, <1>7, UserHands DEF SysPipeBlocks
  <2>2. frame' \in Frames /\ frame'.pc = Kernel /\ outer' = frame /\ frame # NoFrame
    BY <1>7, <2>1, Layout DEF SysPipeBlocks, Frames, Handed
  <2>3. mode' = "blocked" /\ data' = FALSE /\ UNCHANGED <<pending, handlers, saved>>
    BY <1>7 DEF SysPipeBlocks
  <2> QED BY <2>1, <2>2, <2>3, Layout DEF Handed, SigIInv, SigTypeOK, KernelFrameKept, SavedWhileHandling
<1>8. CASE Wakes
  BY <1>8 DEF Wakes, SigIInv, SigTypeOK, KernelFrameKept, SavedWhileHandling
<1>9. CASE KernelResumes
  <2>1. CASE data /\ EndTrap(Returned(outer), pending, handlers, saved) /\ outer' = NoFrame
    <3>1. outer # NoFrame /\ outer \in Frames /\ outer.pc \in UserText
      BY <1>9, Layout DEF KernelResumes, SigIInv, SigTypeOK, KernelFrameKept
    <3>2. Returned(outer) \in Frames /\ Returned(outer).pc = Stepped(outer.pc) /\ Stepped(outer.pc) \in UserText
      BY <3>1, StepFacts DEF Returned
    <3>3. Stepped(outer.pc) \in {Handler, Restorer} <=> outer.pc \in {Handler, Restorer}
      BY <3>1, StepFacts, Layout
    <3>4. Handed(Returned(outer), pending, handlers, saved)
      BY <3>1, <3>2, <3>3 DEF Handed, SigIInv, SigTypeOK, SavedWhileHandling
    <3> QED BY <1>9, <1>t, <2>1, <3>4, EndTrapKeeps DEF KernelResumes
  <2>2. CASE mode' = "blocked" /\ UNCHANGED <<frame, outer, pending, saved>>
    BY <1>9, <2>2 DEF KernelResumes, SigIInv, SigTypeOK, KernelFrameKept, SavedWhileHandling
  <2> QED BY <1>9, <2>1, <2>2 DEF KernelResumes
<1>10. CASE SysSigreturn
  <2>1. frame.pc = Restorer /\ frame.pc \in UserText /\ outer = NoFrame
    BY <1>10, Layout, UserHands DEF SysSigreturn
  <2>2. saved # NoFrame /\ saved \in Frames /\ saved.pc \in Program
    BY <2>1, Layout DEF SigIInv, SigTypeOK, SavedWhileHandling, Frames
  <2>3. Returned(saved) \in Frames /\ Returned(saved).pc \in Program
    BY <2>2, StepFacts, Layout DEF Returned
  <2>4. Handed(Returned(saved), pending, handlers, NoFrame)
    BY <1>t, <2>3, Layout DEF Handed
  <2>5. EndTrap(Returned(saved), pending, handlers, NoFrame) /\ UNCHANGED <<outer, data, handlers>>
    BY <1>10, <2>2 DEF SysSigreturn, TakeContext
  <2> QED BY <1>t, <2>1, <2>4, <2>5, EndTrapKeeps
<1>11. ASSUME NEW sig \in Sigs, SysSigaction(sig) PROVE SigIInv'
  <2>1. PICK hand \in {handlers \cup {sig}, handlers \ {sig}} :
          handlers' = hand /\ EndTrap(Returned(frame), pending, hand, saved)
    BY <1>11 DEF SysSigaction
  <2>2. outer = NoFrame /\ Handed(Returned(frame), pending, handlers, saved)
    BY <1>0, <1>11, UserHands DEF SysSigaction
  <2>3. hand \subseteq Sigs \ {9}
    BY <1>11, <1>t DEF SysSigaction, Catchable
  <2>4. Handed(Returned(frame), pending, hand, saved)
    BY <2>2, <2>3 DEF Handed
  <2> QED BY <1>11, <1>t, <2>1, <2>2, <2>4, EndTrapKeeps DEF SysSigaction
<1>12. ASSUME NEW sig \in Sigs, SysKill(sig) PROVE SigIInv'
  <2>1. CASE Executes /\ EndTrap(Returned(frame), pending \cup {sig}, handlers, saved) /\ UNCHANGED <<outer, data, handlers>>
    <3>1. outer = NoFrame /\ Handed(Returned(frame), pending \cup {sig}, handlers, saved)
      BY <1>0, <2>1, UserHands DEF Handed
    <3> QED BY <1>t, <2>1, <3>1, EndTrapKeeps
  <2>2. CASE pending' = pending \cup {sig} /\ mode' = "ready" /\ UNCHANGED <<frame, outer, data, handlers, saved>>
    BY <2>2 DEF SigIInv, SigTypeOK, KernelFrameKept, SavedWhileHandling
  <2> QED BY <1>12, <2>1, <2>2 DEF SysKill
<1>13. CASE UNCHANGED sigVars
  BY <1>13 DEF sigVars, SigIInv, SigTypeOK, KernelFrameKept, SavedWhileHandling
<1> QED BY <1>1, <1>2, <1>3, <1>4, <1>5, <1>6, <1>7, <1>8, <1>9, <1>10, <1>11, <1>12, <1>13 DEF SigNext

(* The invariant holds in every reachable state.                           *)
THEOREM SigInvariant == SigSpec => []SigIInv
<1>1. ASSUME SigInit PROVE SigIInv
  <2>1. frame \in Frames /\ frame.pc \in Program
    BY <1>1, SignalConstants DEF SigInit, Frames, UserText, Restorer, Program
  <2>2. frame.pc # Kernel /\ frame.pc \notin {Handler, Restorer}
    BY <2>1, Layout
  <2> QED BY <1>1, <2>1, <2>2, Layout DEF SigInit, SigIInv, SigTypeOK, KernelFrameKept, SavedWhileHandling
<1> QED BY <1>1, SigStep, PTL DEF SigSpec

(* The types; SIGKILL has no handler.                                      *)
THEOREM SigTypes == SigSpec => []SigTypeOK
<1>1. SigIInv => SigTypeOK
  BY DEF SigIInv
<1> QED BY <1>1, SigInvariant, PTL

(* A call that waits in the kernel comes back there: check_signals never   *)
(* redirects a frame in kernel text, whatever is pending and whoever       *)
(* switches.                                                               *)
THEOREM KernelFramesKept == SigSpec => []KernelFrameKept
<1>1. SigIInv => KernelFrameKept
  BY DEF SigIInv
<1> QED BY <1>1, SigInvariant, PTL

(* The one saved context is in use exactly while a handler runs and is     *)
(* never overwritten, however signals, calls and interrupts nest.          *)
THEOREM OneSavedContext == SigSpec => []SavedWhileHandling
<1>1. SigIInv => SavedWhileHandling
  BY DEF SigIInv
<1> QED BY <1>1, SigInvariant, PTL
===========================================================================
