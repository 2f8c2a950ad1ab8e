-------------------------- MODULE SchedulerProofs --------------------------
(***************************************************************************)
(* Proofs about Scheduler, for every number of cores and of tids.          *)
(***************************************************************************)
EXTENDS Scheduler, WellFoundedInduction, TLAPS

-----------------------------------------------------------------------------
(* The queue operators.                                                    *)

(* Vec::remove(i) takes out the tid at position i and no other.            *)
LEMMA DropAtProperties ==
    ASSUME NEW q \in Seq(Tid), NoDup(q), NEW i \in DOMAIN q
    PROVE  /\ DropAt(q, i) \in Seq(Tid)
           /\ NoDup(DropAt(q, i))
           /\ \A t : InQueue(DropAt(q, i), t) <=> (InQueue(q, t) /\ t # q[i])
<1> DEFINE r == DropAt(q, i)
<1>1. Len(q) \in Nat /\ DOMAIN q = 1 .. Len(q) /\ i \in 1 .. Len(q)
  OBVIOUS
<1>2. /\ r \in [1 .. Len(q) - 1 -> Tid]
      /\ \A j \in 1 .. Len(q) - 1 : r[j] = IF j < i THEN q[j] ELSE q[j + 1]
  BY <1>1 DEF DropAt
<1>3. r \in Seq(Tid) /\ DOMAIN r = 1 .. Len(q) - 1
  BY <1>1, <1>2
<1>4. NoDup(r)
  BY <1>1, <1>2, <1>3, SMTT(30) DEF NoDup
<1>5. ASSUME NEW t PROVE InQueue(r, t) <=> (InQueue(q, t) /\ t # q[i])
  <2>1. ASSUME InQueue(r, t) PROVE InQueue(q, t) /\ t # q[i]
    BY <1>1, <1>2, <1>3, <2>1, SMTT(30) DEF InQueue, NoDup
  <2>2. ASSUME InQueue(q, t), t # q[i] PROVE InQueue(r, t)
    <3>1. PICK k \in 1 .. Len(q) : q[k] = t
      BY <1>1, <2>2 DEF InQueue
    <3>2. CASE k < i
      BY <1>1, <1>2, <1>3, <3>1, <3>2 DEF InQueue
    <3>3. CASE k > i
      <4>1. k - 1 \in 1 .. Len(q) - 1 /\ ~(k - 1 < i) /\ (k - 1) + 1 = k
        BY <1>1, <3>1, <3>3
      <4> QED BY <1>2, <1>3, <3>1, <4>1, Zenon DEF InQueue
    <3> QED BY <1>1, <2>2, <3>1, <3>2, <3>3
  <2> QED BY <2>1, <2>2
<1> QED BY <1>3, <1>4, <1>5

(* Vec::push of a tid that is not queued.                                  *)
LEMMA AppendKeepsNoDup ==
    ASSUME NEW q \in Seq(Tid), NoDup(q), NEW t \in Tid
    PROVE  /\ Append(q, t) \in Seq(Tid)
           /\ ~InQueue(q, t) => NoDup(Append(q, t))
           /\ \A u : InQueue(Append(q, t), u) <=> (InQueue(q, u) \/ u = t)
<1> DEFINE r == Append(q, t)
<1>1. /\ r \in Seq(Tid) /\ Len(r) = Len(q) + 1 /\ Len(q) \in Nat
      /\ DOMAIN q = 1 .. Len(q) /\ DOMAIN r = 1 .. Len(q) + 1
      /\ \A i \in 1 .. Len(q) : r[i] = q[i]
      /\ r[Len(q) + 1] = t
  OBVIOUS
<1> HIDE DEF r
<1>2. ASSUME ~InQueue(q, t) PROVE NoDup(r)
  BY <1>1, <1>2 DEF NoDup, InQueue
<1>3. ASSUME NEW u PROVE InQueue(r, u) <=> (InQueue(q, u) \/ u = t)
  <2>1. ASSUME InQueue(r, u) PROVE InQueue(q, u) \/ u = t
    BY <1>1, <2>1 DEF InQueue
  <2>2. ASSUME InQueue(q, u) PROVE InQueue(r, u)
    BY <1>1, <2>2 DEF InQueue
  <2>3. InQueue(r, t)
    BY <1>1 DEF InQueue
  <2> QED BY <2>1, <2>2, <2>3
<1> QED BY <1>1, <1>2, <1>3 DEF r

(* Vec::retain(|x| x != t) on a queue without duplicates.                  *)
LEMMA RetainOne ==
    ASSUME NEW q \in Seq(Tid), NoDup(q), NEW t
    PROVE  /\ Retain(q, {t}) \in Seq(Tid)
           /\ NoDup(Retain(q, {t}))
           /\ \A u : InQueue(Retain(q, {t}), u) <=> (InQueue(q, u) /\ u # t)
<1> DEFINE hits == {i \in DOMAIN q : q[i] \in {t}}
<1>1. CASE hits = {}
  <2>1. Retain(q, {t}) = q
    BY <1>1 DEF Retain
  <2> QED BY <1>1, <2>1, Zenon DEF InQueue
<1>2. CASE hits # {}
  <2>1. \A i, j \in hits : i = j
    BY DEF NoDup
  <2>2. Retain(q, {t}) = DropAt(q, CHOOSE i \in hits : TRUE)
    BY <1>2, <2>1 DEF Retain
  <2>3. (CHOOSE i \in hits : TRUE) \in hits
    BY <1>2
  <2>4. PICK i \in DOMAIN q : q[i] = t /\ Retain(q, {t}) = DropAt(q, i)
    BY <2>2, <2>3
  <2>5. /\ DropAt(q, i) \in Seq(Tid)
        /\ NoDup(DropAt(q, i))
        /\ \A u : InQueue(DropAt(q, i), u) <=> (InQueue(q, u) /\ u # q[i])
    BY DropAtProperties
  <2> QED BY <2>4, <2>5, Zenon
<1> QED BY <1>1, <1>2, Zenon

(* Vec::retain that drops nothing.                                         *)
LEMMA RetainNone ==
    ASSUME NEW q, NEW S, \A t \in S : ~InQueue(q, t)
    PROVE  Retain(q, S) = q
BY DEF Retain, InQueue

(* A non-empty set of naturals has a least element.                        *)
LEMMA LeastNat ==
    ASSUME NEW T, T \subseteq Nat, T # {}
    PROVE  \E x \in T : \A y \in T : x <= y
<1> DEFINE R == OpToRel(<, Nat)
<1>1. IsWellFoundedOn(R, Nat)
  BY NatLessThanWellFounded
<1> HIDE DEF R
<1>2. PICK x \in T : \A y \in T : ~(<<y, x>> \in R)
  BY <1>1, WFMin, Zenon
<1>3. \A y \in T : ~(y < x)
  BY <1>2, Zenon DEF R, OpToRel
<1> QED BY <1>3

(* Among positions with a priority each, one has the highest priority and  *)
(* comes first of those that have it.                                      *)
LEMMA EarliestHighest ==
    ASSUME NEW E, E \subseteq Nat, E # {}, NEW p \in [E -> 0 .. 255]
    PROVE  \E b \in E : \A j \in E : p[b] > p[j] \/ (p[b] = p[j] /\ b <= j)
<1> DEFINE M == {255 - p[i] : i \in E}
<1>0. \A i \in E : p[i] \in Nat /\ p[i] <= 255
  OBVIOUS
<1>1. M \subseteq Nat /\ M # {}
  <2>1. \A i \in E : 255 - p[i] \in Nat
    BY <1>0
  <2>2. M \subseteq Nat
    BY <2>1
  <2>3. PICK i \in E : TRUE
    OBVIOUS
  <2>4. 255 - p[i] \in M
    OBVIOUS
  <2> QED BY <2>2, <2>4, Zenon
<1>2. PICK m \in M : \A y \in M : m <= y
  <2> HIDE DEF M
  <2> QED BY <1>1, LeastNat, Zenon
<1>3. PICK a \in E : m = 255 - p[a]
  OBVIOUS
<1>4. \A j \in E : p[j] <= p[a]
  <2>1. ASSUME NEW j \in E PROVE p[j] <= p[a]
    <3>1. 255 - p[j] \in M
      OBVIOUS
    <3>2. m <= 255 - p[j]
      BY <1>2, <3>1
    <3>3. p[a] \in Nat /\ p[j] \in Nat
      BY <1>0
    <3> HIDE DEF M
    <3> QED BY <1>3, <3>2, <3>3
  <2> QED BY <2>1
<1> DEFINE H == {i \in E : p[i] = p[a]}
<1>5. H \subseteq Nat /\ H # {}
  OBVIOUS
<1>6. PICK b \in H : \A y \in H : b <= y
  <2> HIDE DEF H
  <2> QED BY <1>5, LeastNat, Zenon
<1>7. ASSUME NEW j \in E
      PROVE  p[b] > p[j] \/ (p[b] = p[j] /\ b <= j)
  <2>1. p[b] = p[a] /\ p[j] <= p[a]
    BY <1>4, <1>6
  <2>2. CASE p[j] = p[a]
    BY <1>6, <2>1, <2>2
  <2>3. CASE p[j] # p[a]
    <3>1. p[a] \in Nat /\ p[j] \in Nat
      BY <1>0
    <3> HIDE DEF H, M
    <3> QED BY <2>1, <2>3, <3>1
  <2> QED BY <2>2, <2>3
<1> QED BY <1>6, <1>7

(* next_ready finds a position of the queue whenever one is eligible.      *)
LEMMA BestIdxEligible ==
    ASSUME NEW s \in SchedType, NEW c \in Cores, Eligible(s, c) # {}
    PROVE  BestIdx(s, c) \in Eligible(s, c)
<1> DEFINE E == Eligible(s, c)
           p == [i \in E |-> priority[s.ready[i]]]
<1>1. s.ready \in Seq(Tid)
  BY DEF SchedType
<1>2. E \subseteq DOMAIN s.ready
  BY DEF Eligible
<1>3. E \subseteq Nat
  BY <1>1, <1>2
<1>4. \A i \in E : s.ready[i] \in Tid
  BY <1>1, <1>2
<1> HIDE DEF E
<1>5. p \in [E -> 0 .. 255]
  BY <1>4, SchedConstants
<1>6. PICK b \in E : \A j \in E : p[b] > p[j] \/ (p[b] = p[j] /\ b <= j)
  <2> HIDE DEF p
  <2> QED BY <1>3, <1>5, EarliestHighest DEF E
<1>7. \A j \in E : Beats(s, b, j)
  BY <1>6 DEF Beats
<1> QED BY <1>7 DEF BestIdx, E
-----------------------------------------------------------------------------
(* The operators of the Scheduler struct keep the invariant.               *)

(* What membership in SchedType says, field by field.                      *)
LEMMA SchedFields ==
    ASSUME NEW s \in SchedType
    PROVE  /\ s = [tasks |-> s.tasks, ready |-> s.ready,
                   current |-> s.current, next_tid |-> s.next_tid,
                   slice_remaining |-> s.slice_remaining]
           /\ DOMAIN s.tasks \subseteq Tid
           /\ s.tasks \in [DOMAIN s.tasks -> TaskState]
           /\ s.ready \in Seq(Tid)
           /\ s.current \in [Cores -> Tid]
           /\ s.next_tid \in NCores .. TidMax
           /\ s.slice_remaining \in 0 .. QUANTUM_TICKS
BY DEF SchedType

(* And back.                                                               *)
LEMMA SchedTypeIntro ==
    ASSUME NEW s,
           s = [tasks |-> s.tasks, ready |-> s.ready,
                current |-> s.current, next_tid |-> s.next_tid,
                slice_remaining |-> s.slice_remaining],
           DOMAIN s.tasks \subseteq Tid,
           s.tasks \in [DOMAIN s.tasks -> TaskState],
           s.ready \in Seq(Tid),
           s.current \in [Cores -> Tid],
           s.next_tid \in NCores .. TidMax,
           s.slice_remaining \in 0 .. QUANTUM_TICKS
    PROVE  s \in SchedType
BY DEF SchedType

\* The idle tasks are tasks: one per core, core 0 included.
LEMMA CoresAreTids == Cores \subseteq Tid /\ 0 \in Cores
BY SchedConstants DEF Cores, Tid

(* reap_zombies_except frees Zombie tasks no core is on, and nothing else. *)
LEMMA ReapKeepsInv ==
    ASSUME NEW s \in SchedType, NEW on \in SUBSET Cores, SchedInv(s, on),
           NEW c \in Cores,
           NEW r, r = ReapZombiesExcept(s, s.current[c])
    PROVE  /\ r \in SchedType /\ SchedInv(r, on)
           /\ r.current = s.current /\ r.next_tid = s.next_tid
           /\ r.slice_remaining = s.slice_remaining
           /\ DOMAIN r.tasks = DOMAIN s.tasks \ DeadExcept(s, s.current[c])
           /\ \A t \in DOMAIN r.tasks : r.tasks[t] = s.tasks[t]
<1> DEFINE dead == DeadExcept(s, s.current[c])
<1>1. /\ \A t \in dead : /\ t \in DOMAIN s.tasks
                          /\ s.tasks[t] = "Zombie"
                          /\ \A d \in Cores : s.current[d] # t
  BY DEF DeadExcept
<1>2. \A t \in dead : ~InQueue(s.ready, t)
  BY <1>1, SchedFields DEF SchedInv, QueueSound, IdleTids, IdleSound
<1>3. Retain(s.ready, dead) = s.ready
  BY <1>2, RetainNone
<1> DEFINE D == DOMAIN s.tasks \ dead
           f == [t \in D |-> s.tasks[t]]
<1>11. r = [s EXCEPT !.tasks = f, !.ready = s.ready]
  BY <1>3 DEF ReapZombiesExcept
<1> HIDE DEF dead
<1>12. D \in SUBSET Tid /\ f \in [D -> TaskState]
  BY SchedFields
<1> HIDE DEF f
<1>4. r = [tasks |-> f, ready |-> s.ready, current |-> s.current,
           next_tid |-> s.next_tid, slice_remaining |-> s.slice_remaining]
  BY <1>11, SchedFields, Zenon
<1>5. r \in SchedType
  <2>1. r.tasks = f /\ DOMAIN f = D
    BY <1>4 DEF f
  <2> HIDE DEF D
  <2> QED BY <1>4, <1>12, <2>1, SchedFields, SchedTypeIntro
<1>6. \A t \in IdleTids : t \notin dead
  BY <1>1 DEF SchedInv, IdleSound, IdleTids
<1>10. /\ r.ready = s.ready /\ r.current = s.current
       /\ DOMAIN r.tasks = DOMAIN s.tasks \ dead
       /\ \A t \in DOMAIN r.tasks : r.tasks[t] = s.tasks[t]
  BY <1>4 DEF f
<1>7. QueueSound(r)
  <2>1. ASSUME NEW t \in Tid \ IdleTids
        PROVE  InQueue(r.ready, t) <=> (Alive(r, t) /\ r.tasks[t] = "Ready")
    <3>1. InQueue(s.ready, t) <=> (Alive(s, t) /\ s.tasks[t] = "Ready")
      BY DEF SchedInv, QueueSound
    <3>2. CASE t \in dead
      BY <1>2, <1>10, <3>2 DEF Alive
    <3>3. CASE t \notin dead
      BY <1>10, <3>1, <3>3 DEF Alive
    <3> QED BY <3>2, <3>3
  <2> QED BY <1>10, <2>1 DEF SchedInv, QueueSound
<1>8. CurSound(r, on)
  BY <1>1, <1>6, <1>10 DEF SchedInv, CurSound, Alive
<1>9. IdleSound(r, on)
  <2>1. ASSUME NEW d \in Cores PROVE r.tasks[d] = s.tasks[d]
    BY <1>6, <1>10 DEF SchedInv, CurSound, IdleTids
  <2> QED BY <1>10, <2>1 DEF SchedInv, IdleSound
<1> QED BY <1>4, <1>5, <1>7, <1>8, <1>9, <1>10 DEF SchedInv, dead

(* preempt_switch's first half: the current task, if Running, is queued.   *)
LEMMA RequeueKeepsInv ==
    ASSUME NEW s \in SchedType, NEW on \in SUBSET Cores, SchedInv(s, on),
           NEW c \in on,
           NEW r, r = Requeue(s, c)
    PROVE  /\ r \in SchedType /\ SchedInv(r, on)
           /\ r.current = s.current /\ r.next_tid = s.next_tid
           /\ r.slice_remaining = s.slice_remaining
           /\ DOMAIN r.tasks = DOMAIN s.tasks
           /\ r.tasks[r.current[c]] # "Running"
           /\ \A t \in DOMAIN s.tasks :
                 /\ s.tasks[t] # "Running" => r.tasks[t] = s.tasks[t]
                 /\ s.tasks[t] = "Running" => r.tasks[t] \in {"Ready", "Running"}
<1> DEFINE cur == s.current[c]
<1>1. CASE s.tasks[cur] # "Running"
  BY <1>1 DEF Requeue
<1>2. CASE s.tasks[cur] = "Running"
  <2>1. cur \in Tid /\ cur \in DOMAIN s.tasks /\ c \in Cores
    BY SchedFields DEF SchedInv, CurSound, Alive
  <2>2. ~InQueue(s.ready, cur)
    BY <1>2, <2>1 DEF SchedInv, QueueSound
  <2>3. r = [tasks |-> [s.tasks EXCEPT ![cur] = "Ready"],
             ready |-> IF cur = c THEN s.ready ELSE Append(s.ready, cur),
             current |-> s.current, next_tid |-> s.next_tid,
             slice_remaining |-> s.slice_remaining]
    <3>1. r = [s EXCEPT !.tasks[cur] = "Ready",
                        !.ready = IF cur = c THEN @ ELSE Append(@, cur)]
      BY <1>2 DEF Requeue
    <3> QED BY <3>1, SchedFields, Zenon
  <2> HIDE DEF cur
  <2>4. /\ r.ready \in Seq(Tid) /\ NoDup(r.ready)
        /\ \A u : InQueue(r.ready, u)
                   <=> (InQueue(s.ready, u) \/ (u = cur /\ cur # c))
    <3>1. s.ready \in Seq(Tid) /\ NoDup(s.ready)
      BY SchedFields DEF SchedInv, QueueSound
    <3>2. CASE cur = c
      BY <2>3, <3>1, <3>2
    <3>3. CASE cur # c
      <4>1. r.ready = Append(s.ready, cur)
        BY <2>3, <3>3
      <4> QED BY <2>1, <2>2, <3>1, <3>3, <4>1, AppendKeepsNoDup
    <3> QED BY <3>2, <3>3
  <2>5. /\ r.tasks \in [DOMAIN s.tasks -> TaskState]
        /\ r.tasks[cur] = "Ready"
        /\ \A t \in DOMAIN s.tasks : t # cur => r.tasks[t] = s.tasks[t]
    BY <2>1, <2>3, SchedFields DEF TaskState
  <2>6. r \in SchedType
    <3>1. r = [tasks |-> r.tasks, ready |-> r.ready,
               current |-> s.current, next_tid |-> s.next_tid,
               slice_remaining |-> s.slice_remaining]
      BY <2>3
    <3> QED BY <2>4, <2>5, <3>1, SchedFields, SchedTypeIntro
  <2>7. cur \in IdleTids <=> cur = c
    BY <2>1 DEF SchedInv, IdleSound, IdleTids, cur
  <2>8. QueueSound(r)
    BY <2>1, <2>4, <2>5, <2>7 DEF SchedInv, QueueSound, Alive
  <2>9. CurSound(r, on)
    BY <2>3, <2>5 DEF SchedInv, CurSound, Alive
  <2>10. IdleSound(r, on)
    <3>1. ASSUME NEW d \in Cores PROVE d \in DOMAIN s.tasks
      BY DEF SchedInv, CurSound, IdleTids
    <3>2. ASSUME NEW d \in Cores, d # cur PROVE r.tasks[d] = s.tasks[d]
      BY <2>5, <3>1, <3>2
    <3> QED BY <2>3, <2>5, <3>2 DEF SchedInv, IdleSound
  <2> QED BY <1>2, <2>3, <2>5, <2>6, <2>8, <2>9, <2>10 DEF SchedInv, cur
<1> QED BY <1>1, <1>2

(* The dispatch itself, from a state whose core has nothing Running.       *)
LEMMA DispatchKeepsInv ==
    ASSUME NEW s \in SchedType, NEW on \in SUBSET Cores, SchedInv(s, on),
           NEW c \in Cores, s.tasks[s.current[c]] # "Running",
           NEW r, r = Dispatch(s, c)
    PROVE  /\ r \in SchedType /\ SchedInv(r, on \cup {c})
           /\ r.next_tid = s.next_tid /\ DOMAIN r.tasks = DOMAIN s.tasks
           /\ \A t \in DOMAIN s.tasks :
                 s.tasks[t] = "Zombie" => r.tasks[t] = "Zombie"
           /\ s.tasks[r.current[c]] = "Ready"
           /\ r.tasks[r.current[c]] = "Running"
           /\ \A t \in DOMAIN s.tasks :
                 t # r.current[c] => r.tasks[t] = s.tasks[t]
           /\ \A d \in Cores : d # c => r.current[d] = s.current[d]
<1> DEFINE n == NextReady(s, c)
<1>1. s.ready \in Seq(Tid) /\ NoDup(s.ready)
  BY SchedFields DEF SchedInv, QueueSound
<1>2. /\ n.tid \in DOMAIN s.tasks /\ s.tasks[n.tid] = "Ready"
      /\ n.tid = c \/ n.tid \notin IdleTids
      /\ n.ready \in Seq(Tid) /\ NoDup(n.ready)
      /\ \A u : InQueue(n.ready, u) <=> (InQueue(s.ready, u) /\ u # n.tid)
  <2>1. CASE Eligible(s, c) = {}
    <3>1. n = [tid |-> c, ready |-> s.ready]
      BY <2>1 DEF NextReady
    <3>2. n.tid = c /\ n.ready = s.ready
      BY <3>1
    <3>3. c \in DOMAIN s.tasks /\ ~InQueue(s.ready, c)
      BY DEF SchedInv, CurSound, QueueSound, IdleTids
    <3>4. s.tasks[c] = "Ready"
      <4>1. CASE s.tasks[c] = "Running"
        <5>1. PICK d \in on : s.current[d] = c
          BY <3>3, <4>1 DEF SchedInv, CurSound
        <5>2. d = c
          BY <5>1 DEF SchedInv, IdleSound, IdleTids
        <5> QED BY <4>1, <5>1, <5>2
      <4> QED BY <4>1 DEF SchedInv, IdleSound
    <3> HIDE DEF n
    <3> QED BY <1>1, <3>2, <3>3, <3>4
  <2>2. CASE Eligible(s, c) # {}
    <3> DEFINE b == BestIdx(s, c)
    <3>1. b \in DOMAIN s.ready /\ s.ready[b] \in DOMAIN s.tasks
      BY <2>2, BestIdxEligible DEF Eligible, Alive
    <3>2. n = [tid |-> s.ready[b], ready |-> DropAt(s.ready, b)]
      BY <2>2 DEF NextReady
    <3> HIDE DEF b, n
    <3>3. n.tid = s.ready[b] /\ n.ready = DropAt(s.ready, b)
      BY <3>2
    <3>4. InQueue(s.ready, n.tid)
      BY <3>1, <3>3 DEF InQueue
    <3>5. n.tid \in Tid /\ n.tid \notin IdleTids
      BY <3>1, <3>3, <3>4, SchedFields DEF SchedInv, QueueSound
    <3>6. s.tasks[n.tid] = "Ready"
      BY <3>4, <3>5 DEF SchedInv, QueueSound
    <3> QED BY <1>1, <3>1, <3>3, <3>5, <3>6, DropAtProperties
  <2> QED BY <2>1, <2>2
<1> HIDE DEF n
<1> DEFINE sl == IF c = 0 THEN QUANTUM_TICKS ELSE s.slice_remaining
<1>3. r = [s EXCEPT !.tasks[n.tid] = "Running", !.ready = n.ready,
                    !.current[c] = n.tid, !.slice_remaining = sl]
  BY DEF Dispatch, n
<1> HIDE DEF sl
<1>4. r = [tasks |-> [s.tasks EXCEPT ![n.tid] = "Running"],
           ready |-> n.ready,
           current |-> [s.current EXCEPT ![c] = n.tid],
           next_tid |-> s.next_tid,
           slice_remaining |-> sl]
  <2> DEFINE ta == [s.tasks EXCEPT ![n.tid] = "Running"]
             cu == [s.current EXCEPT ![c] = n.tid]
  <2>1. r = [s EXCEPT !.tasks = ta, !.ready = n.ready, !.current = cu,
                      !.slice_remaining = sl]
    BY <1>3
  <2> HIDE DEF ta, cu
  <2>2. r = [tasks |-> ta, ready |-> n.ready, current |-> cu,
             next_tid |-> s.next_tid, slice_remaining |-> sl]
    <3>1. s = [tasks |-> s.tasks, ready |-> s.ready, current |-> s.current,
               next_tid |-> s.next_tid,
               slice_remaining |-> s.slice_remaining]
      BY SchedFields
    <3> QED BY <2>1, <3>1, Zenon
  <2> QED BY <2>2 DEF ta, cu
<1>5. /\ r.tasks \in [DOMAIN s.tasks -> TaskState]
      /\ r.tasks[n.tid] = "Running"
      /\ \A t \in DOMAIN s.tasks : t # n.tid => r.tasks[t] = s.tasks[t]
  BY <1>2, <1>4, SchedFields DEF TaskState
<1>6. /\ r.current \in [Cores -> Tid] /\ r.current[c] = n.tid
      /\ \A d \in Cores : d # c => r.current[d] = s.current[d]
  BY <1>2, <1>4, SchedFields
<1>7. r \in SchedType
  <2>1. r.slice_remaining \in 0 .. QUANTUM_TICKS
    BY <1>4, SchedFields, SchedConstants DEF sl
  <2>2. r = [tasks |-> r.tasks, ready |-> r.ready, current |-> r.current,
             next_tid |-> r.next_tid, slice_remaining |-> r.slice_remaining]
    BY <1>4
  <2>3. r.ready = n.ready /\ r.next_tid = s.next_tid
    BY <1>4
  <2> QED BY <1>2, <1>5, <1>6, <2>1, <2>2, <2>3, SchedFields, SchedTypeIntro
<1>8. QueueSound(r)
  <2>1. r.ready = n.ready
    BY <1>4
  <2>2. ASSUME NEW t \in Tid \ IdleTids
        PROVE  InQueue(r.ready, t) <=> (Alive(r, t) /\ r.tasks[t] = "Ready")
    BY <1>2, <1>5, <2>1 DEF SchedInv, QueueSound, Alive
  <2> QED BY <1>2, <2>1, <2>2 DEF SchedInv, QueueSound
<1>9. CurSound(r, on \cup {c})
  <2>1. ASSUME NEW t \in DOMAIN r.tasks, r.tasks[t] = "Running"
        PROVE  \E d \in on \cup {c} : r.current[d] = t
    <3>1. CASE t = n.tid
      BY <1>6, <3>1
    <3>2. CASE t # n.tid
      <4>1. PICK d \in on : s.current[d] = t
        BY <1>5, <2>1, <3>2 DEF SchedInv, CurSound
      <4>2. d # c
        BY <1>5, <2>1, <3>2, <4>1
      <4> QED BY <1>6, <4>1, <4>2
    <3> QED BY <3>1, <3>2
  <2>2. \A d \in Cores : Alive(r, r.current[d])
    BY <1>2, <1>5, <1>6 DEF SchedInv, CurSound, Alive
  <2> QED BY <1>5, <2>1, <2>2 DEF SchedInv, CurSound
<1>10. IdleSound(r, on \cup {c})
  <2>1. \A d \in Cores : d \in DOMAIN s.tasks
    BY DEF SchedInv, CurSound, IdleTids
  <2>2. \A d \in Cores : d # c => r.tasks[d] = s.tasks[d]
    BY <1>2, <1>5, <2>1 DEF IdleTids
  <2>3. r.tasks[c] \in {"Ready", "Running"}
    BY <1>5, <2>1 DEF SchedInv, IdleSound
  <2> QED BY <1>2, <1>6, <2>2, <2>3 DEF SchedInv, IdleSound
<1> QED BY <1>2, <1>4, <1>5, <1>6, <1>7, <1>8, <1>9, <1>10 DEF SchedInv

(* preempt_switch as a whole.                                              *)
LEMMA PreemptKeepsInv ==
    ASSUME NEW s \in SchedType, NEW on \in SUBSET Cores, SchedInv(s, on),
           NEW c \in on,
           NEW r, r = PreemptSwitch(s, c)
    PROVE  /\ r \in SchedType /\ SchedInv(r, on)
           /\ r.next_tid = s.next_tid
           /\ DOMAIN r.tasks = DOMAIN s.tasks \ DeadExcept(s, s.current[c])
           /\ \A t \in DOMAIN r.tasks :
                 /\ s.tasks[t] = "Zombie" <=> r.tasks[t] = "Zombie"
                 /\ s.tasks[t] = "Blocked" <=> r.tasks[t] = "Blocked"
           /\ \A d \in Cores : d # c => r.current[d] = s.current[d]
           /\ r.current[c] \in DOMAIN r.tasks
           /\ r.tasks[r.current[c]] = "Running"
<1> DEFINE a == ReapZombiesExcept(s, s.current[c])
           b == Requeue(a, c)
<1>1. c \in Cores /\ on \cup {c} = on /\ r = Dispatch(b, c)
  BY DEF PreemptSwitch
<1>2. /\ a \in SchedType /\ SchedInv(a, on)
      /\ a.current = s.current /\ a.next_tid = s.next_tid
      /\ DOMAIN a.tasks = DOMAIN s.tasks \ DeadExcept(s, s.current[c])
      /\ \A t \in DOMAIN a.tasks : a.tasks[t] = s.tasks[t]
  BY <1>1, ReapKeepsInv
<1> HIDE DEF a
<1>3. /\ b \in SchedType /\ SchedInv(b, on)
      /\ b.current = a.current /\ b.next_tid = a.next_tid
      /\ DOMAIN b.tasks = DOMAIN a.tasks
      /\ b.tasks[b.current[c]] # "Running"
      /\ \A t \in DOMAIN a.tasks :
            /\ a.tasks[t] # "Running" => b.tasks[t] = a.tasks[t]
            /\ a.tasks[t] = "Running" => b.tasks[t] \in {"Ready", "Running"}
  BY <1>2, RequeueKeepsInv
<1> HIDE DEF b
<1>4. /\ r \in SchedType /\ SchedInv(r, on)
      /\ r.next_tid = b.next_tid /\ DOMAIN r.tasks = DOMAIN b.tasks
      /\ b.tasks[r.current[c]] = "Ready" /\ r.tasks[r.current[c]] = "Running"
      /\ \A t \in DOMAIN b.tasks :
            t # r.current[c] => r.tasks[t] = b.tasks[t]
      /\ \A d \in Cores : d # c => r.current[d] = b.current[d]
  BY <1>1, <1>3, DispatchKeepsInv
<1>5. r.current[c] \in DOMAIN r.tasks
  BY <1>1, <1>4 DEF SchedInv, CurSound, Alive
<1>6. ASSUME NEW t \in DOMAIN r.tasks
      PROVE  /\ s.tasks[t] = "Zombie" <=> r.tasks[t] = "Zombie"
             /\ s.tasks[t] = "Blocked" <=> r.tasks[t] = "Blocked"
  BY <1>2, <1>3, <1>4
<1> QED BY <1>2, <1>3, <1>4, <1>5, <1>6

(* mark_zombie and block_current_noswitch: a core's own task leaves the    *)
(* queue, if it is there, and is no longer runnable.                       *)
LEMMA PutAsideKeepsInv ==
    ASSUME NEW s \in SchedType, NEW on \in SUBSET Cores, SchedInv(s, on),
           NEW c \in on, s.current[c] # c, NEW st \in {"Blocked", "Zombie"},
           NEW r, r = PutAside(s, c, st)
    PROVE  /\ r \in SchedType /\ SchedInv(r, on)
           /\ r.next_tid = s.next_tid /\ r.current = s.current
           /\ DOMAIN r.tasks = DOMAIN s.tasks
           /\ r.tasks[s.current[c]] = st
           /\ \A t \in DOMAIN s.tasks :
                 t # s.current[c] => r.tasks[t] = s.tasks[t]
<1> DEFINE cur == s.current[c]
           q == Retain(s.ready, {cur})
<1>1. cur \in Tid /\ cur \in DOMAIN s.tasks /\ cur \notin IdleTids
  BY SchedFields DEF SchedInv, CurSound, IdleSound, Alive
<1>2. /\ q \in Seq(Tid) /\ NoDup(q)
      /\ \A u : InQueue(q, u) <=> (InQueue(s.ready, u) /\ u # cur)
  BY RetainOne, SchedFields, Zenon DEF SchedInv, QueueSound
<1>3. r = [s EXCEPT !.tasks[cur] = st, !.ready = q]
  BY DEF PutAside
<1> HIDE DEF cur, q
<1>4. r = [tasks |-> [s.tasks EXCEPT ![cur] = st], ready |-> q,
           current |-> s.current, next_tid |-> s.next_tid,
           slice_remaining |-> s.slice_remaining]
  BY <1>3, SchedFields, Zenon
<1>5. /\ r.tasks \in [DOMAIN s.tasks -> TaskState] /\ r.tasks[cur] = st
      /\ \A t \in DOMAIN s.tasks : t # cur => r.tasks[t] = s.tasks[t]
      /\ r.ready = q /\ r.current = s.current
  <2>1. /\ r.tasks = [s.tasks EXCEPT ![cur] = st]
        /\ r.ready = q /\ r.current = s.current
    BY <1>4
  <2>2. st \in TaskState
    BY DEF TaskState
  <2> QED BY <1>1, <2>1, <2>2, SchedFields
<1>6. r \in SchedType
  <2>1. r = [tasks |-> r.tasks, ready |-> r.ready, current |-> r.current,
             next_tid |-> r.next_tid, slice_remaining |-> r.slice_remaining]
    BY <1>4
  <2>2. /\ r.next_tid = s.next_tid
        /\ r.slice_remaining = s.slice_remaining
    BY <1>4
  <2> QED BY <1>2, <1>5, <2>1, <2>2, SchedFields, SchedTypeIntro
<1>7. QueueSound(r)
  <2>1. ASSUME NEW t \in Tid \ IdleTids
        PROVE  InQueue(r.ready, t) <=> (Alive(r, t) /\ r.tasks[t] = "Ready")
    BY <1>2, <1>5 DEF SchedInv, QueueSound, Alive
  <2> QED BY <1>2, <1>5, <2>1 DEF SchedInv, QueueSound
<1>8. CurSound(r, on)
  BY <1>5 DEF SchedInv, CurSound, Alive
<1>9. IdleSound(r, on)
  <2>1. \A d \in Cores : r.tasks[d] = s.tasks[d]
    BY <1>1, <1>5 DEF SchedInv, CurSound, IdleTids
  <2> QED BY <1>5, <2>1 DEF SchedInv, IdleSound
<1> QED BY <1>4, <1>5, <1>6, <1>7, <1>8, <1>9 DEF SchedInv, cur

(* unblock_task.                                                           *)
LEMMA UnblockKeepsInv ==
    ASSUME NEW s \in SchedType, NEW on \in SUBSET Cores, SchedInv(s, on),
           NEW t, NEW r, r = UnblockTask(s, t)
    PROVE  /\ r \in SchedType /\ SchedInv(r, on)
           /\ r.next_tid = s.next_tid /\ r.current = s.current
           /\ DOMAIN r.tasks = DOMAIN s.tasks
           /\ \A u \in DOMAIN s.tasks :
                 r.tasks[u] = IF u = t /\ s.tasks[u] = "Blocked"
                              THEN "Ready" ELSE s.tasks[u]
<1>1. CASE ~(Alive(s, t) /\ s.tasks[t] = "Blocked")
  BY <1>1 DEF UnblockTask, Alive
<1>2. CASE Alive(s, t) /\ s.tasks[t] = "Blocked"
  <2> DEFINE q == Append(s.ready, t)
  <2>1. t \in Tid /\ t \in DOMAIN s.tasks /\ t \notin IdleTids
    BY <1>2, SchedFields DEF SchedInv, IdleSound, Alive, IdleTids
  <2>2. s.ready \in Seq(Tid) /\ NoDup(s.ready) /\ ~InQueue(s.ready, t)
    BY <1>2, <2>1, SchedFields DEF SchedInv, QueueSound
  <2>3. /\ q \in Seq(Tid) /\ NoDup(q)
        /\ \A u : InQueue(q, u) <=> (InQueue(s.ready, u) \/ u = t)
    BY <2>1, <2>2, AppendKeepsNoDup
  <2>4. r = [s EXCEPT !.tasks[t] = "Ready", !.ready = q]
    BY <1>2 DEF UnblockTask
  <2> HIDE DEF q
  <2>5. r = [tasks |-> [s.tasks EXCEPT ![t] = "Ready"], ready |-> q,
             current |-> s.current, next_tid |-> s.next_tid,
             slice_remaining |-> s.slice_remaining]
    BY <2>4, SchedFields, Zenon
  <2>6. /\ r.tasks \in [DOMAIN s.tasks -> TaskState] /\ r.tasks[t] = "Ready"
        /\ \A u \in DOMAIN s.tasks : u # t => r.tasks[u] = s.tasks[u]
        /\ r.ready = q /\ r.current = s.current
    BY <2>1, <2>5, SchedFields DEF TaskState
  <2>7. r \in SchedType
    <3>1. r = [tasks |-> r.tasks, ready |-> r.ready, current |-> r.current,
               next_tid |-> r.next_tid,
               slice_remaining |-> r.slice_remaining]
      BY <2>5
    <3>2. /\ r.next_tid = s.next_tid
          /\ r.slice_remaining = s.slice_remaining
      BY <2>5
    <3> QED BY <2>3, <2>6, <3>1, <3>2, SchedFields, SchedTypeIntro
  <2>8. QueueSound(r)
    <3>1. ASSUME NEW u \in Tid \ IdleTids
          PROVE  InQueue(r.ready, u)
                   <=> (Alive(r, u) /\ r.tasks[u] = "Ready")
      BY <2>1, <2>3, <2>6 DEF SchedInv, QueueSound, Alive
    <3> QED BY <2>1, <2>3, <2>6, <3>1 DEF SchedInv, QueueSound
  <2>9. CurSound(r, on)
    BY <2>6 DEF SchedInv, CurSound, Alive
  <2>10. IdleSound(r, on)
    <3>1. \A d \in Cores : r.tasks[d] = s.tasks[d]
      BY <2>1, <2>6 DEF SchedInv, CurSound, IdleTids
    <3> QED BY <2>6, <3>1 DEF SchedInv, IdleSound
  <2> QED BY <1>2, <2>5, <2>6, <2>7, <2>8, <2>9, <2>10 DEF SchedInv
<1> QED BY <1>1, <1>2

(* InsertTask with the state it gives the task as the argument.            *)
InsertAs(s, t, st) ==
    [s EXCEPT
        !.tasks = [u \in DOMAIN s.tasks \cup {t} |->
                      IF u = t THEN st ELSE s.tasks[u]],
        !.ready = IF st = "Blocked" THEN @ ELSE Append(@, t)]

(* spawn_inner's insertion of a task whose tid has none yet.               *)
LEMMA InsertAsKeepsInv ==
    ASSUME NEW s \in SchedType, NEW on \in SUBSET Cores, SchedInv(s, on),
           NEW t \in Tid, t \notin DOMAIN s.tasks,
           NEW st \in {"Blocked", "Ready"}, NEW r, r = InsertAs(s, t, st)
    PROVE  /\ r \in SchedType /\ SchedInv(r, on)
           /\ r.next_tid = s.next_tid /\ r.current = s.current
           /\ DOMAIN r.tasks = DOMAIN s.tasks \cup {t}
           /\ \A u \in DOMAIN s.tasks : r.tasks[u] = s.tasks[u]
           /\ r.tasks[t] = st
<1> DEFINE D == DOMAIN s.tasks \cup {t}
           f == [u \in D |-> IF u = t THEN st ELSE s.tasks[u]]
           q == IF st = "Blocked" THEN s.ready ELSE Append(s.ready, t)
<1>1. t \notin IdleTids
  BY DEF SchedInv, CurSound
<1>2. s.ready \in Seq(Tid) /\ NoDup(s.ready) /\ ~InQueue(s.ready, t)
  BY <1>1, SchedFields DEF SchedInv, QueueSound, Alive
<1>3. /\ q \in Seq(Tid) /\ NoDup(q)
      /\ \A u : InQueue(q, u) <=> (InQueue(s.ready, u) \/ (u = t /\ st # "Blocked"))
  BY <1>2, AppendKeepsNoDup
<1>4. r = [s EXCEPT !.tasks = f, !.ready = q]
  BY DEF InsertAs
<1>5. /\ f \in [D -> TaskState] /\ f[t] = st
      /\ \A u \in DOMAIN s.tasks : f[u] = s.tasks[u]
  BY SchedFields DEF TaskState
<1> HIDE DEF f, q
<1>6. r = [tasks |-> f, ready |-> q, current |-> s.current,
           next_tid |-> s.next_tid, slice_remaining |-> s.slice_remaining]
  BY <1>4, SchedFields, Zenon
<1>7. /\ r.tasks = f /\ r.ready = q /\ r.current = s.current
      /\ DOMAIN r.tasks = D
  BY <1>5, <1>6
<1>8. r \in SchedType
  <2>1. r = [tasks |-> r.tasks, ready |-> r.ready, current |-> r.current,
             next_tid |-> r.next_tid, slice_remaining |-> r.slice_remaining]
    BY <1>6
  <2>2. /\ r.next_tid = s.next_tid
        /\ r.slice_remaining = s.slice_remaining
    BY <1>6
  <2> QED BY <1>3, <1>5, <1>7, <2>1, <2>2, SchedFields, SchedTypeIntro
<1>9. QueueSound(r)
  <2>1. ASSUME NEW u \in Tid \ IdleTids
        PROVE  InQueue(r.ready, u) <=> (Alive(r, u) /\ r.tasks[u] = "Ready")
    BY <1>2, <1>3, <1>5, <1>7 DEF SchedInv, QueueSound, Alive
  <2> QED BY <1>1, <1>3, <1>7, <2>1 DEF SchedInv, QueueSound
<1>10. CurSound(r, on)
  BY <1>5, <1>7 DEF SchedInv, CurSound, Alive
<1>11. IdleSound(r, on)
  <2>1. \A d \in Cores : r.tasks[d] = s.tasks[d]
    BY <1>5, <1>7 DEF SchedInv, CurSound, IdleTids
  <2> QED BY <1>7, <2>1 DEF SchedInv, IdleSound
<1> QED BY <1>5, <1>6, <1>7, <1>8, <1>9, <1>10, <1>11 DEF SchedInv

(* The flag of insert_task decides whether the new task starts Blocked.    *)
LEMMA InsertStates ==
    ASSUME NEW s, NEW t
    PROVE  /\ InsertTask(s, t, TRUE) = InsertAs(s, t, "Blocked")
           /\ InsertTask(s, t, FALSE) = InsertAs(s, t, "Ready")
BY DEF InsertTask, InsertAs

(* insert_task keeps the invariant, and changes the new task only.         *)
LEMMA InsertKeepsInv ==
    ASSUME NEW s \in SchedType, NEW on \in SUBSET Cores, SchedInv(s, on),
           NEW t \in Tid, t \notin DOMAIN s.tasks, NEW sb \in BOOLEAN,
           NEW r, r = InsertTask(s, t, sb)
    PROVE  /\ r \in SchedType /\ SchedInv(r, on)
           /\ r.next_tid = s.next_tid /\ r.current = s.current
           /\ DOMAIN r.tasks = DOMAIN s.tasks \cup {t}
           /\ \A u \in DOMAIN s.tasks : r.tasks[u] = s.tasks[u]
<1>1. PICK st \in {"Blocked", "Ready"} : r = InsertAs(s, t, st)
  <2>1. sb = TRUE \/ sb = FALSE
    BY Zenon
  <2> QED BY <2>1, InsertStates, Zenon
<1> QED BY <1>1, InsertAsKeepsInv

(* tick's countdown touches the slice only.                                *)
LEMMA TickKeepsInv ==
    ASSUME NEW s \in SchedType, NEW on \in SUBSET Cores, SchedInv(s, on),
           NEW r, r = TickDown(s)
    PROVE  /\ r \in SchedType /\ SchedInv(r, on)
           /\ r.next_tid = s.next_tid /\ r.tasks = s.tasks
           /\ r.current = s.current
<1> DEFINE n == IF s.slice_remaining > 0 THEN s.slice_remaining - 1 ELSE 0
<1>1. n \in 0 .. QUANTUM_TICKS
  BY SchedFields, SchedConstants
<1>2. r = [s EXCEPT !.slice_remaining = n]
  BY DEF TickDown
<1> HIDE DEF n
<1>3. r = [tasks |-> s.tasks, ready |-> s.ready, current |-> s.current,
           next_tid |-> s.next_tid, slice_remaining |-> n]
  BY <1>2, SchedFields
<1>4. /\ r.tasks = s.tasks /\ r.ready = s.ready /\ r.current = s.current
      /\ r.next_tid = s.next_tid /\ r.slice_remaining = n
  BY <1>3
<1>5. r = [tasks |-> r.tasks, ready |-> r.ready, current |-> r.current,
           next_tid |-> r.next_tid, slice_remaining |-> r.slice_remaining]
  BY <1>3
<1>6. r \in SchedType
  BY <1>1, <1>4, <1>5, SchedFields, SchedTypeIntro
<1>7. SchedInv(r, on)
  BY <1>4 DEF SchedInv, QueueSound, CurSound, IdleSound, Alive
<1> QED BY <1>4, <1>6, <1>7

(* scheduler::init.                                                        *)
LEMMA InitInv == Init => Inv
<1> SUFFICES ASSUME Init PROVE Inv
  OBVIOUS
<1>1. /\ DOMAIN sched.tasks = Cores /\ sched.ready = << >>
      /\ \A c \in Cores : sched.tasks[c] = "Ready" /\ sched.current[c] = c
      /\ sched.next_tid = NCores
  BY DEF Init, InitSched, IdleTids
<1>2. sched \in SchedType
  <2>1. /\ sched.tasks = [t \in IdleTids |-> "Ready"]
        /\ sched.current = [c \in Cores |-> c]
        /\ sched.slice_remaining = QUANTUM_TICKS
        /\ sched = [tasks |-> sched.tasks, ready |-> sched.ready,
                    current |-> sched.current, next_tid |-> sched.next_tid,
                    slice_remaining |-> sched.slice_remaining]
    BY DEF Init, InitSched
  <2>2. sched.tasks \in [DOMAIN sched.tasks -> TaskState]
    BY <2>1 DEF TaskState
  <2>3. sched.current \in [Cores -> Tid]
    BY <2>1, CoresAreTids
  <2>4. /\ sched.next_tid \in NCores .. TidMax
        /\ sched.slice_remaining \in 0 .. QUANTUM_TICKS
    BY <1>1, <2>1, SchedConstants
  <2>5. sched.ready \in Seq(Tid)
    BY <1>1
  <2> QED
    BY <1>1, <2>1, <2>2, <2>3, <2>4, <2>5, CoresAreTids, SchedTypeIntro, Zenon
<1>3. TypeOK
  <2>1. DOMAIN sched.tasks \subseteq 0 .. sched.next_tid - 1
    BY <1>1 DEF Cores
  <2> QED BY <1>2, <2>1 DEF Init, TypeOK
<1>4. QueueSound(sched)
  <2>1. \A t : ~InQueue(sched.ready, t)
    BY <1>1 DEF InQueue
  <2>2. NoDup(sched.ready)
    BY <1>1 DEF NoDup
  <2> QED BY <1>1, <2>1, <2>2 DEF QueueSound, IdleTids, Alive
<1>5. CurSound(sched, booted) /\ IdleSound(sched, booted)
  BY <1>1 DEF CurSound, IdleSound, IdleTids, Alive
<1> QED BY <1>3, <1>4, <1>5 DEF Inv, SchedInv

(* What a step owes when it neither boots a core nor spawns.               *)
LEMMA SameTids ==
    ASSUME Inv, sched' \in SchedType, SchedInv(sched', booted),
           sched'.next_tid = sched.next_tid,
           DOMAIN sched'.tasks \subseteq DOMAIN sched.tasks,
           need_resched' \in [Cores -> BOOLEAN],
           booted' = booted, spawning' = spawning
    PROVE  Inv'
<1>1. SchedInv(sched, booted)'
  <2>1. SchedInv(sched', booted')
    OBVIOUS
  <2> QED BY <2>1 DEF SchedInv, QueueSound, CurSound, IdleSound, Alive
<1> QED BY <1>1 DEF Inv, TypeOK

(* Every step of every core, and of the timer, preserves the invariant.    *)
LEMMA StepInv == Inv /\ [Next]_vars => Inv'
<1> SUFFICES ASSUME Inv, [Next]_vars PROVE Inv'
  OBVIOUS
<1>inv. /\ sched \in SchedType /\ booted \in SUBSET Cores
        /\ SchedInv(sched, booted)
        /\ need_resched \in [Cores -> BOOLEAN]
        /\ DOMAIN sched.tasks \subseteq 0 .. sched.next_tid - 1
        /\ spawning \subseteq NCores .. sched.next_tid - 1
        /\ spawning \cap DOMAIN sched.tasks = {}
        /\ sched.next_tid \in NCores .. TidMax
  BY SchedFields DEF Inv, TypeOK
<1>1. ASSUME NEW c \in Cores, SpawnReserve(c) PROVE Inv'
  <2>1. sched' = [sched EXCEPT !.next_tid = sched.next_tid + 1]
    BY <1>1 DEF SpawnReserve
  <2>2. sched' = [tasks |-> sched.tasks, ready |-> sched.ready,
                  current |-> sched.current, next_tid |-> sched.next_tid + 1,
                  slice_remaining |-> sched.slice_remaining]
    BY <1>inv, <2>1, SchedFields
  <2>3. /\ sched'.tasks = sched.tasks /\ sched'.ready = sched.ready
        /\ sched'.current = sched.current
        /\ sched'.next_tid = sched.next_tid + 1
        /\ sched'.slice_remaining = sched.slice_remaining
    BY <2>2
  <2>4. sched'.next_tid \in NCores .. TidMax
    BY <1>1, <1>inv, <2>3, SchedConstants DEF SpawnReserve
  <2>5. sched' = [tasks |-> sched'.tasks, ready |-> sched'.ready,
                  current |-> sched'.current, next_tid |-> sched'.next_tid,
                  slice_remaining |-> sched'.slice_remaining]
    BY <2>2
  <2>6. sched' \in SchedType
    BY <1>inv, <2>3, <2>4, <2>5, SchedFields, SchedTypeIntro
  <2>7. SchedInv(sched, booted)'
    BY <1>1, <1>inv, <2>3
    DEF SpawnReserve, SchedInv, QueueSound, CurSound, IdleSound, Alive
  <2>8. /\ DOMAIN sched'.tasks \subseteq 0 .. sched'.next_tid - 1
        /\ spawning' \subseteq NCores .. sched'.next_tid - 1
        /\ spawning' \cap DOMAIN sched'.tasks = {}
    <3>1. spawning' = spawning \cup {sched.next_tid}
      BY <1>1 DEF SpawnReserve
    <3>2. sched.next_tid \in Nat /\ NCores \in Nat /\ sched.next_tid >= NCores
      BY <1>inv, SchedConstants
    <3> DEFINE n == sched.next_tid
    <3>3. n \notin DOMAIN sched.tasks
      BY <1>inv, <3>2
    <3> HIDE DEF n
    <3>4. 0 .. n - 1 \subseteq 0 .. (n + 1) - 1
      BY <3>2 DEF n
    <3>5. NCores .. n - 1 \subseteq NCores .. (n + 1) - 1
          /\ n \in NCores .. (n + 1) - 1
      BY <3>2 DEF n
    <3> QED BY <1>inv, <2>3, <3>1, <3>3, <3>4, <3>5, Zenon DEF n
  <2> QED BY <1>1, <1>inv, <2>6, <2>7, <2>8 DEF SpawnReserve, Inv, TypeOK
<1>2. ASSUME NEW c \in Cores, NEW t \in spawning, NEW b \in BOOLEAN,
             SpawnInsert(c, t, b)
      PROVE  Inv'
  <2>1. t \in Tid /\ t \notin DOMAIN sched.tasks
    BY <1>inv, SchedConstants DEF Tid
  <2>2. /\ sched' \in SchedType /\ SchedInv(sched', booted)
        /\ sched'.next_tid = sched.next_tid
        /\ DOMAIN sched'.tasks = DOMAIN sched.tasks \cup {t}
    BY <1>2, <1>inv, <2>1, InsertKeepsInv, SMTT(30) DEF SpawnInsert
  <2>3. SchedInv(sched, booted)'
    BY <1>2, <2>2
    DEF SpawnInsert, SchedInv, QueueSound, CurSound, IdleSound, Alive
  <2>4. /\ DOMAIN sched'.tasks \subseteq 0 .. sched'.next_tid - 1
        /\ spawning' \subseteq NCores .. sched'.next_tid - 1
        /\ spawning' \cap DOMAIN sched'.tasks = {}
    <3>1. spawning' = spawning \ {t}
      BY <1>2 DEF SpawnInsert
    <3>2. t \in 0 .. sched.next_tid - 1
      BY <1>inv, SchedConstants
    <3> QED BY <1>inv, <2>2, <3>1, <3>2
  <2> QED BY <1>2, <1>inv, <2>2, <2>3, <2>4 DEF SpawnInsert, Inv, TypeOK
<1>3. ASSUME NEW c \in Cores, NEW t \in spawning, SpawnFail(c, t) PROVE Inv'
  BY <1>3, <1>inv
  DEF SpawnFail, Inv, TypeOK, SchedInv, QueueSound, CurSound, IdleSound, Alive
<1>4. ASSUME NEW c \in Cores, Run(c) PROVE Inv'
  <2>1. /\ sched' \in SchedType /\ SchedInv(sched', booted \cup {c})
        /\ sched'.next_tid = sched.next_tid
        /\ DOMAIN sched'.tasks = DOMAIN sched.tasks
    <3>1. sched.tasks[sched.current[c]] # "Running"
      BY <1>4, <1>inv DEF Run, SchedInv, IdleSound
    <3>2. sched' = Dispatch(sched, c)
      BY <1>4 DEF Run
    <3> QED BY <1>inv, <3>1, <3>2, DispatchKeepsInv
  <2>2. SchedInv(sched, booted)'
    BY <1>4, <2>1 DEF Run, SchedInv, QueueSound, CurSound, IdleSound, Alive
  <2> QED BY <1>4, <1>inv, <2>1, <2>2 DEF Run, Inv, TypeOK
<1>5. ASSUME NEW c \in Cores, Exit(c) PROVE Inv'
  <2>1. sched' = PutAside(sched, c, "Zombie") /\ c \in booted
        /\ sched.current[c] # c
    BY <1>5 DEF Exit, MarkZombie, TaskRuns
  <2>2. /\ sched' \in SchedType /\ SchedInv(sched', booted)
        /\ sched'.next_tid = sched.next_tid
        /\ DOMAIN sched'.tasks = DOMAIN sched.tasks
    BY <1>inv, <2>1, PutAsideKeepsInv
  <2> QED BY <1>5, <1>inv, <2>2, SameTids DEF Exit
<1>6. ASSUME NEW c \in Cores, BlockCurrentNoswitch(c) PROVE Inv'
  <2>1. sched' = PutAside(sched, c, "Blocked") /\ c \in booted
        /\ sched.current[c] # c
    BY <1>6 DEF BlockCurrentNoswitch, BlockCurrent, TaskRuns
  <2>2. /\ sched' \in SchedType /\ SchedInv(sched', booted)
        /\ sched'.next_tid = sched.next_tid
        /\ DOMAIN sched'.tasks = DOMAIN sched.tasks
    BY <1>inv, <2>1, PutAsideKeepsInv
  <2> QED BY <1>6, <1>inv, <2>2, SameTids DEF BlockCurrentNoswitch
<1>7. ASSUME NEW c \in Cores, NEW t \in DOMAIN sched.tasks, Unblock(c, t)
      PROVE  Inv'
  <2>1. /\ sched' \in SchedType /\ SchedInv(sched', booted)
        /\ sched'.next_tid = sched.next_tid
        /\ DOMAIN sched'.tasks = DOMAIN sched.tasks
    BY <1>7, <1>inv, UnblockKeepsInv DEF Unblock
  <2> QED BY <1>7, <1>inv, <2>1, SameTids DEF Unblock
<1>8. ASSUME NEW c \in Cores, SetNeedResched(c) PROVE Inv'
  BY <1>8, <1>inv, SameTids DEF SetNeedResched
<1>9. ASSUME NEW c \in Cores, TrapEpilogue(c) PROVE Inv'
  <2>1. /\ sched' \in SchedType /\ SchedInv(sched', booted)
        /\ sched'.next_tid = sched.next_tid
        /\ DOMAIN sched'.tasks \subseteq DOMAIN sched.tasks
    BY <1>9, <1>inv, PreemptKeepsInv DEF TrapEpilogue
  <2> QED BY <1>9, <1>inv, <2>1, SameTids DEF TrapEpilogue
<1>10. CASE TimerInterrupt
  <2> DEFINE s == TickDown(sched)
  <2>1. /\ s \in SchedType /\ SchedInv(s, booted)
        /\ s.next_tid = sched.next_tid /\ s.tasks = sched.tasks
    BY <1>inv, TickKeepsInv
  <2>2. /\ 0 \in booted /\ booted' = booted /\ spawning' = spawning
        /\ need_resched' \in [Cores -> BOOLEAN]
        /\ sched' = PreemptSwitch(s, 0) \/ sched' = s
    BY <1>10, <1>inv, Zenon DEF TimerInterrupt
  <2> HIDE DEF s
  <2>3. CASE sched' = s
    BY <2>1, <2>2, <2>3, SameTids
  <2>4. CASE sched' = PreemptSwitch(s, 0)
    <3>1. /\ sched' \in SchedType /\ SchedInv(sched', booted)
          /\ sched'.next_tid = s.next_tid
          /\ DOMAIN sched'.tasks \subseteq DOMAIN s.tasks
      BY <1>inv, <2>1, <2>2, <2>4, PreemptKeepsInv
    <3> QED BY <2>1, <2>2, <3>1, SameTids
  <2> QED BY <2>2, <2>3, <2>4
<1>11. CASE UNCHANGED vars
  BY <1>11 DEF vars, Inv, TypeOK, SchedInv, QueueSound, CurSound, IdleSound,
               Alive
<1>12. ASSUME NEW c \in Cores, CoreStep(c) PROVE Inv'
  BY <1>12, <1>1, <1>2, <1>3, <1>4, <1>5, <1>6, <1>7, <1>8, <1>9
  DEF CoreStep
<1> QED BY <1>10, <1>11, <1>12 DEF Next

(* Whatever the number of cores, the tids, the priorities, the affinities  *)
(* and the quantum, and in whatever order cores spawn, block, wake, exit   *)
(* and are interrupted, the scheduler's inductive invariant holds.         *)
THEOREM SchedulerInv == Spec => []Inv
BY InitInv, StepInv, PTL DEF Spec

(* The Scheduler struct is well typed and a tid is used once.              *)
THEOREM SchedulerTypeOK == Spec => []TypeOK
<1>1. Inv => TypeOK
  BY DEF Inv
<1> QED BY <1>1, SchedulerInv, PTL

(* The ready queue holds exactly the Ready tasks other than idle, once.    *)
THEOREM SchedulerQueue == Spec => []ReadyQueueSound
<1>1. Inv => ReadyQueueSound
  BY DEF Inv, SchedInv, ReadyQueueSound
<1> QED BY <1>1, SchedulerInv, PTL

(* No core is ever on a task that was freed, and Running means current.    *)
THEOREM SchedulerCurrent == Spec => []CurrentSound
<1>1. Inv => CurrentSound
  BY DEF Inv, SchedInv, CurrentSound
<1> QED BY <1>1, SchedulerInv, PTL

(* The switch frees only Zombie tasks that no core is on.                  *)
LEMMA PreemptFreesZombies ==
    ASSUME NEW s \in SchedType, NEW on \in SUBSET Cores, SchedInv(s, on),
           NEW c \in on, NEW r, r = PreemptSwitch(s, c),
           NEW t \in DOMAIN s.tasks
    PROVE  /\ s.tasks[t] = "Zombie" /\ t \in DOMAIN r.tasks
                => r.tasks[t] = "Zombie"
           /\ t \notin DOMAIN r.tasks
                => s.tasks[t] = "Zombie" /\ \A d \in Cores : r.current[d] # t
<1>1. /\ DOMAIN r.tasks = DOMAIN s.tasks \ DeadExcept(s, s.current[c])
      /\ \A u \in DOMAIN r.tasks :
            s.tasks[u] = "Zombie" => r.tasks[u] = "Zombie"
      /\ \A d \in Cores : d # c => r.current[d] = s.current[d]
      /\ r.current[c] \in DOMAIN r.tasks
  BY PreemptKeepsInv
<1>2. ASSUME t \notin DOMAIN r.tasks
      PROVE  s.tasks[t] = "Zombie" /\ \A d \in Cores : r.current[d] # t
  BY <1>1, <1>2 DEF DeadExcept
<1> QED BY <1>1, <1>2

(* A dispatch frees no task and revives none.                              *)
LEMMA DispatchKeepsZombies ==
    ASSUME NEW s \in SchedType, NEW on \in SUBSET Cores, SchedInv(s, on),
           NEW c \in Cores, s.tasks[s.current[c]] # "Running",
           NEW r, r = Dispatch(s, c)
    PROVE  /\ DOMAIN r.tasks = DOMAIN s.tasks
           /\ \A t \in DOMAIN s.tasks :
                 s.tasks[t] = "Zombie" => r.tasks[t] = "Zombie"
<1>1. /\ r \in SchedType /\ SchedInv(r, on \cup {c})
      /\ DOMAIN r.tasks = DOMAIN s.tasks
      /\ \A t \in DOMAIN s.tasks :
            s.tasks[t] = "Zombie" => r.tasks[t] = "Zombie"
  BY DispatchKeepsInv
<1> QED BY <1>1

(* A Zombie task never runs again, and no core is on a task being freed.   *)
THEOREM SchedulerZombie == Spec => ZombieIsFinal
<1>1. ASSUME Inv, Next, NEW t \in DOMAIN sched.tasks PROVE ZombieStep(t)
  <2>inv. /\ sched \in SchedType /\ booted \in SUBSET Cores
          /\ SchedInv(sched, booted)
          /\ spawning \subseteq NCores .. sched.next_tid - 1
          /\ spawning \cap DOMAIN sched.tasks = {}
          /\ sched.next_tid \in NCores .. TidMax
    BY <1>1, SchedFields DEF Inv, TypeOK
  <2>1. ASSUME NEW c \in Cores, SpawnReserve(c) PROVE ZombieStep(t)
    <3>1. sched'.tasks = sched.tasks
      BY <2>1, <2>inv, SchedFields DEF SpawnReserve
    <3> QED BY <3>1 DEF ZombieStep
  <2>2. ASSUME NEW c \in Cores, NEW u \in spawning, NEW b \in BOOLEAN,
               SpawnInsert(c, u, b)
        PROVE  ZombieStep(t)
    <3>1. u \in Tid /\ u \notin DOMAIN sched.tasks
      BY <2>inv, SchedConstants DEF Tid
    <3>2. sched' = InsertTask(sched, u, b)
      BY <2>2 DEF SpawnInsert
    <3> QED BY <2>inv, <3>1, <3>2, InsertKeepsInv DEF ZombieStep
  <2>3. ASSUME NEW c \in Cores, NEW u \in spawning, SpawnFail(c, u)
        PROVE  ZombieStep(t)
    BY <2>3 DEF SpawnFail, ZombieStep
  <2>4. ASSUME NEW c \in Cores, Run(c) PROVE ZombieStep(t)
    <3>1. sched' = Dispatch(sched, c) /\ c \notin booted
      BY <2>4 DEF Run
    <3>2. sched.tasks[sched.current[c]] # "Running"
      BY <2>inv, <3>1 DEF SchedInv, IdleSound
    <3>3. /\ DOMAIN sched'.tasks = DOMAIN sched.tasks
          /\ \A u \in DOMAIN sched.tasks :
                sched.tasks[u] = "Zombie" => sched'.tasks[u] = "Zombie"
      BY <2>inv, <3>1, <3>2, DispatchKeepsZombies
    <3> QED BY <3>3 DEF ZombieStep
  <2>5. ASSUME NEW c \in Cores, Exit(c) PROVE ZombieStep(t)
    <3>1. sched' = PutAside(sched, c, "Zombie") /\ c \in booted
          /\ sched.current[c] # c
      BY <2>5 DEF Exit, MarkZombie, TaskRuns
    <3> QED BY <2>inv, <3>1, PutAsideKeepsInv, SMTT(30) DEF ZombieStep
  <2>6. ASSUME NEW c \in Cores, BlockCurrentNoswitch(c) PROVE ZombieStep(t)
    <3>1. sched' = PutAside(sched, c, "Blocked") /\ c \in booted
          /\ sched.current[c] # c /\ sched.tasks[sched.current[c]] = "Running"
      BY <2>6 DEF BlockCurrentNoswitch, BlockCurrent, TaskRuns
    <3>2. /\ DOMAIN sched'.tasks = DOMAIN sched.tasks
          /\ \A u \in DOMAIN sched.tasks :
                u # sched.current[c] => sched'.tasks[u] = sched.tasks[u]
      BY <2>inv, <3>1, PutAsideKeepsInv, SMTT(30)
    <3> QED BY <3>1, <3>2 DEF ZombieStep
  <2>7. ASSUME NEW c \in Cores, NEW u \in DOMAIN sched.tasks, Unblock(c, u)
        PROVE  ZombieStep(t)
    <3>1. sched' = UnblockTask(sched, u)
      BY <2>7 DEF Unblock
    <3> QED BY <2>inv, <3>1, UnblockKeepsInv DEF ZombieStep
  <2>8. ASSUME NEW c \in Cores, SetNeedResched(c) PROVE ZombieStep(t)
    BY <2>8 DEF SetNeedResched, ZombieStep
  <2>9. ASSUME NEW c \in Cores, TrapEpilogue(c) PROVE ZombieStep(t)
    <3>1. sched' = PreemptSwitch(sched, c) /\ c \in booted
      BY <2>9 DEF TrapEpilogue
    <3> QED BY <2>inv, <3>1, PreemptFreesZombies DEF ZombieStep
  <2>10. CASE TimerInterrupt
    <3> DEFINE s == TickDown(sched)
    <3>1. s \in SchedType /\ SchedInv(s, booted) /\ s.tasks = sched.tasks
      BY <2>inv, TickKeepsInv
    <3>2. (0 \in booted /\ sched' = PreemptSwitch(s, 0)) \/ sched' = s
      BY <2>10 DEF TimerInterrupt
    <3> HIDE DEF s
    <3>3. CASE sched' = s
      BY <3>1, <3>3 DEF ZombieStep
    <3>4. CASE 0 \in booted /\ sched' = PreemptSwitch(s, 0)
      BY <2>inv, <3>1, <3>4, PreemptFreesZombies DEF ZombieStep
    <3> QED BY <3>2, <3>3, <3>4
  <2> QED BY <1>1, <2>1, <2>2, <2>3, <2>4, <2>5, <2>6, <2>7, <2>8, <2>9,
             <2>10
          DEF Next, CoreStep
<1>2. Inv /\ [Next]_vars
        => [\A t \in DOMAIN sched.tasks : ZombieStep(t)]_vars
  BY <1>1
<1> QED BY <1>2, SchedulerInv, PTL DEF Spec, ZombieIsFinal
=============================================================================
