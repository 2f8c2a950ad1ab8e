----------------------------- MODULE NetProofs -----------------------------
(***************************************************************************)
(* Proofs about Net, for every number of processes, descriptors, sockets   *)
(* and ports, and every budget of calls and faults.                        *)
(*                                                                         *)
(* The inductive invariant has two halves that no action relates.  Owned:  *)
(* the inodes that some table references and the sockets of the set are    *)
(* one to one, so there is an inode for every free handle, and dropping an *)
(* inode always finds its socket.  LinkOK: between two rounds of net_task, *)
(* what has been done so far to the address it believes in and the one it  *)
(* shows.                                                                  *)
(***************************************************************************)
EXTENDS Net, FiniteSetTheorems, NaturalsInduction, WellFoundedInduction, TLAPS
-----------------------------------------------------------------------------
(* The inductive invariant.                                                *)

SockStates == {"closed", "listen", "synsent", "est", "closewait"}
Sock == [kind : {"tcp", "udp"}, st : SockStates, port : Ports \cup {0}, rx : Nat]
Inodes == [h : Handles, kind : {"tcp", "udp"}, port : Ports \cup {0}, remote : {0, 1}]
Table == {t \in Seq([ino : 0 .. MAX_SOCKETS]) : Len(t) <= MAX_OPEN_FILES}

TabsOK(t) == t \in [Procs -> Table]
Typed(s, n) ==
    /\ s \in [Handles -> Sock \cup {NoSock}]
    /\ n \in [Handles -> Inodes \cup {NoInode}]

(* Sockets s and inodes n, of which the tables hold those in R: an inode   *)
(* is there as long as it is referenced, with a socket of its kind that is *)
(* no other inode's, and every socket is some inode's.                     *)
Owned(s, n, R) ==
    /\ R \subseteq Handles
    /\ \A i \in Handles : i \in R <=> n[i] # NoInode
    /\ \A i \in R : s[n[i].h].kind = n[i].kind
    /\ \A i, j \in R : n[i].h = n[j].h => i = j
    /\ \A h \in Handles : s[h] # NoSock => \E i \in R : n[i].h = h

SocketsOK ==
    /\ Typed(socks, inodes) /\ TabsOK(tabs)
    /\ Owned(socks, inodes, Referenced(tabs))
    /\ panic \in {"none", "connect", "removed_twice"}

NetRec ==
    [pc : {"boot", "failed", "wait", "waiting", "cmds", "doing", "section"},
     todo : Seq({"connect", "disconnect", "scan"}), cmds : Seq(Handles),
     tries : 0 .. 3, fresh : BOOLEAN, associated : BOOLEAN, have_ip : BOOLEAN,
     reset : BOOLEAN]
PubRec ==
    [status : {"Down", "Connecting", "Connected", "Failed"}, ip : {0, 1},
     scan : {"idle", "running", "done", "error"}, asking : BOOLEAN,
     adv_req : BOOLEAN, adv : BOOLEAN]
LinkTypes ==
    /\ net \in NetRec /\ pub \in PubRec /\ iface \in {0, 1}
    /\ dhcp \in [bound : BOOLEAN, changed : BOOLEAN]
    /\ wq \in Seq({"connect", "disconnect", "scan"}) /\ nq \in Seq(Handles)

(* The address is shown when the task believes it has it, but during a     *)
(* scan, which withdraws it first; an address that is about to be asked    *)
(* for again is withdrawn already, and without a link there is none, nor a *)
(* lease on its way.                                                       *)
LinkOK(n, b, i, changed) ==
    /\ n.tries = 0 => (n.have_ip <=> b.ip = 1)
    /\ n.tries # 0 => /\ b.ip = 0 /\ n.pc \in {"waiting", "doing"}
                      /\ n.todo # << >> /\ Head(n.todo) = "scan"
    /\ b.ip = 1 => i = 1
    /\ n.fresh \/ n.reset \/ ~n.associated => ~n.have_ip /\ b.ip = 0
    /\ ~n.associated => ~changed
    /\ n.pc \in {"boot", "failed", "wait", "waiting"} => ~n.associated

LinkInv == LinkTypes /\ LinkOK(net, pub, iface, dhcp.changed)

NetIInv == SocketsOK /\ LinkInv

-----------------------------------------------------------------------------
(* Descriptor tables.                                                      *)

(* A set of handles or positions that is not empty has a least one.        *)
LEMMA MinIn ==
    ASSUME NEW T, T \subseteq Nat, T # {}
    PROVE  Min(T) \in T
<1> DEFINE R == OpToRel(<, Nat)
<1>1. IsWellFoundedOn(R, Nat)
  BY NatLessThanWellFounded, Zenon
<1> HIDE DEF R
<1>2. PICK x \in T : \A y \in T : ~(<<y, x>> \in R)
  BY <1>1, WFMin, Zenon
<1>3. \A y \in T : ~(y < x)
  BY <1>2, Zenon DEF R, OpToRel
<1>4. \A y \in T : x <= y
  BY <1>3
<1> QED BY <1>4, Zenon DEF Min

(* What is in a table.                                                     *)
LEMMA TabEntry ==
    ASSUME NEW t \in Table, NEW k \in DOMAIN t
    PROVE  t[k] \in [ino : 0 .. MAX_SOCKETS]
<1> DEFINE F == [ino : 0 .. MAX_SOCKETS]
<1>1. t \in Seq(F)
  BY Zenon DEF Table
<1> HIDE DEF F
<1>2. t[k] \in F
  BY <1>1
<1> QED BY <1>2, Zenon DEF F

(* One slot of tab that was free, or is new, holds the file in q.          *)
Put(tab, file, q) ==
    \E k \in DOMAIN q :
        /\ q[k] = file
        /\ k \in DOMAIN tab => tab[k] = NoFile
        /\ DOMAIN tab \subseteq DOMAIN q
        /\ \A j \in DOMAIN q : j # k => j \in DOMAIN tab /\ q[j] = tab[j]

(* What FdTable::insert does to a table: nothing, or one free or new slot  *)
(* gets the file.                                                          *)
LEMMA InsertFacts ==
    ASSUME NEW tab \in Table, NEW file \in [ino : 0 .. MAX_SOCKETS],
           NEW r, r = Insert(tab, file)
    PROVE  /\ r.tab \in Table
           /\ ~r.ok => r.tab = tab
           /\ r.ok => Put(tab, file, r.tab)
<1> DEFINE free == {i \in DOMAIN tab : tab[i] = NoFile}
           k == Min(free)
<1>0. tab \in Seq([ino : 0 .. MAX_SOCKETS]) /\ Len(tab) <= MAX_OPEN_FILES
  BY Zenon DEF Table
<1>1. CASE free # {}
  <2>0. free \subseteq Nat
    BY <1>0
  <2>1. k \in free
    BY <1>1, <2>0, MinIn, Zenon
  <2>2. r = Good([tab EXCEPT ![k] = file], k - 1)
    BY <1>1, Zenon DEF Insert
  <2> HIDE DEF k
  <2> DEFINE q == [tab EXCEPT ![k] = file]
  <2>3. /\ q \in Seq([ino : 0 .. MAX_SOCKETS]) /\ Len(q) = Len(tab)
        /\ DOMAIN q = DOMAIN tab /\ q[k] = file
        /\ \A j \in DOMAIN q : j # k => q[j] = tab[j]
    BY <1>0, <2>1
  <2>4. r.ok /\ r.tab = q
    BY <2>2 DEF Good
  <2> HIDE DEF q
  <2>5. q \in Table
    BY <1>0, <2>3, Zenon DEF Table
  <2>6. k \in DOMAIN q /\ tab[k] = NoFile
    BY <2>1, <2>3, Zenon
  <2>7. Put(tab, file, q)
    BY <2>3, <2>6, Zenon DEF Put
  <2> QED BY <2>4, <2>5, <2>7, Zenon
<1>2. CASE free = {} /\ Len(tab) < MAX_OPEN_FILES
  <2>1. r = Good(Append(tab, file), Len(tab))
    BY <1>2, Zenon DEF Insert
  <2> DEFINE q == Append(tab, file)
             m == Len(tab) + 1
  <2>2. /\ q \in Seq([ino : 0 .. MAX_SOCKETS]) /\ Len(q) = m /\ q[m] = file
        /\ DOMAIN q = 1 .. m /\ DOMAIN tab = 1 .. Len(tab) /\ Len(tab) \in Nat
        /\ \A j \in 1 .. Len(tab) : q[j] = tab[j]
    BY <1>0
  <2>3. r.ok /\ r.tab = q
    BY <2>1 DEF Good
  <2>4. m <= MAX_OPEN_FILES
    BY <1>2, <2>2, MaxOpenAssumption
  <2> HIDE DEF q
  <2>5. m \in DOMAIN q /\ m \notin DOMAIN tab /\ DOMAIN tab \subseteq DOMAIN q
    BY <2>2
  <2>6. \A j \in DOMAIN q : j # m => j \in DOMAIN tab /\ q[j] = tab[j]
    BY <2>2
  <2> HIDE DEF m
  <2>7. q \in Table
    BY <2>2, <2>4, Zenon DEF Table
  <2>8. Put(tab, file, q)
    BY <2>2, <2>5, <2>6, Zenon DEF Put
  <2> QED BY <2>3, <2>7, <2>8, Zenon
<1>3. CASE free = {} /\ ~(Len(tab) < MAX_OPEN_FILES)
  <2>1. r = Bad(tab, "TableFull")
    BY <1>3, Zenon DEF Insert
  <2>2. ~r.ok /\ r.tab = tab
    BY <2>1 DEF Bad
  <2> QED BY <2>2, Zenon
<1> QED BY <1>1, <1>2, <1>3, Zenon

(* What the tables reference.                                              *)
LEMMA RefIs ==
    ASSUME NEW t, NEW i
    PROVE  i \in Referenced(t)
             <=> i # 0 /\ \E p \in Procs : \E k \in DOMAIN t[p] : t[p][k].ino = i
<1> DEFINE Of(p) == {t[p][k].ino : k \in DOMAIN t[p]}
<1>1. i \in Referenced(t) <=> i # 0 /\ \E p \in Procs : i \in Of(p)
  <2> DEFINE all == UNION {Of(p) : p \in Procs}
  <2>1. Referenced(t) = all \ {0}
    BY Zenon DEF Referenced
  <2> HIDE DEF Of
  <2>2. i \in all <=> \E p \in Procs : i \in Of(p)
    BY Zenon
  <2> HIDE DEF all
  <2> QED BY <2>1, <2>2, Zenon
<1>2. ASSUME NEW p PROVE i \in Of(p) <=> \E k \in DOMAIN t[p] : t[p][k].ino = i
  BY Zenon
<1> HIDE DEF Of
<1> QED BY <1>1, <1>2, Zenon

(* Process p's table gets inode i.                                         *)
Inserted(t, p, i, u) ==
    /\ p \in Procs /\ i \in Handles
    /\ \E q \in Table : Put(t[p], [ino |-> i], q) /\ u = [t EXCEPT ![p] = q]

(* An inode that is inserted is referenced, and nothing else is lost.      *)
LEMMA RefInsert ==
    ASSUME NEW t, TabsOK(t), NEW p, NEW i, NEW u, Inserted(t, p, i, u)
    PROVE  TabsOK(u) /\ Referenced(u) = Referenced(t) \cup {i}
<1> p \in Procs /\ i \in Handles /\ t \in [Procs -> Table]
  BY Zenon DEF Inserted, TabsOK
<1>0. PICK q \in Table : Put(t[p], [ino |-> i], q) /\ u = [t EXCEPT ![p] = q]
  BY Zenon DEF Inserted
<1> DEFINE file == [ino |-> i]
<1>1. t[p] \in Table /\ file \in [ino : 0 .. MAX_SOCKETS] /\ i # 0
  BY NetAssumption DEF Handles
<1>3. PICK k \in DOMAIN q :
            /\ q[k] = file
            /\ k \in DOMAIN t[p] => t[p][k] = NoFile
            /\ DOMAIN t[p] \subseteq DOMAIN q
            /\ \A j \in DOMAIN q : j # k => j \in DOMAIN t[p] /\ q[j] = t[p][j]
  BY <1>0, Zenon DEF Put
<1>4. /\ u \in [Procs -> Table] /\ u[p] = q
      /\ \A x \in Procs : x # p => u[x] = t[x]
  BY <1>0, Zenon
<1>5. file.ino = i /\ NoFile.ino = 0
  BY Zenon DEF NoFile
<1>6. ASSUME NEW j, j \in Referenced(u) PROVE j \in Referenced(t) \cup {i}
  <2>1. PICK x \in Procs : \E l \in DOMAIN u[x] : u[x][l].ino = j
    BY ONLY <1>6, RefIs
  <2>2. PICK l \in DOMAIN u[x] : u[x][l].ino = j
    BY <2>1, Zenon
  <2>3. CASE x = p /\ l = k
    BY <2>2, <2>3, <1>3, <1>4, <1>5, Zenon
  <2>4. CASE ~(x = p /\ l = k)
    <3>1. l \in DOMAIN t[x] /\ t[x][l].ino = j
      BY <2>2, <2>4, <1>3, <1>4, Zenon
    <3>2. j # 0
      BY <1>6, RefIs, Zenon
    <3>3. j \in Referenced(t)
      BY <3>1, <3>2, RefIs, Zenon
    <3> QED BY <3>3, Zenon
  <2> QED BY <2>3, <2>4, Zenon
<1>7. i \in Referenced(u)
  <2>1. i # 0 /\ p \in Procs /\ k \in DOMAIN u[p] /\ u[p][k].ino = i
    BY <1>1, <1>3, <1>4, <1>5, Zenon
  <2> QED BY ONLY <2>1, RefIs, Zenon
<1>8. ASSUME NEW j, j \in Referenced(t) PROVE j \in Referenced(u)
  <2>1. PICK x \in Procs : \E l \in DOMAIN t[x] : t[x][l].ino = j
    BY <1>8, RefIs
  <2>2. PICK l \in DOMAIN t[x] : t[x][l].ino = j
    BY <2>1, Zenon
  <2>3. j # 0
    BY <1>8, RefIs, Zenon
  <2>4. l \in DOMAIN u[x] /\ u[x][l].ino = j
    BY <2>2, <2>3, <1>3, <1>4, <1>5, Zenon
  <2> QED BY <2>3, <2>4, RefIs, Zenon
<1> QED BY <1>4, <1>6, <1>7, <1>8, Zenon DEF TabsOK

(* What is closed, or lost with its process, adds no reference.            *)
LEMMA RefShrinks ==
    ASSUME NEW t, NEW u,
           \A p \in Procs : \A k \in DOMAIN u[p] :
              k \in DOMAIN t[p] /\ (u[p][k] = t[p][k] \/ u[p][k] = NoFile)
    PROVE  Referenced(u) \subseteq Referenced(t)
<1> SUFFICES ASSUME NEW j, j \in Referenced(u) PROVE j \in Referenced(t)
  BY Zenon
<1>1. j # 0 /\ NoFile.ino = 0
  BY RefIs, Zenon DEF NoFile
<1>2. PICK p \in Procs : \E k \in DOMAIN u[p] : u[p][k].ino = j
  BY RefIs
<1>3. PICK k \in DOMAIN u[p] : u[p][k].ino = j
  BY <1>2, Zenon
<1>4. k \in DOMAIN t[p] /\ t[p][k].ino = j
  BY <1>1, <1>3, Zenon
<1> QED BY <1>1, <1>4, RefIs, Zenon

(* A child's copy references what its parent does.                         *)
LEMMA RefCopied ==
    ASSUME NEW t, TabsOK(t), NEW p \in Procs, NEW q \in Procs,
           t[q] = << >>, NEW u, u = [t EXCEPT ![q] = t[p]]
    PROVE  TabsOK(u) /\ Referenced(u) = Referenced(t)
<1>1. /\ u \in [Procs -> Table] /\ u[q] = t[p] /\ DOMAIN t[q] = {}
      /\ \A x \in Procs : x # q => u[x] = t[x]
  BY DEF TabsOK
<1>2. ASSUME NEW j PROVE j \in Referenced(u) <=> j \in Referenced(t)
  <2>1. (\E x \in Procs : \E k \in DOMAIN u[x] : u[x][k].ino = j)
          <=> \E x \in Procs : \E k \in DOMAIN t[x] : t[x][k].ino = j
    BY <1>1, Zenon
  <2> QED BY ONLY <2>1, RefIs
<1> QED BY <1>1, <1>2, Zenon DEF TabsOK
-----------------------------------------------------------------------------
(* Inodes and their sockets.                                               *)

(* A referenced inode has a handle, and there is a socket there.           *)
LEMMA OwnedFacts ==
    ASSUME NEW s, NEW n, Typed(s, n), NEW R, Owned(s, n, R), NEW i \in R
    PROVE  /\ i \in Handles /\ n[i] \in Inodes /\ n[i].h \in Handles
           /\ n[i].kind \in {"tcp", "udp"} /\ s[n[i].h] \in Sock
           /\ s[n[i].h] # NoSock
<1> s \in [Handles -> Sock \cup {NoSock}] /\ n \in [Handles -> Inodes \cup {NoInode}]
  BY Zenon DEF Typed
<1>1. i \in Handles /\ n[i] \in Inodes
  BY Zenon DEF Owned
<1>2. n[i].h \in Handles /\ n[i].kind \in {"tcp", "udp"}
  BY <1>1, Zenon DEF Inodes
<1>3. s[n[i].h].kind = n[i].kind
  BY Zenon DEF Owned
<1>4. s[n[i].h] # NoSock
  BY <1>2, <1>3 DEF NoSock
<1> QED BY <1>1, <1>2, <1>4, Zenon

(* As long as a handle is free there is an inode for it: the sockets are   *)
(* as many as the inodes that are referenced.                              *)
LEMMA FreeInode ==
    ASSUME NEW s, NEW n, Typed(s, n), NEW R, Owned(s, n, R),
           NEW h \in Handles, s[h] = NoSock
    PROVE  \E i \in Handles : n[i] = NoInode
<1> SUFFICES ASSUME \A i \in Handles : n[i] # NoInode PROVE FALSE
  BY Zenon
<1>1. R = Handles
  BY Zenon DEF Owned
<1> DEFINE f == [i \in Handles |-> n[i].h]
<1>2. \A i \in Handles : n[i].h \in Handles /\ s[n[i].h] # NoSock
  BY <1>1, OwnedFacts, Zenon
<1>3. f \in Injection(Handles, Handles)
  BY <1>1, <1>2, Zenon DEF Injection, IsInjective, Owned
<1>4. IsFiniteSet(Handles)
  BY FS_Interval, NetAssumption DEF Handles
<1>5. f \in Surjection(Handles, Handles)
  <2> HIDE DEF f
  <2> QED BY <1>3, <1>4, FS_Injection, Zenon
<1>6. \E i \in Handles : f[i] = h
  <2> HIDE DEF f
  <2> QED BY <1>5, Zenon DEF Surjection
<1> QED BY <1>2, <1>6, Zenon

(* Sockets whose kinds stay, and inodes whose handles and kinds stay.      *)
LEMMA OwnedAlike ==
    ASSUME NEW s, NEW n, Typed(s, n), NEW R, Owned(s, n, R),
           NEW s2, NEW n2, Typed(s2, n2),
           \A h \in Handles : s2[h].kind = s[h].kind,
           \A i \in Handles :
              \/ n2[i] = n[i]
              \/ n[i] # NoInode /\ n2[i].h = n[i].h /\ n2[i].kind = n[i].kind
    PROVE  Owned(s2, n2, R)
<1> s \in [Handles -> Sock \cup {NoSock}] /\ n \in [Handles -> Inodes \cup {NoInode}]
  BY Zenon DEF Typed
<1> s2 \in [Handles -> Sock \cup {NoSock}] /\ n2 \in [Handles -> Inodes \cup {NoInode}]
  BY Zenon DEF Typed
<1>1. \A i \in Handles : n2[i] # NoInode <=> n[i] # NoInode
  <2>1. \A x \in Inodes : x.h # 0
    BY DEF Inodes, Handles
  <2>2. NoInode.h = 0
    BY Zenon DEF NoInode
  <2> QED BY <2>1, <2>2, Zenon
<1>2. \A h \in Handles : s2[h] # NoSock <=> s[h] # NoSock
  <2>1. \A x \in Sock : x.kind # "none"
    BY Zenon DEF Sock
  <2>2. NoSock.kind = "none"
    BY Zenon DEF NoSock
  <2> QED BY <2>1, <2>2
<1>3. R \subseteq Handles /\ \A i \in R : n2[i].h = n[i].h /\ n2[i].kind = n[i].kind
  BY Zenon DEF Owned
<1>4. \A i \in R : s2[n2[i].h].kind = n2[i].kind
  <2> SUFFICES ASSUME NEW i \in R PROVE s2[n2[i].h].kind = n2[i].kind
    BY Zenon
  <2>1. n[i].h \in Handles
    BY OwnedFacts, Zenon
  <2>2. s[n[i].h].kind = n[i].kind
    BY Zenon DEF Owned
  <2> QED BY <1>3, <2>1, <2>2, Zenon
<1> QED BY <1>1, <1>2, <1>3, <1>4 DEF Owned

(* The handles of the inodes that are in R and not in Q.                   *)
Lost(n, R, Q) == {n[i].h : i \in R \ Q}

(* SocketInode::drop, for those inodes.                                    *)
LEMMA OwnedDrop ==
    ASSUME NEW s, NEW n, Typed(s, n), NEW R, Owned(s, n, R), NEW Q, Q \subseteq R,
           NEW s2, NEW n2,
           s2 = [h \in Handles |-> IF h \in Lost(n, R, Q) THEN NoSock ELSE s[h]],
           n2 = [i \in Handles |-> IF i \in Q THEN n[i] ELSE NoInode]
    PROVE  /\ Typed(s2, n2) /\ Owned(s2, n2, Q)
           /\ \A h \in Lost(n, R, Q) : s[h] # NoSock
           /\ \A i \in Q : n2[i] = n[i]
<1> DEFINE D == Lost(n, R, Q)
<1> s \in [Handles -> Sock \cup {NoSock}] /\ n \in [Handles -> Inodes \cup {NoInode}]
  BY Zenon DEF Typed
<1>1. Typed(s2, n2)
  BY Zenon DEF Typed
<1>2. \A i \in R : n[i].h \in Handles /\ s[n[i].h] # NoSock /\ i \in Handles
  BY OwnedFacts
<1>3. \A i \in Q : n[i].h \notin D
  BY DEF Owned, Lost
<1>5. \A h \in D : s[h] # NoSock
  BY <1>2, Zenon DEF Lost
<1>6. \A h \in Handles : h \notin D /\ s[h] # NoSock => \E i \in Q : n[i].h = h
  BY Zenon DEF Owned, Lost
<1>7. \A i \in Q : n2[i] = n[i]
  BY <1>2, Zenon
<1>4. Owned(s2, n2, Q)
  <2> HIDE DEF D
  <2> QED BY <1>2, <1>3, <1>6, Zenon DEF Owned, D
<1> QED BY <1>1, <1>4, <1>5, <1>7, Zenon

(* A socket at h and an inode at i, for each other.                        *)
Made(s, n, h, i, s2, n2) ==
    /\ h \in Handles /\ s[h] = NoSock /\ i \in Handles /\ n[i] = NoInode
    /\ s2[h] \in Sock /\ n2[i] \in Inodes
    /\ n2[i].h = h /\ n2[i].kind = s2[h].kind
    /\ \A g \in Handles : g # h => s2[g] = s[g]
    /\ \A j \in Handles : j # i => n2[j] = n[j]

(* sys_socket: a new inode and a new socket.                               *)
LEMMA OwnedNew ==
    ASSUME NEW s, NEW n, Typed(s, n), NEW R, Owned(s, n, R), NEW h, NEW i,
           NEW s2, NEW n2, Typed(s2, n2), Made(s, n, h, i, s2, n2)
    PROVE  /\ Owned(s2, n2, R \cup {i}) /\ i \notin R
           /\ \A j \in R : n2[j] = n[j]
<1> s \in [Handles -> Sock \cup {NoSock}] /\ n \in [Handles -> Inodes \cup {NoInode}]
  BY Zenon DEF Typed
<1> s2 \in [Handles -> Sock \cup {NoSock}] /\ n2 \in [Handles -> Inodes \cup {NoInode}]
  BY Zenon DEF Typed
<1> DEFINE x == s2[h]
           e == n2[i]
<1>3. /\ h \in Handles /\ s[h] = NoSock /\ i \in Handles /\ n[i] = NoInode
      /\ x \in Sock /\ e \in Inodes /\ e.h = h /\ e.kind = x.kind
      /\ \A g \in Handles : g # h => s2[g] = s[g]
      /\ \A j \in Handles : j # i => n2[j] = n[j]
  BY Zenon DEF Made
<1>1. i \notin R
  BY <1>3, Zenon DEF Owned
<1>2. \A j \in R : n[j].h \in Handles /\ n[j].h # h /\ j \in Handles
  BY <1>3, OwnedFacts
<1>4. x # NoSock /\ e # NoInode
  BY <1>3 DEF Sock, NoSock, Inodes, NoInode, Handles
<1>5. \A j \in R : n2[j] = n[j] /\ s2[n2[j].h] = s[n[j].h]
  BY <1>1, <1>2, <1>3, Zenon
<1>6. \A j \in Handles : j \in R \cup {i} <=> n2[j] # NoInode
  BY <1>3, <1>4 DEF Owned
<1>7. \A j \in R \cup {i} : s2[n2[j].h].kind = n2[j].kind
  BY <1>3, <1>5, Zenon DEF Owned
<1>8. \A j, k \in R \cup {i} : n2[j].h = n2[k].h => j = k
  BY <1>2, <1>3, <1>5 DEF Owned
<1>9. \A g \in Handles : s2[g] # NoSock => \E j \in R \cup {i} : n2[j].h = g
  <2> SUFFICES ASSUME NEW g \in Handles, s2[g] # NoSock
               PROVE  \E j \in R \cup {i} : n2[j].h = g
    BY Zenon
  <2>1. CASE g = h
    BY <1>3, <2>1, Zenon
  <2>2. CASE g # h
    <3>1. PICK j \in R : n[j].h = g
      BY <1>3, <2>2, Zenon DEF Owned
    <3> QED BY <1>5, <3>1, Zenon
  <2> QED BY <2>1, <2>2, Zenon
<1> QED BY <1>1, <1>3, <1>5, <1>6, <1>7, <1>8, <1>9, Zenon DEF Owned

(* Inode i goes on with a new socket at h.                                 *)
Moves(s, n, i, h, s2, n2) ==
    /\ h \in Handles /\ s[h] = NoSock
    /\ s2[h] \in Sock /\ s2[h].kind = "tcp"
    /\ n2[i] \in Inodes /\ n2[i].h = h /\ n2[i].kind = "tcp"
(* ... and the one it had is the new inode k's,                            *)
Hands(s, n, i, h, k, s2, n2) ==
    /\ \A g \in Handles : g # h => s2[g] = s[g]
    /\ n[i].kind = "tcp" /\ k \in Handles /\ n[k] = NoInode
    /\ n2[k] \in Inodes /\ n2[k].h = n[i].h /\ n2[k].kind = "tcp"
    /\ \A j \in Handles : j # i /\ j # k => n2[j] = n[j]
(* ... or freed.                                                           *)
Frees(s, n, i, h, s2, n2) ==
    /\ s2[n[i].h] = NoSock
    /\ \A g \in Handles : g # h /\ g # n[i].h => s2[g] = s[g]
    /\ \A j \in Handles : j # i => n2[j] = n[j]

(* accept: the socket changes hands, and there is a new one to listen.     *)
LEMMA OwnedAccept ==
    ASSUME NEW s, NEW n, Typed(s, n), NEW R, Owned(s, n, R), NEW i \in R,
           NEW s2, NEW n2, Typed(s2, n2), NEW h, Moves(s, n, i, h, s2, n2),
           NEW k, Hands(s, n, i, h, k, s2, n2)
    PROVE  Owned(s2, n2, R \cup {k}) /\ k \notin R
<1> s \in [Handles -> Sock \cup {NoSock}] /\ n \in [Handles -> Inodes \cup {NoInode}]
  BY Zenon DEF Typed
<1> s2 \in [Handles -> Sock \cup {NoSock}] /\ n2 \in [Handles -> Inodes \cup {NoInode}]
  BY Zenon DEF Typed
<1> DEFINE x == s2[h]
           e == n2[i]
           a == n2[k]
<1> /\ h \in Handles /\ s[h] = NoSock /\ x \in Sock /\ x.kind = "tcp"
    /\ e \in Inodes /\ e.h = h /\ e.kind = "tcp"
  BY Zenon DEF Moves
<1> /\ n[i].kind = "tcp" /\ k \in Handles /\ n[k] = NoInode
    /\ a \in Inodes /\ a.h = n[i].h /\ a.kind = "tcp"
    /\ \A g \in Handles : g # h => s2[g] = s[g]
    /\ \A j \in Handles : j # i /\ j # k => n2[j] = n[j]
  BY Zenon DEF Hands
<1>1. k \notin R
  BY Zenon DEF Owned
<1>2. \A j \in R : n[j].h \in Handles /\ n[j].h # h /\ j \in Handles
  BY OwnedFacts
<1>3. x # NoSock /\ e # NoInode /\ a # NoInode
  BY DEF Sock, NoSock, Inodes, NoInode, Handles
<1>4. \A j \in R : j # i => n2[j] = n[j] /\ s2[n2[j].h] = s[n[j].h]
  BY <1>1, <1>2, Zenon
<1>5. /\ s2[n2[k].h].kind = "tcp" /\ n2[k].kind = "tcp"
      /\ s2[n2[i].h].kind = "tcp" /\ n2[i].kind = "tcp"
  BY <1>2 DEF Owned
<1>6. \A j \in Handles : j \in R \cup {k} <=> n2[j] # NoInode
  BY <1>3 DEF Owned
<1>7. \A j \in R \cup {k} : s2[n2[j].h].kind = n2[j].kind
  BY <1>4, <1>5, Zenon DEF Owned
<1>8. \A j, l \in R \cup {k} : n2[j].h = n2[l].h => j = l
  BY <1>1, <1>2, <1>4 DEF Owned
<1>9. \A g \in Handles : s2[g] # NoSock => \E j \in R \cup {k} : n2[j].h = g
  <2> SUFFICES ASSUME NEW g \in Handles, s2[g] # NoSock
               PROVE  \E j \in R \cup {k} : n2[j].h = g
    BY Zenon
  <2>1. CASE g = h
    BY <2>1, Zenon
  <2>2. CASE g # h
    <3>1. PICK j \in R : n[j].h = g
      BY <2>2, Zenon DEF Owned
    <3> QED BY <1>4, <3>1, Zenon
  <2> QED BY <2>1, <2>2, Zenon
<1> QED BY <1>1, <1>6, <1>7, <1>8, <1>9, Zenon DEF Owned

(* accept with a full table: the new inode is dropped with its socket.     *)
LEMMA OwnedRefused ==
    ASSUME NEW s, NEW n, Typed(s, n), NEW R, Owned(s, n, R), NEW i \in R,
           NEW s2, NEW n2, Typed(s2, n2), NEW h, Moves(s, n, i, h, s2, n2),
           Frees(s, n, i, h, s2, n2)
    PROVE  Owned(s2, n2, R)
<1> s \in [Handles -> Sock \cup {NoSock}] /\ n \in [Handles -> Inodes \cup {NoInode}]
  BY Zenon DEF Typed
<1> s2 \in [Handles -> Sock \cup {NoSock}] /\ n2 \in [Handles -> Inodes \cup {NoInode}]
  BY Zenon DEF Typed
<1> DEFINE x == s2[h]
           e == n2[i]
<1> /\ h \in Handles /\ s[h] = NoSock /\ x \in Sock /\ x.kind = "tcp"
    /\ e \in Inodes /\ e.h = h /\ e.kind = "tcp"
  BY Zenon DEF Moves
<1> /\ s2[n[i].h] = NoSock
    /\ \A g \in Handles : g # h /\ g # n[i].h => s2[g] = s[g]
    /\ \A j \in Handles : j # i => n2[j] = n[j]
  BY Zenon DEF Frees
<1>2. \A j \in R : n[j].h \in Handles /\ n[j].h # h /\ j \in Handles
  BY OwnedFacts
<1>3. x # NoSock /\ e # NoInode
  BY DEF Sock, NoSock, Inodes, NoInode, Handles
<1>4. \A j \in R : j # i => n2[j] = n[j] /\ s2[n2[j].h] = s[n[j].h]
  BY <1>2, Zenon DEF Owned
<1>6. \A j \in Handles : j \in R <=> n2[j] # NoInode
  BY <1>3 DEF Owned
<1>7. \A j \in R : s2[n2[j].h].kind = n2[j].kind
  BY <1>4, Zenon DEF Owned
<1>8. \A j, l \in R : n2[j].h = n2[l].h => j = l
  BY <1>2, <1>4 DEF Owned
<1>9. \A g \in Handles : s2[g] # NoSock => \E j \in R : n2[j].h = g
  <2> SUFFICES ASSUME NEW g \in Handles, s2[g] # NoSock
               PROVE  \E j \in R : n2[j].h = g
    BY Zenon
  <2>1. CASE g = h
    BY <2>1, Zenon
  <2>2. CASE g # h
    <3>1. PICK j \in R : n[j].h = g
      BY <2>2, Zenon DEF Owned
    <3>2. j # i
      BY <3>1, Zenon
    <3> QED BY <1>4, <3>1, <3>2, Zenon
  <2> QED BY <2>1, <2>2, Zenon
<1> QED BY <1>6, <1>7, <1>8, <1>9, Zenon DEF Owned

-----------------------------------------------------------------------------
(* One lemma per socket call: the half of the invariant about sockets is   *)
(* kept, and so are handles, but by accept.                                *)

(* What AcceptKeepsListening says of a step.                               *)
KeepsListening ==
    \A i \in Referenced(tabs) \cap Referenced(tabs') : inodes'[i].h # inodes[i].h =>
       /\ socks'[inodes'[i].h].st = "listen" /\ socks'[inodes'[i].h].port = inodes[i].port
       /\ IF \E j \in Referenced(tabs') \ Referenced(tabs) : inodes'[j].h = inodes[i].h
          THEN socks'[inodes[i].h] = socks[inodes[i].h] ELSE socks'[inodes[i].h] = NoSock

(* A call keeps the handles of the inodes that stay.                       *)
LEMMA HandlesStay ==
    ASSUME \A i \in Referenced(tabs) \cap Referenced(tabs') : inodes'[i].h = inodes[i].h
    PROVE  KeepsListening
BY Zenon DEF KeepsListening

(* Nothing happens to the sockets.                                         *)
LEMMA SocketsUnchanged ==
    ASSUME SocketsOK, UNCHANGED <<socks, inodes, tabs, panic>>
    PROVE  SocketsOK' /\ KeepsListening
<1>1. SocketsOK'
  BY Zenon DEF SocketsOK
<1>2. KeepsListening
  BY Zenon DEF KeepsListening
<1> QED BY <1>1, <1>2, Zenon

(* A step that leaves the tables alone, and the kinds and the handles.     *)
LEMMA SocketsAlike ==
    ASSUME SocketsOK, tabs' = tabs, panic' = panic,
           Typed(socks', inodes'),
           \A h \in Handles : socks'[h].kind = socks[h].kind,
           \A i \in Handles :
              \/ inodes'[i] = inodes[i]
              \/ /\ inodes[i] # NoInode /\ inodes'[i].h = inodes[i].h
                 /\ inodes'[i].kind = inodes[i].kind
    PROVE  SocketsOK' /\ KeepsListening
<1>1. Referenced(tabs') = Referenced(tabs)
  BY Zenon
<1>2. Owned(socks', inodes', Referenced(tabs))
  BY OwnedAlike, Zenon DEF SocketsOK
<1>3. SocketsOK'
  BY <1>1, <1>2, Zenon DEF SocketsOK
<1>4. \A i \in Referenced(tabs) : inodes'[i].h = inodes[i].h
  BY Zenon DEF SocketsOK, Owned
<1>5. KeepsListening
  BY <1>1, <1>4, HandlesStay, Zenon
<1> QED BY <1>3, <1>5, Zenon

(* A descriptor that is open refers to an inode that is there.             *)
LEMMA OpenRef ==
    ASSUME SocketsOK, NEW p \in Procs, NEW fd \in Fds, IsOpen(tabs[p], fd)
    PROVE  /\ Ino(p, fd) \in Referenced(tabs) /\ Ino(p, fd) \in Handles
           /\ Inode(p, fd) = inodes[Ino(p, fd)] /\ Inode(p, fd) \in Inodes
           /\ Inode(p, fd).h \in Handles /\ socks[Inode(p, fd).h] \in Sock
           /\ socks[Inode(p, fd).h].kind = Inode(p, fd).kind
<1> DEFINE m == fd + 1
           e == tabs[p][m]
<1>1. tabs[p] \in Table /\ m \in DOMAIN tabs[p]
  BY Zenon DEF SocketsOK, TabsOK, IsOpen
<1>2. e \in [ino : 0 .. MAX_SOCKETS]
  <2> HIDE DEF m
  <2> QED BY <1>1, TabEntry, Zenon
<1>8. e # NoFile
  BY Zenon DEF IsOpen
<1>3. e.ino # 0
  BY <1>2, <1>8, Zenon DEF NoFile
<1>4. Ino(p, fd) = e.ino /\ Inode(p, fd) = inodes[Ino(p, fd)]
  BY Zenon DEF Ino, Inode
<1>5. Ino(p, fd) \in Referenced(tabs)
  <2> DEFINE k == fd + 1
  <2>1. p \in Procs /\ k \in DOMAIN tabs[p] /\ tabs[p][k].ino = Ino(p, fd) /\ Ino(p, fd) # 0
    BY <1>1, <1>3, <1>4, Zenon
  <2> HIDE DEF k
  <2> QED BY ONLY <2>1, RefIs, Zenon
<1>6. Typed(socks, inodes) /\ Owned(socks, inodes, Referenced(tabs))
  BY Zenon DEF SocketsOK
<1>7. socks[inodes[Ino(p, fd)].h].kind = inodes[Ino(p, fd)].kind
  BY <1>5, <1>6, Zenon DEF Owned
<1> HIDE DEF e
<1> QED BY <1>4, <1>5, <1>6, <1>7, OwnedFacts

(* A free handle and an inode for it.                                      *)
LEMMA NewPair ==
    ASSUME SocketsOK, FreeHandles # {}
    PROVE  /\ Min(FreeHandles) \in Handles /\ socks[Min(FreeHandles)] = NoSock
           /\ NewInode \in Handles /\ inodes[NewInode] = NoInode
<1> DEFINE h == Min(FreeHandles)
           I == {i \in Handles : inodes[i] = NoInode}
<1>1. FreeHandles \subseteq Nat /\ I \subseteq Nat
  BY DEF FreeHandles, Handles
<1>2. h \in FreeHandles
  BY <1>1, MinIn, Zenon
<1>3. h \in Handles /\ socks[h] = NoSock
  BY <1>2, Zenon DEF FreeHandles
<1> HIDE DEF h
<1>4. Typed(socks, inodes) /\ Owned(socks, inodes, Referenced(tabs))
  BY Zenon DEF SocketsOK
<1>5. I # {}
  BY <1>3, <1>4, FreeInode, Zenon
<1>6. Min(I) \in I
  BY <1>1, <1>5, MinIn, Zenon
<1> QED BY <1>3, <1>6, Zenon DEF NewInode, h

(* sys_socket.                                                             *)
LEMMA SysSocketKeeps ==
    ASSUME SocketsOK, NEW p \in Procs, NEW k \in {"tcp", "udp"}, SysSocket(p, k)
    PROVE  SocketsOK' /\ KeepsListening
<1> DEFINE h == Min(FreeHandles)
           i == NewInode
           x == NewSock(k)
           e == [h |-> h, kind |-> k, port |-> 0, remote |-> 0]
           r == Insert(tabs[p], [ino |-> i])
<1>1. FreeHandles # {}
  BY Zenon DEF SysSocket
<1>2. h \in Handles /\ socks[h] = NoSock /\ i \in Handles /\ inodes[i] = NoInode
  BY <1>1, NewPair, Zenon
<1>3. CASE ~r.ok
  <2>1. panic' = "removed_twice" /\ UNCHANGED <<tabs, socks, inodes>>
    BY <1>3, Zenon DEF SysSocket
  <2>2. SocketsOK'
    BY <2>1, Zenon DEF SocketsOK
  <2> QED BY <2>1, <2>2, Zenon DEF KeepsListening
<1>4. CASE r.ok
  <2>1. /\ tabs' = [tabs EXCEPT ![p] = r.tab] /\ inodes' = [inodes EXCEPT ![i] = e]
        /\ socks' = [socks EXCEPT ![h] = x] /\ panic' = panic
    BY <1>4, Zenon DEF SysSocket
  <2>2. x \in Sock /\ x.kind = k /\ e.h = h /\ e.kind = k
    BY Zenon DEF NewSock, Sock, SockStates
  <2>3. e \in Inodes
    BY <1>2, Zenon DEF Inodes
  <2>4. Typed(socks, inodes) /\ TabsOK(tabs) /\ Owned(socks, inodes, Referenced(tabs))
    BY Zenon DEF SocketsOK
  <2> HIDE DEF h, i, x, e
  <2>5. TabsOK(tabs') /\ Referenced(tabs') = Referenced(tabs) \cup {i}
    <3>1. Inserted(tabs, p, i, tabs')
      <4> DEFINE q == r.tab
                 file == [ino |-> i]
      <4>1. tabs[p] \in Table /\ file \in [ino : 0 .. MAX_SOCKETS]
        BY <1>2, <2>4, NetAssumption DEF Handles, TabsOK
      <4>2. q \in Table /\ Put(tabs[p], file, q)
        BY <1>4, <4>1, InsertFacts, Zenon
      <4>3. tabs' = [tabs EXCEPT ![p] = q]
        BY <2>1, Zenon
      <4> HIDE DEF q, r
      <4> QED BY <1>2, <4>2, <4>3, Zenon DEF Inserted
    <3> QED BY <2>4, <3>1, RefInsert
  <2>6. /\ Typed(socks', inodes') /\ Owned(socks', inodes', Referenced(tabs) \cup {i})
        /\ \A j \in Referenced(tabs) : inodes'[j] = inodes[j]
    <3>1. Typed(socks', inodes') /\ Made(socks, inodes, h, i, socks', inodes')
      BY <1>2, <2>1, <2>2, <2>3, <2>4, Zenon DEF Made, Typed
    <3> QED BY <2>4, <3>1, OwnedNew
  <2>7. SocketsOK'
    BY <2>1, <2>5, <2>6, Zenon DEF SocketsOK
  <2>8. KeepsListening
    BY <2>6, HandlesStay, Zenon
  <2> QED BY <2>7, <2>8, Zenon
<1> QED BY <1>3, <1>4, Zenon

(* sys_bind.                                                               *)
LEMMA SysBindKeeps ==
    ASSUME SocketsOK, NEW p \in Procs, NEW fd \in Fds, NEW port \in Ports,
           SysBind(p, fd, port)
    PROVE  SocketsOK' /\ KeepsListening
<1> DEFINE i == Ino(p, fd)
           h == Inode(p, fd).h
           e == [inodes[i] EXCEPT !.port = port]
           x == [socks[h] EXCEPT !.port = port]
<1>1. /\ i \in Handles /\ inodes[i] \in Inodes /\ Inode(p, fd) = inodes[i]
      /\ h \in Handles /\ socks[h] \in Sock
  BY OpenRef, Zenon DEF SysBind
<1>2. /\ inodes' = [inodes EXCEPT ![i] = e] /\ tabs' = tabs /\ panic' = panic
      /\ socks' = socks \/ socks' = [socks EXCEPT ![h] = x]
  BY Zenon DEF SysBind
<1>3. e \in Inodes /\ e.h = inodes[i].h /\ e.kind = inodes[i].kind
  BY <1>1, Zenon DEF Inodes
<1>4. x \in Sock /\ x.kind = socks[h].kind
  BY <1>1, Zenon DEF Sock
<1>5. inodes[i] # NoInode
  BY <1>1 DEF Inodes, NoInode, Handles
<1> HIDE DEF i, h, e, x
<1>6. /\ Typed(socks, inodes')
      /\ \A j \in Handles :
            \/ inodes'[j] = inodes[j]
            \/ /\ inodes[j] # NoInode /\ inodes'[j].h = inodes[j].h
               /\ inodes'[j].kind = inodes[j].kind
  BY <1>1, <1>2, <1>3, <1>5, Zenon DEF SocketsOK, Typed
<1>7. Typed(socks', inodes) /\ \A g \in Handles : socks'[g].kind = socks[g].kind
  <2>1. CASE socks' = socks
    BY <2>1, Zenon DEF SocketsOK
  <2>2. CASE socks' = [socks EXCEPT ![h] = x]
    BY <1>1, <1>4, <2>2, Zenon DEF SocketsOK, Typed
  <2> QED BY <1>2, <2>1, <2>2, Zenon
<1>8. Typed(socks', inodes')
  BY <1>6, <1>7, Zenon DEF Typed
<1> QED BY <1>2, <1>6, <1>7, <1>8, SocketsAlike, Zenon

(* sys_listen.                                                             *)
LEMMA SysListenKeeps ==
    ASSUME SocketsOK, NEW p \in Procs, NEW fd \in Fds, SysListen(p, fd)
    PROVE  SocketsOK' /\ KeepsListening
<1> DEFINE h == Inode(p, fd).h
           port == Inode(p, fd).port
           x == [socks[h] EXCEPT !.st = "listen", !.port = port]
<1>1. h \in Handles /\ socks[h] \in Sock /\ Inode(p, fd) \in Inodes
  BY OpenRef, Zenon DEF SysListen
<1>2. /\ tabs' = tabs /\ panic' = panic /\ inodes' = inodes
      /\ socks' = socks \/ socks' = [socks EXCEPT ![h].st = "listen", ![h].port = port]
  BY Zenon DEF SysListen
<1>3. port \in Ports \cup {0}
  BY <1>1, Zenon DEF Inodes
<1>4. socks \in [Handles -> Sock \cup {NoSock}]
  BY Zenon DEF SocketsOK, Typed
<1> HIDE DEF h, port
<1>5. x \in Sock /\ x.kind = socks[h].kind
  BY <1>1, <1>3, Zenon DEF Sock, SockStates
<1>6. [socks EXCEPT ![h].st = "listen", ![h].port = port] = [socks EXCEPT ![h] = x]
  BY <1>1, <1>4, Zenon
<1> HIDE DEF x
<1>7. Typed(socks', inodes) /\ \A g \in Handles : socks'[g].kind = socks[g].kind
  <2>1. CASE socks' = socks
    BY <2>1, Zenon DEF SocketsOK
  <2>2. CASE socks' = [socks EXCEPT ![h] = x]
    BY <1>1, <1>5, <2>2, Zenon DEF SocketsOK, Typed
  <2> QED BY <1>2, <1>6, <2>1, <2>2, Zenon
<1> QED BY <1>2, <1>7, SocketsAlike, Zenon

(* sys_connect.                                                            *)
LEMMA SysConnectKeeps ==
    ASSUME SocketsOK, NEW p \in Procs, NEW fd \in Fds, SysConnect(p, fd)
    PROVE  SocketsOK' /\ KeepsListening
<1> DEFINE i == Ino(p, fd)
           e == [inodes[i] EXCEPT !.remote = 1]
<1>1. i \in Handles /\ inodes[i] \in Inodes
  BY OpenRef, Zenon DEF SysConnect
<1>2. /\ tabs' = tabs /\ panic' = panic /\ socks' = socks
      /\ inodes' = inodes \/ inodes' = [inodes EXCEPT ![i] = e]
  BY Zenon DEF SysConnect
<1>3. e \in Inodes /\ e.h = inodes[i].h /\ e.kind = inodes[i].kind
  BY <1>1, Zenon DEF Inodes
<1>4. inodes[i] # NoInode
  BY <1>1 DEF Inodes, NoInode, Handles
<1> HIDE DEF i, e
<1>5. CASE inodes' = inodes
  BY <1>2, <1>5, SocketsUnchanged, Zenon
<1>6. CASE inodes' = [inodes EXCEPT ![i] = e]
  <2>1. /\ Typed(socks, inodes')
        /\ \A j \in Handles :
              \/ inodes'[j] = inodes[j]
              \/ /\ inodes[j] # NoInode /\ inodes'[j].h = inodes[j].h
                 /\ inodes'[j].kind = inodes[j].kind
    BY <1>1, <1>3, <1>4, <1>6, Zenon DEF SocketsOK, Typed
  <2> QED BY <1>2, <2>1, SocketsAlike, Zenon
<1> QED BY <1>2, <1>5, <1>6, Zenon

(* read_at.                                                                *)
LEMMA SysReadKeeps ==
    ASSUME SocketsOK, NEW p \in Procs, NEW fd \in Fds, SysRead(p, fd)
    PROVE  SocketsOK' /\ KeepsListening
<1> DEFINE h == Inode(p, fd).h
           x == [socks[h] EXCEPT !.rx = @ - 1]
<1>1. h \in Handles /\ socks[h] \in Sock /\ socks[h].rx > 0
  BY OpenRef, Zenon DEF SysRead
<1>2. /\ tabs' = tabs /\ panic' = panic /\ inodes' = inodes
      /\ socks' = [socks EXCEPT ![h].rx = @ - 1]
  BY Zenon DEF SysRead
<1>3. socks \in [Handles -> Sock \cup {NoSock}]
  BY Zenon DEF SocketsOK, Typed
<1> HIDE DEF h
<1>4. x \in Sock /\ x.kind = socks[h].kind
  BY <1>1 DEF Sock
<1>5. socks' = [socks EXCEPT ![h] = x]
  BY <1>1, <1>2, <1>3, Zenon
<1> HIDE DEF x
<1>6. Typed(socks', inodes) /\ \A g \in Handles : socks'[g].kind = socks[g].kind
  BY <1>1, <1>4, <1>5, Zenon DEF SocketsOK, Typed
<1> QED BY <1>2, <1>6, SocketsAlike, Zenon

(* sys_accept.                                                             *)
LEMMA SysAcceptKeeps ==
    ASSUME SocketsOK, NEW p \in Procs, NEW fd \in Fds, SysAccept(p, fd)
    PROVE  SocketsOK' /\ KeepsListening
<1> DEFINE i == Ino(p, fd)
           o == Inode(p, fd)
           h == Min(FreeHandles)
           k == NewInode
           R == Referenced(tabs)
           file == [ino |-> k]
           r == Insert(tabs[p], file)
           x == [NewSock("tcp") EXCEPT !.st = "listen", !.port = o.port]
           e == [o EXCEPT !.h = h]
           a == [o EXCEPT !.remote = 0]
<1>1. /\ i \in R /\ i \in Handles /\ o = inodes[i] /\ o \in Inodes
      /\ o.h \in Handles /\ socks[o.h] \in Sock /\ o.kind = "tcp"
  BY OpenRef, Zenon DEF SysAccept
<1>2. h \in Handles /\ socks[h] = NoSock /\ k \in Handles /\ inodes[k] = NoInode
  BY NewPair, Zenon DEF SysAccept
<1>3. Typed(socks, inodes) /\ TabsOK(tabs) /\ Owned(socks, inodes, R) /\ panic' = panic
  BY Zenon DEF SocketsOK, SysAccept
<1>4. /\ tabs' = [tabs EXCEPT ![p] = r.tab]
      /\ inodes' = [j \in Handles |-> CASE j = i -> [inodes[j] EXCEPT !.h = h]
                                        [] j = k /\ r.ok -> a
                                        [] OTHER -> inodes[j]]
      /\ r.ok => socks' = [socks EXCEPT ![h] = x]
      /\ ~r.ok => socks' = [[socks EXCEPT ![h] = x] EXCEPT ![o.h] = NoSock]
  BY Zenon DEF SysAccept
<1>5. tabs[p] \in Table /\ file \in [ino : 0 .. MAX_SOCKETS]
  BY <1>2, <1>3, NetAssumption DEF Handles, TabsOK
<1>6. /\ r.tab \in Table
      /\ ~r.ok => r.tab = tabs[p]
      /\ r.ok => Put(tabs[p], file, r.tab)
  BY <1>5, InsertFacts, Zenon
<1>7. x \in Sock /\ x.kind = "tcp" /\ x.st = "listen" /\ x.port = o.port
  <2>1. o.port \in Ports \cup {0}
    BY <1>1, Zenon DEF Inodes
  <2> HIDE DEF o
  <2> QED BY <2>1, Zenon DEF NewSock, Sock, SockStates
<1>8. /\ e \in Inodes /\ e.h = h /\ e.kind = "tcp"
      /\ a \in Inodes /\ a.h = o.h /\ a.kind = "tcp"
  <2> HIDE DEF o, h
  <2> QED BY <1>1, <1>2, Zenon DEF Inodes
<1>9. i # k /\ o.h # h /\ o # NoInode /\ socks[o.h] # NoSock
  BY <1>1, <1>2 DEF Inodes, NoInode, Handles, Sock, NoSock
<1>10. socks \in [Handles -> Sock \cup {NoSock}] /\ inodes \in [Handles -> Inodes \cup {NoInode}]
  BY <1>3, Zenon DEF Typed
<1>11. e = [inodes[i] EXCEPT !.h = h]
  BY <1>1, Zenon
<1> HIDE DEF i, o, h, k, R, r, x, e, a
<1>12. CASE r.ok
  <2>1. TabsOK(tabs') /\ Referenced(tabs') = R \cup {k}
    <3>1. Inserted(tabs, p, k, tabs')
      <4>1. Put(tabs[p], [ino |-> k], r.tab) /\ r.tab \in Table
        BY <1>6, <1>12, Zenon
      <4>2. tabs' = [tabs EXCEPT ![p] = r.tab]
        BY <1>4, Zenon
      <4> QED BY <1>2, <4>1, <4>2, Zenon DEF Inserted
    <3> QED BY <1>3, <3>1, RefInsert DEF R
  <2>2. /\ inodes' = [j \in Handles |-> IF j = i THEN e ELSE IF j = k THEN a ELSE inodes[j]]
        /\ socks' = [socks EXCEPT ![h] = x]
    <3>1. inodes' = [j \in Handles |-> CASE j = i -> e
                                        [] j = k /\ r.ok -> a
                                        [] OTHER -> inodes[j]]
      BY <1>4, <1>11
    <3>2. inodes' = [j \in Handles |-> IF j = i THEN e ELSE IF j = k THEN a ELSE inodes[j]]
      BY <1>9, <1>12, <3>1, Zenon
    <3>3. socks' = [socks EXCEPT ![h] = x]
      BY <1>4, <1>12, Zenon
    <3> QED BY <3>2, <3>3, Zenon
  <2>3. Typed(socks', inodes')
    BY <1>7, <1>8, <1>10, <2>2, Zenon DEF Typed
  <2>4. Moves(socks, inodes, i, h, socks', inodes')
    BY <1>1, <1>2, <1>7, <1>8, <1>10, <2>2, Zenon DEF Moves
  <2>5. Hands(socks, inodes, i, h, k, socks', inodes')
    BY <1>1, <1>2, <1>8, <1>9, <1>10, <2>2, Zenon DEF Hands
  <2>6. Owned(socks', inodes', R \cup {k}) /\ k \notin R
    BY <1>1, <1>3, <2>3, <2>4, <2>5, OwnedAccept, Zenon
  <2>7. SocketsOK'
    BY <1>3, <2>1, <2>3, <2>6, Zenon DEF SocketsOK
  <2>8. /\ inodes'[i].h = h /\ socks'[h] = x /\ socks'[o.h] = socks[o.h]
        /\ inodes'[k].h = o.h /\ k \in Referenced(tabs') \ R
        /\ \A j \in R : j # i => inodes'[j] = inodes[j]
    BY <1>1, <1>2, <1>8, <1>9, <1>10, <2>1, <2>2, <2>6 DEF Hands, Owned
  <2>9. KeepsListening
    BY <1>1, <1>7, <2>8, Zenon DEF KeepsListening, R
  <2> QED BY <2>7, <2>9, Zenon
<1>13. CASE ~r.ok
  <2>1. tabs' = tabs /\ Referenced(tabs') = R
    <3>1. r.tab = tabs[p] /\ tabs' = [tabs EXCEPT ![p] = r.tab]
      BY <1>4, <1>6, <1>13, Zenon
    <3>2. tabs \in [Procs -> Table]
      BY <1>3, Zenon DEF TabsOK
    <3>3. tabs' = tabs
      BY <3>1, <3>2, Zenon
    <3> QED BY <3>3, Zenon DEF R
  <2>2. /\ inodes' = [j \in Handles |-> IF j = i THEN e ELSE inodes[j]]
        /\ socks' = [[socks EXCEPT ![h] = x] EXCEPT ![o.h] = NoSock]
    BY <1>4, <1>11, <1>13, Zenon
  <2>3. Typed(socks', inodes')
    BY <1>7, <1>8, <1>10, <2>2, Zenon DEF Typed
  <2>4. Moves(socks, inodes, i, h, socks', inodes')
    BY <1>1, <1>2, <1>7, <1>8, <1>9, <1>10, <2>2, Zenon DEF Moves
  <2>5. Frees(socks, inodes, i, h, socks', inodes')
    BY <1>1, <1>2, <1>9, <1>10, <2>2, Zenon DEF Frees
  <2>6. Owned(socks', inodes', R)
    BY <1>1, <1>3, <2>3, <2>4, <2>5, OwnedRefused, Zenon
  <2>7. SocketsOK'
    BY <1>3, <2>1, <2>3, <2>6, Zenon DEF SocketsOK
  <2>8. /\ inodes'[i].h = h /\ socks'[h] = x /\ socks'[o.h] = NoSock
        /\ \A j \in R : j # i => inodes'[j] = inodes[j]
    BY <1>1, <1>2, <1>3, <1>8, <1>9, <1>10, <2>2, Zenon DEF Owned
  <2>9. KeepsListening
    BY <1>1, <1>7, <2>1, <2>8, Zenon DEF KeepsListening, R
  <2> QED BY <2>7, <2>9, Zenon
<1> QED BY <1>12, <1>13, Zenon

(* Tables that reference less: SocketInode::drop finds every socket.       *)
LEMMA CloseSocketKeeps ==
    ASSUME SocketsOK, NEW t, TabsOK(t), Referenced(t) \subseteq Referenced(tabs),
           CloseSocket(t)
    PROVE  SocketsOK' /\ KeepsListening
<1> DEFINE R == Referenced(tabs)
           Q == Referenced(t)
           D == Lost(inodes, R, Q)
           s2 == [h \in Handles |-> IF h \in D THEN NoSock ELSE socks[h]]
           n2 == [i \in Handles |-> IF i \in Q THEN inodes[i] ELSE NoInode]
<1>1. Typed(socks, inodes) /\ Owned(socks, inodes, R) /\ Q \subseteq R
  BY Zenon DEF SocketsOK
<1>2. Dropped(t) = D
  BY Zenon DEF Dropped, Lost
<1>3. tabs' = t /\ inodes' = n2
  BY Zenon DEF CloseSocket
<1>4. (\A h \in D : socks[h] # NoSock) => socks' = s2 /\ panic' = panic
  BY <1>2, Zenon DEF CloseSocket
<1>5. /\ Typed(s2, n2) /\ Owned(s2, n2, Q)
      /\ \A h \in D : socks[h] # NoSock
      /\ \A i \in Q : n2[i] = inodes[i]
  <2> HIDE DEF R, Q
  <2> QED BY <1>1, OwnedDrop
<1> HIDE DEF D, s2, n2
<1>6. SocketsOK'
  BY <1>3, <1>4, <1>5, Zenon DEF SocketsOK
<1>7. KeepsListening
  BY <1>3, <1>5, HandlesStay, Zenon
<1> QED BY <1>6, <1>7, Zenon

(* sys_close.                                                              *)
LEMMA SysCloseKeeps ==
    ASSUME SocketsOK, NEW p \in Procs, NEW fd \in Fds, SysClose(p, fd)
    PROVE  SocketsOK' /\ KeepsListening
<1> DEFINE m == fd + 1
           q == [tabs[p] EXCEPT ![m] = NoFile]
           t == [tabs EXCEPT ![p] = q]
<1>1. m \in DOMAIN tabs[p] /\ RemoveFd(tabs[p], fd).tab = q
  BY Zenon DEF SysClose, IsOpen, RemoveFd, Good
<1>2. CloseSocket(t)
  BY <1>1, Zenon DEF SysClose
<1>3. tabs \in [Procs -> Table] /\ tabs[p] \in Table
  BY Zenon DEF SocketsOK, TabsOK
<1> HIDE DEF m
<1>4. q \in Table /\ DOMAIN q = DOMAIN tabs[p]
  <2> DEFINE F == [ino : 0 .. MAX_SOCKETS]
  <2>1. tabs[p] \in Seq(F) /\ Len(tabs[p]) <= MAX_OPEN_FILES
    BY <1>3, Zenon DEF Table
  <2>2. NoFile \in F
    BY NetAssumption DEF NoFile
  <2> HIDE DEF F
  <2>3. q \in Seq(F) /\ Len(q) = Len(tabs[p]) /\ DOMAIN q = DOMAIN tabs[p]
    BY <1>1, <2>1, <2>2
  <2> QED BY <2>1, <2>3, Zenon DEF Table, F
<1>5. TabsOK(t)
  BY <1>3, <1>4, Zenon DEF TabsOK
<1>6. \A x \in Procs : \A k \in DOMAIN t[x] :
         k \in DOMAIN tabs[x] /\ (t[x][k] = tabs[x][k] \/ t[x][k] = NoFile)
  BY <1>1, <1>3, <1>4, Zenon
<1> HIDE DEF t
<1>7. Referenced(t) \subseteq Referenced(tabs)
  BY <1>6, RefShrinks, Zenon
<1> QED BY <1>2, <1>5, <1>7, CloseSocketKeeps, Zenon

(* cleanup_fds of a process that ends.                                     *)
LEMMA ExitProcKeeps ==
    ASSUME SocketsOK, NEW p \in Procs, ExitProc(p)
    PROVE  SocketsOK' /\ KeepsListening
<1> DEFINE t == [tabs EXCEPT ![p] = << >>]
<1>1. CloseSocket(t)
  BY Zenon DEF ExitProc
<1>2. tabs \in [Procs -> Table] /\ << >> \in Table
  <2>1. << >> \in Seq([ino : 0 .. MAX_SOCKETS]) /\ Len(<< >>) = 0
    OBVIOUS
  <2>2. 0 <= MAX_OPEN_FILES
    BY MaxOpenAssumption
  <2> QED BY <2>1, <2>2, Zenon DEF SocketsOK, TabsOK, Table
<1>3. TabsOK(t)
  BY <1>2, Zenon DEF TabsOK
<1>4. \A x \in Procs : \A k \in DOMAIN t[x] :
         k \in DOMAIN tabs[x] /\ (t[x][k] = tabs[x][k] \/ t[x][k] = NoFile)
  BY <1>2
<1> HIDE DEF t
<1>5. Referenced(t) \subseteq Referenced(tabs)
  BY <1>4, RefShrinks, Zenon
<1> QED BY <1>1, <1>3, <1>5, CloseSocketKeeps, Zenon

(* clone_fd_table for a child.                                             *)
LEMMA SpawnKeeps ==
    ASSUME SocketsOK, NEW p \in Procs, NEW q \in Procs, Spawn(p, q)
    PROVE  SocketsOK' /\ KeepsListening
<1>1. /\ tabs[q] = << >> /\ tabs' = [tabs EXCEPT ![q] = tabs[p]]
      /\ inodes' = inodes /\ socks' = socks /\ panic' = panic
  BY Zenon DEF Spawn
<1>2. TabsOK(tabs') /\ Referenced(tabs') = Referenced(tabs)
  BY <1>1, RefCopied, Zenon DEF SocketsOK
<1>3. SocketsOK'
  BY <1>1, <1>2, Zenon DEF SocketsOK
<1>4. KeepsListening
  BY <1>1, HandlesStay, Zenon
<1> QED BY <1>3, <1>4, Zenon

(* The section under NET_SOCKETS: connect changes the state of a socket.   *)
LEMMA SectionSockets ==
    ASSUME SocketsOK, NEW due \in BOOLEAN, Section(due)
    PROVE  SocketsOK' /\ KeepsListening
<1>1. inodes' = inodes /\ tabs' = tabs
  BY Zenon DEF Section
<1>2. CASE ConnectMissing
  <2>1. socks' = socks /\ panic' = "connect"
    BY <1>2, Zenon DEF Section
  <2>2. SocketsOK'
    BY <1>1, <2>1, Zenon DEF SocketsOK
  <2> QED BY <1>1, <2>2, HandlesStay, Zenon
<1>3. CASE ~ConnectMissing
  <2>1. socks' = Connecting(socks) /\ panic' = panic
    BY <1>3, Zenon DEF Section
  <2>2. socks \in [Handles -> Sock \cup {NoSock}]
    BY Zenon DEF SocketsOK, Typed
  <2>3. \A h \in Range(net.cmds) : socks[h].kind = "tcp"
    BY <1>3, Zenon DEF ConnectMissing, Range
  <2>4. ASSUME NEW h \in Handles
        PROVE  socks'[h] \in Sock \cup {NoSock} /\ socks'[h].kind = socks[h].kind
    <3>1. \/ socks'[h] = socks[h]
          \/ h \in Range(net.cmds) /\ socks'[h] = [socks[h] EXCEPT !.st = "synsent"]
      BY <2>1, Zenon DEF Connecting
    <3>2. CASE socks'[h] = socks[h]
      BY <2>2, <3>2, Zenon
    <3>3. CASE h \in Range(net.cmds) /\ socks'[h] = [socks[h] EXCEPT !.st = "synsent"]
      <4>1. socks[h] \in Sock
        BY <2>2, <2>3, <3>3 DEF NoSock
      <4>2. [socks[h] EXCEPT !.st = "synsent"] \in Sock
        BY <4>1, Zenon DEF Sock, SockStates
      <4>3. [socks[h] EXCEPT !.st = "synsent"].kind = socks[h].kind
        BY <4>1, Zenon DEF Sock
      <4> QED BY <3>3, <4>2, <4>3, Zenon
    <3> QED BY <3>1, <3>2, <3>3, Zenon
  <2>5. DOMAIN socks' = Handles /\ socks' = [h \in Handles |-> socks'[h]]
    BY <2>1, Zenon DEF Connecting
  <2>6. Typed(socks', inodes')
    BY <1>1, <2>4, <2>5, Zenon DEF SocketsOK, Typed
  <2> QED BY <1>1, <2>1, <2>4, <2>6, SocketsAlike, Zenon
<1> QED BY <1>2, <1>3, Zenon

(* What the peer sends.                                                    *)
LEMMA ArrivesSockets ==
    ASSUME SocketsOK, NEW h \in Handles, Arrives(h)
    PROVE  SocketsOK' /\ KeepsListening
<1> DEFINE s == socks[h]
<1>1. /\ tabs' = tabs /\ panic' = panic /\ inodes' = inodes /\ s.kind = "tcp"
      /\ \/ socks' = [socks EXCEPT ![h].st = "est", ![h].rx = 1]
         \/ \E t \in {"est", "closed"} : socks' = [socks EXCEPT ![h].st = t]
         \/ \E t \in {"closewait", "closed"} : socks' = [socks EXCEPT ![h].st = t]
  BY Zenon DEF Arrives
<1>2. socks \in [Handles -> Sock \cup {NoSock}] /\ s \in Sock
  BY <1>1 DEF SocketsOK, Typed, NoSock
<1>3. \E x \in Sock : x.kind = s.kind /\ socks' = [socks EXCEPT ![h] = x]
  <2>1. CASE socks' = [socks EXCEPT ![h].st = "est", ![h].rx = 1]
    <3> DEFINE x == [s EXCEPT !.st = "est", !.rx = 1]
    <3>1. x \in Sock /\ x.kind = s.kind
      BY <1>2, Zenon DEF Sock, SockStates
    <3>2. socks' = [socks EXCEPT ![h] = x]
      BY <1>2, <2>1, Zenon
    <3> QED BY <3>1, <3>2, Zenon
  <2>2. CASE \E t \in SockStates : socks' = [socks EXCEPT ![h].st = t]
    <3>1. PICK t \in SockStates : socks' = [socks EXCEPT ![h].st = t]
      BY <2>2, Zenon
    <3> DEFINE x == [s EXCEPT !.st = t]
    <3>2. x \in Sock /\ x.kind = s.kind
      BY <1>2, Zenon DEF Sock
    <3>3. socks' = [socks EXCEPT ![h] = x]
      BY <1>2, <3>1, Zenon
    <3> QED BY <3>2, <3>3, Zenon
  <2> QED BY <1>1, <2>1, <2>2, Zenon DEF SockStates
<1>4. PICK x \in Sock : x.kind = s.kind /\ socks' = [socks EXCEPT ![h] = x]
  BY <1>3, Zenon
<1>5. Typed(socks', inodes') /\ \A g \in Handles : socks'[g].kind = socks[g].kind
  BY <1>1, <1>2, <1>4, Zenon DEF SocketsOK, Typed
<1> QED BY <1>1, <1>5, SocketsAlike, Zenon

-----------------------------------------------------------------------------
(* The link.                                                               *)

(* Calls of programs and commands for the link only fill the queues.       *)
LEMMA LinkQueued ==
    ASSUME LinkInv, UNCHANGED <<net, pub, dhcp, iface>>,
           wq' \in Seq({"connect", "disconnect", "scan"}), nq' \in Seq(Handles)
    PROVE  LinkInv'
BY Zenon DEF LinkInv, LinkTypes

(* The requests of a scan and of advertising.                              *)
LEMMA RequestLinks ==
    ASSUME LinkInv, RequestScan \/ QueueScan \/ RequestAdvertise
    PROVE  LinkInv'
<1>1. /\ net' = net /\ dhcp' = dhcp /\ iface' = iface /\ nq' = nq
      /\ wq' \in {wq, Append(wq, "scan")}
      /\ \/ pub' = [pub EXCEPT !.scan = "running", !.asking = TRUE]
         \/ pub' = [pub EXCEPT !.asking = FALSE]
         \/ pub' = [pub EXCEPT !.adv_req = TRUE]
  BY Zenon DEF RequestScan, QueueScan, RequestAdvertise, sockets
<1>2. pub' \in PubRec /\ pub'.ip = pub.ip
  BY <1>1, Zenon DEF LinkInv, LinkTypes, PubRec
<1>3. wq' \in Seq({"connect", "disconnect", "scan"})
  BY <1>1 DEF LinkInv, LinkTypes
<1> QED BY <1>1, <1>2, <1>3, Zenon DEF LinkInv, LinkTypes, LinkOK

(* What net_task knows where it is.                                        *)
LEMMA LinkFields ==
    ASSUME LinkInv
    PROVE  /\ net \in NetRec /\ pub \in PubRec /\ iface \in {0, 1}
           /\ dhcp \in [bound : BOOLEAN, changed : BOOLEAN]
           /\ net.pc \notin {"waiting", "doing"} => net.tries = 0
           /\ net.todo = << >> => net.tries = 0
           /\ Head(net.todo) # "scan" => net.tries = 0
BY Zenon DEF LinkInv, LinkTypes, LinkOK, NetRec

(* Up to the first connect(), and the queues being taken.                  *)
LEMMA BootLinks ==
    ASSUME LinkInv, Boot
    PROVE  LinkInv'
<1>1. /\ net.pc = "boot" /\ UNCHANGED <<wq, nq, dhcp, iface>>
      /\ \/ /\ net' = [net EXCEPT !.pc = "failed"]
            /\ pub' = [pub EXCEPT !.status = "Failed"]
         \/ /\ net' = [net EXCEPT !.pc = "wait"]
            /\ pub' = [pub EXCEPT !.status = "Connecting"]
  BY Zenon DEF Boot, NetAt
<1>2. net.tries = 0 /\ net \in NetRec /\ pub \in PubRec
  BY <1>1, LinkFields, Zenon
<1>3. /\ net' \in NetRec /\ pub' \in PubRec /\ net'.pc \in {"failed", "wait"}
      /\ net'.tries = 0 /\ net'.have_ip = net.have_ip /\ net'.fresh = net.fresh
      /\ net'.reset = net.reset /\ net'.associated = net.associated
      /\ pub'.ip = pub.ip
  BY <1>1, <1>2, Zenon DEF NetRec, PubRec
<1> QED BY <1>1, <1>2, <1>3, Zenon DEF LinkInv, LinkTypes, LinkOK

(* ... the queue of commands for the link,                                 *)
LEMMA TakeCommandsLinks ==
    ASSUME LinkInv, NEW pc, NEW next,
           \/ pc = "wait" /\ next = "waiting"
           \/ pc = "cmds" /\ next = "doing",
           TakeCommands(pc, next)
    PROVE  LinkInv'
<1>1. /\ net.pc = pc /\ wq' = <<>> /\ UNCHANGED <<nq, pub, dhcp, iface>>
      /\ net' = [net EXCEPT !.pc = next, !.todo = wq, !.fresh = FALSE]
  BY Zenon DEF TakeCommands, NetAt
<1>2. net.tries = 0 /\ net \in NetRec
  BY <1>1, LinkFields, Zenon
<1>3. wq \in Seq({"connect", "disconnect", "scan"})
  BY Zenon DEF LinkInv, LinkTypes
<1>4. /\ net' \in NetRec /\ net'.pc = next
      /\ net'.tries = 0 /\ net'.have_ip = net.have_ip /\ ~net'.fresh
      /\ net'.reset = net.reset /\ net'.associated = net.associated
  BY <1>1, <1>2, <1>3, Zenon DEF NetRec
<1>5. wq' \in Seq({"connect", "disconnect", "scan"})
  BY <1>1
<1> QED BY <1>1, <1>2, <1>4, <1>5, Zenon DEF LinkInv, LinkTypes, LinkOK

(* ... and that of the sockets.                                            *)
LEMMA TakeConnectsLinks ==
    ASSUME LinkInv, TakeConnects
    PROVE  LinkInv'
<1>1. /\ net.pc = "doing" /\ net.todo = <<>> /\ nq' = <<>>
      /\ UNCHANGED <<wq, dhcp, iface>>
      /\ pub' = [pub EXCEPT !.adv_req = FALSE, !.adv = @ \/ pub.adv_req]
      /\ net' = [net EXCEPT !.pc = "section", !.cmds = nq]
  BY Zenon DEF TakeConnects, NetAt
<1>2. net.tries = 0 /\ net \in NetRec /\ pub \in PubRec
  BY <1>1, LinkFields, Zenon
<1>3. nq \in Seq(Handles)
  BY Zenon DEF LinkInv, LinkTypes
<1>4. /\ net' \in NetRec /\ net'.pc = "section"
      /\ net'.tries = 0 /\ net'.have_ip = net.have_ip /\ net'.fresh = net.fresh
      /\ net'.reset = net.reset /\ net'.associated = net.associated
  BY <1>1, <1>2, <1>3, Zenon DEF NetRec
<1>5. pub' \in PubRec /\ pub'.ip = pub.ip
  BY <1>1, <1>2, Zenon DEF PubRec
<1>6. nq' \in Seq(Handles)
  BY <1>1
<1> QED BY <1>1, <1>2, <1>4, <1>5, <1>6, Zenon DEF LinkInv, LinkTypes, LinkOK

(* What process_wifi_cmd leaves of the task's state.                       *)
LEMMA ProcessedFields ==
    ASSUME NEW n \in NetRec, n.todo # << >>, NEW again \in BOOLEAN
    PROVE  /\ Processed(n, again) \in NetRec /\ Processed(n, again).pc = n.pc
           /\ Processed(n, again).tries = 0
           /\ Processed(n, again).fresh <=> n.fresh \/ again
           /\ Processed(n, again).have_ip <=> n.have_ip /\ ~again
           /\ Processed(n, again).reset = n.reset
           /\ Processed(n, again).associated = n.associated
<1>1. Tail(n.todo) \in Seq({"connect", "disconnect", "scan"})
  BY DEF NetRec
<1> DEFINE m == Processed(n, again)
<1>2. m = [n EXCEPT !.todo = Tail(n.todo), !.fresh = n.fresh \/ again,
                    !.have_ip = n.have_ip /\ ~again, !.tries = 0]
  BY Zenon DEF Processed
<1>3. m \in NetRec
  <2> DEFINE a == n.fresh \/ again
             b == n.have_ip /\ ~again
             d == Tail(n.todo)
  <2>1. a \in BOOLEAN /\ b \in BOOLEAN
    BY Zenon DEF NetRec
  <2>2. m = [n EXCEPT !.todo = d, !.fresh = a, !.have_ip = b, !.tries = 0]
    BY <1>2, Zenon
  <2>3. d \in Seq({"connect", "disconnect", "scan"})
    BY <1>1, Zenon
  <2> HIDE DEF a, b, d, m
  <2>4. /\ m = [pc |-> n.pc, todo |-> d, cmds |-> n.cmds, tries |-> 0, fresh |-> a,
                associated |-> n.associated, have_ip |-> b, reset |-> n.reset]
    BY ONLY n \in NetRec, <2>2, Zenon DEF NetRec
  <2>5. /\ n.pc \in {"boot", "failed", "wait", "waiting", "cmds", "doing", "section"}
        /\ n.cmds \in Seq(Handles) /\ n.associated \in BOOLEAN /\ n.reset \in BOOLEAN
    BY ONLY n \in NetRec, Zenon DEF NetRec
  <2> QED BY ONLY <2>1, <2>3, <2>4, <2>5 DEF NetRec
<1>4. /\ m.pc = n.pc /\ m.tries = 0 /\ m.reset = n.reset
      /\ m.associated = n.associated
  BY <1>2, Zenon DEF NetRec
<1>5. (m.fresh <=> n.fresh \/ again) /\ (m.have_ip <=> n.have_ip /\ ~again)
  BY <1>2, Zenon DEF NetRec
<1> QED BY <1>3, <1>4, <1>5, Zenon

(* A command that needs no new address, or withdraws the one there was.    *)
LEMMA ProcessedLinks ==
    ASSUME LinkInv, net.todo # << >>, NEW again \in BOOLEAN,
           net' = Processed(net, again), pub' \in PubRec,
           again => pub'.ip = 0, ~again => pub'.ip = pub.ip /\ net.tries = 0,
           UNCHANGED <<wq, nq, dhcp, iface>>
    PROVE  LinkInv'
<1>1. net \in NetRec
  BY LinkFields, Zenon
<1>2. /\ net' \in NetRec /\ net'.pc = net.pc /\ net'.tries = 0
      /\ net'.fresh <=> net.fresh \/ again
      /\ net'.have_ip <=> net.have_ip /\ ~again
      /\ net'.reset = net.reset /\ net'.associated = net.associated
  BY <1>1, ProcessedFields
<1>3. pub'.ip \in {0, 1} /\ pub.ip \in {0, 1}
  BY Zenon DEF LinkInv, LinkTypes, PubRec
<1> QED BY <1>2, <1>3 DEF LinkInv, LinkTypes, LinkOK

(* connect(): it fails, or the address is asked for again.                 *)
LEMMA DoConnectLinks ==
    ASSUME LinkInv, NEW pc, DoConnect(pc)
    PROVE  LinkInv'
<1>1. /\ net.todo # << >> /\ Head(net.todo) = "connect"
      /\ UNCHANGED <<wq, nq, dhcp, iface>>
      /\ \/ net' = Processed(net, FALSE) /\ pub' = pub
         \/ /\ net' = Processed(net, TRUE)
            /\ pub' = [pub EXCEPT !.ip = 0, !.status = "Connecting"]
  BY Zenon DEF DoConnect, Next_command
<1>2. net.tries = 0 /\ pub \in PubRec
  BY <1>1, LinkFields, Zenon
<1>3. CASE net' = Processed(net, FALSE) /\ pub' = pub
  <2> DEFINE again == FALSE
  <2>1. /\ again \in BOOLEAN /\ net' = Processed(net, again)
        /\ (again => pub'.ip = 0) /\ (~again => pub'.ip = pub.ip /\ net.tries = 0)
    BY <1>2, <1>3, Zenon
  <2> HIDE DEF again
  <2> QED BY <1>1, <1>2, <1>3, <2>1, ProcessedLinks, Zenon
<1>4. CASE /\ net' = Processed(net, TRUE)
           /\ pub' = [pub EXCEPT !.ip = 0, !.status = "Connecting"]
  <2> DEFINE again == TRUE
  <2>1. pub' \in PubRec /\ pub'.ip = 0
    BY <1>2, <1>4, Zenon DEF PubRec
  <2>2. /\ again \in BOOLEAN /\ net' = Processed(net, again)
        /\ (again => pub'.ip = 0) /\ (~again => pub'.ip = pub.ip /\ net.tries = 0)
    BY <1>4, <2>1, Zenon
  <2> HIDE DEF again
  <2> QED BY <1>1, <2>1, <2>2, ProcessedLinks, Zenon
<1> QED BY <1>1, <1>3, <1>4, Zenon

(* disconnect().                                                           *)
LEMMA DoDisconnectLinks ==
    ASSUME LinkInv, NEW pc, DoDisconnect(pc)
    PROVE  LinkInv'
<1> DEFINE again == TRUE
<1>1. /\ net.todo # << >> /\ UNCHANGED <<wq, nq, dhcp, iface>>
      /\ net' = Processed(net, again)
      /\ pub' = [pub EXCEPT !.ip = 0, !.status = "Down"]
  BY Zenon DEF DoDisconnect, Next_command
<1>2. pub' \in PubRec /\ pub'.ip = 0
  BY <1>1, LinkFields, Zenon DEF PubRec
<1>3. /\ again \in BOOLEAN
      /\ (again => pub'.ip = 0) /\ (~again => pub'.ip = pub.ip /\ net.tries = 0)
  BY <1>2, Zenon
<1> HIDE DEF again
<1> QED BY <1>1, <1>2, <1>3, ProcessedLinks, Zenon

(* A scan: the address is withdrawn before the first try.                  *)
LEMMA ScanLinks ==
    ASSUME LinkInv, NEW pc \in {"waiting", "doing"}, StartScan(pc) \/ TryScan(pc)
    PROVE  LinkInv'
<1>0. net \in NetRec /\ pub \in PubRec
  BY LinkFields, Zenon
<1>1. /\ net.pc = pc /\ net.todo # << >> /\ Head(net.todo) = "scan"
      /\ UNCHANGED <<wq, nq, dhcp, iface>>
      /\ \/ net.tries = 0 /\ net' = [net EXCEPT !.tries = 1] /\ pub' = [pub EXCEPT !.ip = 0]
         \/ /\ net.tries > 0 /\ net.tries < 3
            /\ net' = [net EXCEPT !.tries = @ + 1] /\ pub' = pub
         \/ /\ net.tries > 0 /\ net' = Processed(net, TRUE)
            /\ \/ pub' = [pub EXCEPT !.scan = "done"]
               \/ pub' = [pub EXCEPT !.scan = "error"]
  BY Zenon DEF StartScan, TryScan, Next_command, NetAt
<1>2. CASE \/ /\ net.tries = 0 /\ net' = [net EXCEPT !.tries = 1]
              /\ pub' = [pub EXCEPT !.ip = 0]
           \/ /\ net.tries > 0 /\ net.tries < 3
              /\ net' = [net EXCEPT !.tries = @ + 1] /\ pub' = pub
  <2>1. PICK k \in 1 .. 3 : net' = [net EXCEPT !.tries = k]
    BY <1>0, <1>2 DEF NetRec
  <2>2. /\ net' \in NetRec /\ net'.tries = k
        /\ net'.pc = net.pc /\ net'.todo = net.todo /\ net'.have_ip = net.have_ip
        /\ net'.fresh = net.fresh /\ net'.reset = net.reset
        /\ net'.associated = net.associated
    BY <1>0, <2>1 DEF NetRec
  <2>3. pub' \in PubRec /\ pub'.ip = 0
    <3>1. net.tries > 0 => pub.ip = 0
      BY <1>0 DEF LinkInv, LinkOK, NetRec
    <3> QED BY <1>0, <1>2, <3>1, Zenon DEF PubRec
  <2> QED BY <1>1, <2>2, <2>3 DEF LinkInv, LinkTypes, LinkOK
<1>3. CASE /\ net.tries > 0 /\ net' = Processed(net, TRUE)
           /\ \/ pub' = [pub EXCEPT !.scan = "done"]
              \/ pub' = [pub EXCEPT !.scan = "error"]
  <2> DEFINE again == TRUE
  <2>1. pub.ip = 0
    BY <1>0, <1>3 DEF LinkInv, LinkOK, NetRec
  <2>2. pub' \in PubRec /\ pub'.ip = 0
    BY <1>0, <1>3, <2>1, Zenon DEF PubRec
  <2>3. /\ again \in BOOLEAN /\ net' = Processed(net, again)
        /\ (again => pub'.ip = 0) /\ (~again => pub'.ip = pub.ip /\ net.tries = 0)
    BY <1>3, <2>2, Zenon
  <2> HIDE DEF again
  <2> QED BY <1>1, <2>2, <2>3, ProcessedLinks, Zenon
<1> QED BY <1>1, <1>2, <1>3, Zenon

(* The first association.                                                  *)
LEMMA AssociatedLinks ==
    ASSUME LinkInv, NEW due \in BOOLEAN, Associated(due)
    PROVE  LinkInv'
<1>1. /\ net.pc = "waiting" /\ net.todo = << >>
      /\ UNCHANGED <<wq, nq, pub, dhcp, iface>>
      /\ \/ net' = [net EXCEPT !.pc = "cmds", !.associated = TRUE, !.have_ip = FALSE,
                               !.reset = FALSE]
         \/ net' = [net EXCEPT !.pc = "wait"]
  BY Zenon DEF Associated, NetAt
<1>2. net.tries = 0 /\ net \in NetRec
  BY <1>1, LinkFields, Zenon
<1>3. ~net.associated /\ ~net.have_ip /\ pub.ip = 0 /\ ~dhcp.changed
  BY <1>1, Zenon DEF LinkInv, LinkOK
<1>4. CASE net' = [net EXCEPT !.pc = "cmds", !.associated = TRUE, !.have_ip = FALSE,
                              !.reset = FALSE]
  <2>1. /\ net' \in NetRec /\ net'.pc = "cmds" /\ net'.associated
        /\ ~net'.have_ip /\ ~net'.reset /\ net'.fresh = net.fresh /\ net'.tries = 0
    BY <1>2, <1>4, Zenon DEF NetRec
  <2> QED BY <1>1, <1>3, <2>1, Zenon DEF LinkInv, LinkTypes, LinkOK
<1>5. CASE net' = [net EXCEPT !.pc = "wait"]
  <2>1. /\ net' \in NetRec /\ net'.pc = "wait" /\ net'.associated = net.associated
        /\ net'.have_ip = net.have_ip /\ net'.reset = net.reset
        /\ net'.fresh = net.fresh /\ net'.tries = 0
    BY <1>2, <1>5, Zenon DEF NetRec
  <2> QED BY <1>1, <1>3, <2>1, Zenon DEF LinkInv, LinkTypes, LinkOK
<1> QED BY <1>1, <1>4, <1>5, Zenon

(* The DHCP server's answers, which wait for the next poll.                *)
LEMMA LeaseLinks ==
    ASSUME LinkInv, LeaseGiven \/ LeaseLost
    PROVE  LinkInv'
<1>1. /\ net.associated /\ UNCHANGED <<net, pub, wq, nq, iface>>
      /\ \/ dhcp' = [bound |-> TRUE, changed |-> TRUE]
         \/ dhcp' = [bound |-> FALSE, changed |-> TRUE]
  BY Zenon DEF LeaseGiven, LeaseLost, Polled
<1>2. dhcp' \in [bound : BOOLEAN, changed : BOOLEAN]
  <2>1. PICK b \in BOOLEAN, c \in BOOLEAN : dhcp' = [bound |-> b, changed |-> c]
    BY <1>1, Zenon
  <2> QED BY <2>1, Zenon
<1> QED BY <1>1, <1>2, Zenon DEF LinkInv, LinkTypes, LinkOK

(* What a round of net_task ends with.                                     *)
Round(n, b, i) ==
    /\ n \in NetRec /\ b \in PubRec /\ i \in {0, 1}
    /\ n.pc = "cmds" /\ n.tries = 0
    /\ n.have_ip <=> b.ip = 1
    /\ b.ip = 1 => i = 1
    /\ n.fresh \/ n.reset \/ ~n.associated => ~n.have_ip /\ b.ip = 0

(* The DHCP event, after the reset: the task's state n when it comes to it *)
(* has neither been told of a new address nor kept one it must ask for.    *)
LEMMA LeasedRound ==
    ASSUME LinkInv, NEW n \in NetRec, n.pc = "cmds", n.tries = 0, net.tries = 0,
           ~n.fresh, ~n.reset, n.have_ip = net.have_ip, n.associated = net.associated,
           NEW r, r = Leased(AfterReset, n, pub)
    PROVE  /\ Round(r.net, r.pub, r.ifc)
           /\ r = [ifc |-> r.ifc, net |-> r.net, pub |-> r.pub]
<1> DEFINE d == AfterReset
<1>1. /\ pub \in PubRec /\ iface \in {0, 1} /\ dhcp \in [bound : BOOLEAN, changed : BOOLEAN]
      /\ net \in NetRec
  BY LinkFields, Zenon
<1>2. /\ net.have_ip <=> pub.ip = 1
      /\ pub.ip = 1 => iface = 1
      /\ WasReset \/ ~net.associated => ~net.have_ip /\ pub.ip = 0
      /\ ~net.associated => ~dhcp.changed
  BY Zenon DEF LinkInv, LinkOK, WasReset
<1>3. /\ WasReset => ~d.bound
      /\ ~WasReset => d = dhcp
  BY Zenon DEF AfterReset
<1> HIDE DEF d
<1>4. CASE d.changed /\ d.bound
  <2>1. n.associated
    BY <1>2, <1>3, <1>4, Zenon
  <2> DEFINE m == [n EXCEPT !.have_ip = TRUE]
             b == IF n.have_ip THEN pub ELSE [pub EXCEPT !.ip = 1, !.status = "Connected"]
  <2>2. r = [ifc |-> 1, net |-> m, pub |-> b]
    BY <1>4, Zenon DEF Leased, d
  <2>3. /\ m \in NetRec /\ m.pc = "cmds" /\ m.tries = 0 /\ m.have_ip
        /\ ~m.fresh /\ ~m.reset /\ m.associated = n.associated
    BY Zenon DEF NetRec
  <2>4. b \in PubRec /\ b.ip = 1
    <3>1. CASE n.have_ip
      BY <1>1, <1>2, <3>1, Zenon
    <3>2. CASE ~n.have_ip
      BY <1>1, <3>2, Zenon DEF PubRec
    <3> QED BY <3>1, <3>2, Zenon
  <2> HIDE DEF m, b
  <2>5. r.net = m /\ r.pub = b /\ r.ifc = 1
    BY <2>2
  <2> QED BY <2>1, <2>2, <2>3, <2>4, <2>5, Zenon DEF Round
<1>5. CASE d.changed /\ ~d.bound
  <2> DEFINE m == [n EXCEPT !.have_ip = FALSE]
             st == IF pub.status = "Connected" THEN "Connecting" ELSE pub.status
             b == [pub EXCEPT !.ip = 0, !.status = st]
  <2>2. r = [ifc |-> 0, net |-> m, pub |-> b]
    BY <1>5, Zenon DEF Leased, d
  <2>3. /\ m \in NetRec /\ m.pc = "cmds" /\ m.tries = 0 /\ ~m.have_ip
        /\ ~m.fresh /\ ~m.reset /\ m.associated = n.associated
    BY Zenon DEF NetRec
  <2>4. b \in PubRec /\ b.ip = 0
    <3>1. st \in {"Down", "Connecting", "Connected", "Failed"}
      BY <1>1, Zenon DEF PubRec
    <3> HIDE DEF st
    <3> QED BY <1>1, <3>1, Zenon DEF PubRec
  <2> HIDE DEF m, b
  <2>5. r.net = m /\ r.pub = b /\ r.ifc = 0
    BY <2>2
  <2> QED BY <2>2, <2>3, <2>4, <2>5 DEF Round
<1>6. CASE ~d.changed
  <2> DEFINE i == IF WasReset THEN 0 ELSE iface
  <2>1. r = [ifc |-> i, net |-> n, pub |-> pub]
    BY <1>6, Zenon DEF Leased, d
  <2>2. i \in {0, 1} /\ (pub.ip = 1 => i = 1)
    BY <1>1, <1>2, Zenon
  <2> HIDE DEF i
  <2>3. r.net = n /\ r.pub = pub /\ r.ifc = i
    BY <2>1
  <2> QED BY <1>1, <1>2, <2>1, <2>2, <2>3, Zenon DEF Round
<1> QED BY <1>4, <1>5, <1>6, Zenon

(* The check of the link.                                                  *)
LEMMA LinkCheckRound ==
    ASSUME NEW n, NEW b, NEW i, Round(n, b, i),
           NEW r, r = [ifc |-> i, net |-> n, pub |-> b],
           NEW c, c = LinkCheck(r)
    PROVE  Round(c.net, c.pub, c.ifc)
<1>1. n \in NetRec /\ b \in PubRec /\ r.net = n /\ r.pub = b /\ r.ifc = i
  BY Zenon DEF Round
<1>2. CASE radio.link /\ n.associated
  BY <1>1, <1>2, Zenon DEF LinkCheck
<1>3. CASE radio.link /\ ~n.associated
  <2> DEFINE m == [n EXCEPT !.associated = TRUE, !.reset = TRUE]
  <2>1. c = [r EXCEPT !.net.associated = TRUE, !.net.reset = TRUE]
    BY <1>1, <1>3, Zenon DEF LinkCheck
  <2>2. c = [ifc |-> i, net |-> m, pub |-> b]
    BY <1>1, <2>1, Zenon
  <2>3. /\ m \in NetRec /\ m.pc = n.pc /\ m.tries = n.tries /\ m.have_ip = n.have_ip
    BY <1>1, Zenon DEF NetRec
  <2> HIDE DEF m
  <2>4. c.net = m /\ c.pub = b /\ c.ifc = i
    BY <2>2
  <2> QED BY <1>3, <2>3, <2>4, Zenon DEF Round
<1>4. CASE ~radio.link
  <2> DEFINE v == n.have_ip /\ ~n.associated
             a == IF n.associated THEN 0 ELSE b.ip
             m == [n EXCEPT !.associated = FALSE, !.have_ip = v]
             q == [b EXCEPT !.ip = a, !.status = "Connecting"]
  <2>1. c = [ifc |-> i, net |-> m, pub |-> q]
    BY <1>1, <1>4, Zenon DEF LinkCheck
  <2>2. v \in BOOLEAN /\ a \in {0, 1} /\ ~v /\ a = 0
    BY <1>1, Zenon DEF Round, NetRec, PubRec
  <2> HIDE DEF v, a
  <2>3. m \in NetRec /\ m.pc = n.pc /\ m.tries = n.tries /\ m.have_ip = v
    BY <1>1, <2>2, Zenon DEF NetRec
  <2>4. q \in PubRec /\ q.ip = a
    BY <1>1, <2>2, Zenon DEF PubRec
  <2> HIDE DEF m, q
  <2>5. c.net = m /\ c.pub = q /\ c.ifc = i
    BY <2>1
  <2> QED BY <2>2, <2>3, <2>4, <2>5 DEF Round
<1> QED BY <1>2, <1>3, <1>4, Zenon

(* The section: the reset, the DHCP event and the check when it is due.    *)
LEMMA SectionLinks ==
    ASSUME LinkInv, NEW due \in BOOLEAN, Section(due)
    PROVE  LinkInv'
<1>1. net.pc = "section" /\ wq' = wq /\ nq' = nq
  BY Zenon DEF Section, NetAt
<1>2. /\ net \in NetRec /\ net.tries = 0
      /\ dhcp \in [bound : BOOLEAN, changed : BOOLEAN]
  BY <1>1, LinkFields, Zenon
<1>3. CASE ConnectMissing
  <2>1. UNCHANGED <<net, pub, dhcp, iface>>
    BY <1>3, Zenon DEF Section
  <2> QED BY <1>1, <2>1, Zenon DEF LinkInv, LinkTypes
<1>4. CASE ~ConnectMissing
  <2> DEFINE n == [net EXCEPT !.reset = FALSE, !.fresh = FALSE, !.cmds = <<>>, !.pc = "cmds"]
             r == Leased(AfterReset, n, pub)
             c == IF due THEN LinkCheck(r) ELSE r
  <2>1. /\ net' = c.net /\ pub' = c.pub /\ iface' = c.ifc
        /\ dhcp' = [AfterReset EXCEPT !.changed = FALSE]
    BY <1>4, Zenon DEF Section
  <2>2. /\ n \in NetRec /\ n.pc = "cmds" /\ n.tries = 0 /\ ~n.fresh /\ ~n.reset
        /\ n.have_ip = net.have_ip /\ n.associated = net.associated
    <3> DEFINE no == FALSE
               e == <<>>
    <3>1. no \in BOOLEAN /\ ~no /\ e \in Seq(Handles)
      OBVIOUS
    <3>2. n = [net EXCEPT !.reset = no, !.fresh = no, !.cmds = e, !.pc = "cmds"]
      BY Zenon
    <3> HIDE DEF no, e, n
    <3>3. n = [pc |-> "cmds", todo |-> net.todo, cmds |-> e, tries |-> net.tries, fresh |-> no,
               associated |-> net.associated, have_ip |-> net.have_ip, reset |-> no]
      BY ONLY <1>2, <3>2, Zenon DEF NetRec
    <3> QED BY <1>2, <3>1, <3>3, Zenon DEF NetRec
  <2> HIDE DEF n
  <2>3. /\ Round(r.net, r.pub, r.ifc)
        /\ r = [ifc |-> r.ifc, net |-> r.net, pub |-> r.pub]
    BY <1>2, <2>2, LeasedRound, Zenon
  <2> HIDE DEF r
  <2>4. Round(c.net, c.pub, c.ifc)
    <3>1. CASE due
      <4>1. c = LinkCheck(r)
        BY <3>1, Zenon
      <4> HIDE DEF c
      <4> QED BY <2>3, <4>1, LinkCheckRound, Zenon
    <3>2. CASE ~due
      BY <2>3, <3>2, Zenon
    <3> QED BY <3>1, <3>2, Zenon
  <2> HIDE DEF c
  <2>5. dhcp' \in [bound : BOOLEAN, changed : BOOLEAN] /\ ~dhcp'.changed
    <3> DEFINE d == AfterReset
    <3>1. d \in [bound : BOOLEAN, changed : BOOLEAN]
      <4>1. CASE WasReset
        <5>1. PICK x \in BOOLEAN, y \in BOOLEAN : d = [bound |-> x, changed |-> y]
          BY <1>2, <4>1, Zenon DEF AfterReset
        <5> QED BY <5>1, Zenon
      <4>2. CASE ~WasReset
        BY <1>2, <4>2, Zenon DEF AfterReset
      <4> QED BY <4>1, <4>2, Zenon
    <3> HIDE DEF d
    <3>2. dhcp' = [d EXCEPT !.changed = FALSE]
      BY <2>1, Zenon DEF d
    <3> QED BY <3>1, <3>2, Zenon
  <2> QED BY <1>1, <2>1, <2>4, <2>5, Zenon DEF LinkInv, LinkTypes, LinkOK, Round
<1> QED BY <1>3, <1>4, Zenon

-----------------------------------------------------------------------------
(* The invariant.                                                          *)

(* It holds when net_task starts.                                          *)
LEMMA InitNet == NetInit => NetIInv
<1> SUFFICES ASSUME NetInit PROVE NetIInv
  BY Zenon
<1>1. SocketsOK
  <2>1. /\ socks = [h \in Handles |-> NoSock] /\ inodes = [i \in Handles |-> NoInode]
        /\ tabs = [p \in Procs |-> << >>] /\ panic = "none"
    BY Zenon DEF NetInit, NetStart
  <2>2. Typed(socks, inodes)
    BY <2>1, Zenon DEF Typed
  <2>3. << >> \in Table
    <3>1. << >> \in Seq([ino : 0 .. MAX_SOCKETS]) /\ Len(<< >>) = 0
      OBVIOUS
    <3>2. 0 <= MAX_OPEN_FILES
      BY MaxOpenAssumption
    <3> QED BY <3>1, <3>2, Zenon DEF Table
  <2>4. TabsOK(tabs)
    BY <2>1, <2>3, Zenon DEF TabsOK
  <2>5. Referenced(tabs) = {}
    <3>1. \A p \in Procs : DOMAIN tabs[p] = {}
      BY <2>1
    <3> QED BY <3>1, RefIs, Zenon
  <2>6. Owned(socks, inodes, {})
    BY <2>1, Zenon DEF Owned
  <2> QED BY <2>1, <2>2, <2>4, <2>5, <2>6, Zenon DEF SocketsOK
<1>2. LinkInv
  <2>1. /\ net = [pc |-> "boot", todo |-> <<>>, cmds |-> <<>>, tries |-> 0, fresh |-> FALSE,
                  associated |-> FALSE, have_ip |-> FALSE, reset |-> FALSE]
        /\ pub = [status |-> "Down", ip |-> 0, scan |-> "idle", asking |-> FALSE,
                  adv_req |-> FALSE, adv |-> FALSE]
        /\ wq = <<>> /\ nq = <<>> /\ iface = 0
        /\ dhcp = [bound |-> FALSE, changed |-> FALSE]
    BY Zenon DEF NetInit, NetStart
  <2> DEFINE no == FALSE
  <2>2. /\ no \in BOOLEAN /\ ~no
        /\ net = [pc |-> "boot", todo |-> <<>>, cmds |-> <<>>, tries |-> 0, fresh |-> no,
                  associated |-> no, have_ip |-> no, reset |-> no]
        /\ pub = [status |-> "Down", ip |-> 0, scan |-> "idle", asking |-> no,
                  adv_req |-> no, adv |-> no]
        /\ dhcp = [bound |-> no, changed |-> no]
    BY <2>1, Zenon
  <2> HIDE DEF no
  <2>3. net \in NetRec
    <3> DEFINE Pc == {"boot", "failed", "wait", "waiting", "cmds", "doing", "section"}
               Todo == Seq({"connect", "disconnect", "scan"})
               none == <<>>
               start == "boot"
    <3>1. start \in Pc /\ none \in Todo /\ none \in Seq(Handles) /\ 0 \in 0 .. 3
      OBVIOUS
    <3>2. net = [pc |-> start, todo |-> none, cmds |-> none, tries |-> 0, fresh |-> no,
                 associated |-> no, have_ip |-> no, reset |-> no]
      BY <2>2, Zenon
    <3> HIDE DEF none, start, Todo, Pc
    <3>3. net \in [pc : Pc, todo : Todo, cmds : Seq(Handles), tries : 0 .. 3,
                   fresh : BOOLEAN, associated : BOOLEAN, have_ip : BOOLEAN,
                   reset : BOOLEAN]
      BY ONLY <2>2, <3>1, <3>2
    <3> QED BY <3>3, Zenon DEF NetRec, Pc, Todo
  <2>4. pub \in PubRec
    BY <2>2, Zenon DEF PubRec
  <2>5. dhcp \in [bound : BOOLEAN, changed : BOOLEAN]
    BY <2>2, Zenon
  <2>6. LinkTypes
    BY <2>1, <2>3, <2>4, <2>5 DEF LinkTypes
  <2>7. /\ net.tries = 0 /\ ~net.have_ip /\ pub.ip = 0 /\ ~net.fresh /\ ~net.reset
        /\ ~net.associated /\ ~dhcp.changed
    BY <2>2, Zenon
  <2> QED BY <2>6, <2>7 DEF LinkInv, LinkOK
<1> QED BY <1>1, <1>2, Zenon DEF NetIInv

(* The calls of programs.                                                  *)
LEMMA SocketCallKeeps ==
    ASSUME SocketsOK, SocketCall
    PROVE  SocketsOK' /\ KeepsListening
<1>1. PICK p \in Procs :
         \/ \E k \in {"tcp", "udp"} : SysSocket(p, k)
         \/ ExitProc(p)
         \/ \E q \in Procs \ {p} : Spawn(p, q)
         \/ \E fd \in Fds : \/ SysListen(p, fd) \/ SysAccept(p, fd)
                            \/ SysConnect(p, fd) \/ SysRead(p, fd) \/ SysClose(p, fd)
         \/ \E fd \in Fds, port \in Ports : SysBind(p, fd, port)
  BY Zenon DEF SocketCall
<1>2. CASE \E k \in {"tcp", "udp"} : SysSocket(p, k)
  BY <1>2, SysSocketKeeps, Zenon
<1>3. CASE ExitProc(p)
  BY <1>3, ExitProcKeeps, Zenon
<1>4. CASE \E q \in Procs \ {p} : Spawn(p, q)
  BY <1>4, SpawnKeeps, Zenon
<1>5. CASE \E fd \in Fds : \/ SysListen(p, fd) \/ SysAccept(p, fd)
                           \/ SysConnect(p, fd) \/ SysRead(p, fd) \/ SysClose(p, fd)
  BY <1>5, SysListenKeeps, SysAcceptKeeps, SysConnectKeeps, SysReadKeeps, SysCloseKeeps, Zenon
<1>6. CASE \E fd \in Fds, port \in Ports : SysBind(p, fd, port)
  BY <1>6, SysBindKeeps, Zenon
<1> QED BY <1>1, <1>2, <1>3, <1>4, <1>5, <1>6, Zenon

(* Every step keeps the sockets owned.                                     *)
LEMMA SocketsStep ==
    ASSUME SocketsOK, [NetNext]_netVars
    PROVE  SocketsOK' /\ KeepsListening
<1>1. CASE NetStep
  <2>1. CASE \/ Boot \/ TakeCommands("wait", "waiting") \/ TakeCommands("cmds", "doing")
             \/ TakeConnects \/ \E pc \in {"waiting", "doing"} : Command(pc)
             \/ \E due \in BOOLEAN : Associated(due)
    <3>1. UNCHANGED <<socks, inodes, tabs, panic>>
      BY <2>1, Zenon DEF Boot, TakeCommands, TakeConnects, Command, DoConnect, DoDisconnect,
                  StartScan, TryScan, Associated, Quiet
    <3> QED BY <3>1, SocketsUnchanged, Zenon
  <2>2. CASE \E due \in BOOLEAN : Section(due)
    BY <2>2, SectionSockets, Zenon
  <2> QED BY <1>1, <2>1, <2>2, Zenon DEF NetStep
<1>2. CASE External
  <2>1. CASE Joins \/ LinkLost \/ LeaseGiven \/ LeaseLost
    <3>1. UNCHANGED <<socks, inodes, tabs, panic>>
      BY <2>1, Zenon DEF Joins, LinkLost, LeaseGiven, LeaseLost
    <3> QED BY <3>1, SocketsUnchanged, Zenon
  <2>2. CASE \E h \in Handles : Arrives(h)
    BY <2>2, ArrivesSockets, Zenon
  <2> QED BY <1>2, <2>1, <2>2, Zenon DEF External
<1>3. CASE SocketCall
  BY <1>3, SocketCallKeeps, Zenon
<1>4. CASE \/ QueueScan \/ RequestConnect \/ RequestDisconnect \/ RequestScan
           \/ RequestAdvertise \/ UNCHANGED netVars
  <2>1. UNCHANGED <<socks, inodes, tabs, panic>>
    BY <1>4, Zenon DEF QueueScan, RequestConnect, RequestDisconnect, RequestScan,
                RequestAdvertise, sockets, netVars
  <2> QED BY <2>1, SocketsUnchanged, Zenon
<1> QED BY <1>1, <1>2, <1>3, <1>4, Zenon DEF NetNext

(* Every step keeps what net_task knows of the link.                       *)
LEMMA LinkStep ==
    ASSUME NetIInv, [NetNext]_netVars
    PROVE  LinkInv'
<1>0. /\ LinkInv /\ SocketsOK /\ nq \in Seq(Handles)
      /\ wq \in Seq({"connect", "disconnect", "scan"})
  BY Zenon DEF NetIInv, LinkInv, LinkTypes
<1>1. CASE NetStep
  <2>1. CASE \E pc \in {"waiting", "doing"} : Command(pc)
    BY <1>0, <2>1, DoConnectLinks, DoDisconnectLinks, ScanLinks, Zenon DEF Command
  <2>2. CASE TakeCommands("wait", "waiting")
    BY <1>0, <2>2, TakeCommandsLinks, Zenon
  <2>3. CASE TakeCommands("cmds", "doing")
    BY <1>0, <2>3, TakeCommandsLinks, Zenon
  <2>4. CASE Boot \/ TakeConnects \/ \E due \in BOOLEAN : Associated(due) \/ Section(due)
    BY <1>0, <2>4, BootLinks, TakeConnectsLinks, AssociatedLinks, SectionLinks, Zenon
  <2> QED BY <1>1, <2>1, <2>2, <2>3, <2>4, Zenon DEF NetStep
<1>2. CASE External
  <2>1. CASE Joins \/ LinkLost \/ \E h \in Handles : Arrives(h)
    <3>1. UNCHANGED <<net, pub, dhcp, iface, wq, nq>>
      BY <2>1, Zenon DEF Joins, LinkLost, Arrives
    <3> QED BY <1>0, <3>1, LinkQueued, Zenon
  <2>2. CASE LeaseGiven \/ LeaseLost
    BY <1>0, <2>2, LeaseLinks, Zenon
  <2> QED BY <1>2, <2>1, <2>2, Zenon DEF External
<1>3. CASE SocketCall
  <2>0. PICK p \in Procs :
           \/ \E k \in {"tcp", "udp"} : SysSocket(p, k)
           \/ ExitProc(p)
           \/ \E q \in Procs \ {p} : Spawn(p, q)
           \/ \E fd \in Fds : \/ SysListen(p, fd) \/ SysAccept(p, fd)
                              \/ SysConnect(p, fd) \/ SysRead(p, fd) \/ SysClose(p, fd)
           \/ \E fd \in Fds, port \in Ports : SysBind(p, fd, port)
    BY <1>3, Zenon DEF SocketCall
  <2>1. /\ UNCHANGED <<net, pub, dhcp, iface, wq>>
        /\ \/ nq' = nq
           \/ \E fd \in Fds : IsOpen(tabs[p], fd) /\ nq' = Append(nq, Inode(p, fd).h)
    <3>1. CASE \/ \E k \in {"tcp", "udp"} : SysSocket(p, k)
               \/ ExitProc(p)
               \/ \E q \in Procs \ {p} : Spawn(p, q)
      BY <3>1, Zenon DEF SysSocket, ExitProc, Spawn, link
    <3>2. CASE \E fd \in Fds : SysListen(p, fd) \/ SysRead(p, fd) \/ SysClose(p, fd)
      BY <3>2, Zenon DEF SysListen, SysRead, SysClose, link
    <3>3. CASE \E fd \in Fds : SysAccept(p, fd)
      BY <3>3, Zenon DEF SysAccept, link
    <3>4. CASE \E fd \in Fds : SysConnect(p, fd)
      BY <3>4, Zenon DEF SysConnect, link
    <3>5. CASE \E fd \in Fds, port \in Ports : SysBind(p, fd, port)
      BY <3>5, Zenon DEF SysBind, link
    <3> QED BY <2>0, <3>1, <3>2, <3>3, <3>4, <3>5, Zenon
  <2>3. nq' \in Seq(Handles)
    <3>1. CASE nq' = nq
      BY <1>0, <3>1, Zenon
    <3>2. ASSUME NEW fd \in Fds, IsOpen(tabs[p], fd),
                 nq' = Append(nq, Inode(p, fd).h)
          PROVE  nq' \in Seq(Handles)
      <4>1. Inode(p, fd).h \in Handles
        BY <1>0, <3>2, OpenRef, Zenon
      <4> QED BY <1>0, <3>2, <4>1
    <3> QED BY <2>1, <3>1, <3>2, Zenon
  <2> QED BY <1>0, <2>1, <2>3, LinkQueued, Zenon
<1>4. CASE QueueScan \/ RequestScan \/ RequestAdvertise
  BY <1>0, <1>4, RequestLinks, Zenon
<1>5. CASE RequestConnect \/ RequestDisconnect \/ UNCHANGED netVars
  <2>1. /\ UNCHANGED <<net, pub, dhcp, iface, nq>>
        /\ wq' = wq \/ wq' = Append(wq, "connect") \/ wq' = Append(wq, "disconnect")
    BY <1>5, Zenon DEF RequestConnect, RequestDisconnect, sockets, netVars
  <2>2. wq' \in Seq({"connect", "disconnect", "scan"})
    <3> DEFINE W == {"connect", "disconnect", "scan"}
    <3>1. wq \in Seq(W) /\ "connect" \in W /\ "disconnect" \in W
      BY <1>0, Zenon
    <3> HIDE DEF W
    <3>2. wq' \in Seq(W)
      BY <2>1, <3>1
    <3> QED BY <3>2, Zenon DEF W
  <2> QED BY <1>0, <2>1, <2>2, LinkQueued, Zenon
<1> QED BY <1>1, <1>2, <1>3, <1>4, <1>5, Zenon DEF NetNext

(* What the invariant says in the terms of Net.                            *)
LEMMA NetIInvSays == NetIInv => NetInv
<1> SUFFICES ASSUME NetIInv PROVE NetInv
  BY Zenon
<1>1. SocketsOK /\ LinkInv
  BY Zenon DEF NetIInv
<1>2. NetTypeOK
  <2>1. ASSUME NEW h \in Handles
        PROVE  socks[h].kind \in {"none", "tcp", "udp"}
    <3>1. socks[h] \in Sock \/ socks[h] = NoSock
      BY <1>1, Zenon DEF SocketsOK, Typed
    <3>2. CASE socks[h] \in Sock
      BY ONLY <3>2, Zenon DEF Sock
    <3>3. CASE socks[h] = NoSock
      <4>1. NoSock.kind = "none"
        BY Zenon DEF NoSock
      <4> QED BY <3>3, <4>1, Zenon
    <3> QED BY <3>1, <3>2, <3>3, Zenon
  <2>2. \A p \in Procs : Len(tabs[p]) <= MAX_OPEN_FILES
    BY <1>1, Zenon DEF SocketsOK, TabsOK, Table
  <2>3. /\ net.pc \in {"boot", "failed", "wait", "waiting", "cmds", "doing", "section"}
        /\ net.tries \in 0 .. 3
        /\ pub.status \in {"Down", "Connecting", "Connected", "Failed"}
        /\ pub.scan \in {"idle", "running", "done", "error"}
        /\ {pub.ip, iface} \subseteq {0, 1}
    BY <1>1, Zenon DEF LinkInv, LinkTypes, NetRec, PubRec
  <2>4. panic \in {"none", "connect", "drop", "removed_twice"}
    BY <1>1, Zenon DEF SocketsOK
  <2> QED BY <2>1, <2>2, <2>3, <2>4, Zenon DEF NetTypeOK
<1>3. OneOwner
  BY <1>1, Zenon DEF SocketsOK, Owned, OneOwner
<1>4. AddressAgrees
  BY <1>1 DEF LinkInv, LinkTypes, LinkOK, PubRec, AddressAgrees
<1> QED BY <1>2, <1>3, <1>4, Zenon DEF NetInv

-----------------------------------------------------------------------------
(* The theorems.                                                           *)

(* The invariant, of every state that net_task, the commands for the link  *)
(* and the socket calls reach together.                                    *)
THEOREM NetSafe == NetSpec => []NetIInv
<1>1. NetIInv /\ [NetNext]_netVars => NetIInv'
  BY SocketsStep, LinkStep, Zenon DEF NetIInv
<1> QED BY InitNet, <1>1, PTL DEF NetSpec

(* Every socket has one owner, through accept's swap, copied descriptor    *)
(* tables and processes that end; and when net_task starts a round, the    *)
(* address it shows is there exactly when it believes it has one, and is   *)
(* the interface's, whatever scans, resets and leases came before.         *)
THEOREM SocketsOwned == NetSpec => []NetInv
<1> QED BY NetSafe, NetIInvSays, PTL

(* SocketInode::drop always finds the socket it removes: that panic is     *)
(* out of reach, unlike the two of sys_socket and of a queued connect.     *)
THEOREM DropFinds == NetSpec => [](panic # "drop")
<1>1. NetIInv => panic # "drop"
  BY Zenon DEF NetIInv, SocketsOK
<1> QED BY NetSafe, <1>1, PTL

(* accept hands the established socket over whole and leaves the listener  *)
(* listening on its port; no other call or event moves a handle.           *)
THEOREM ListenerStays == NetSpec => AcceptKeepsListening
<1>1. NetIInv /\ [NetNext]_netVars => [KeepsListening]_netVars
  BY SocketsStep, Zenon DEF NetIInv
<1>2. AcceptKeepsListening <=> [][KeepsListening]_netVars
  BY PTL DEF AcceptKeepsListening, KeepsListening
<1> QED BY NetSafe, <1>1, <1>2, PTL DEF NetSpec
=============================================================================
