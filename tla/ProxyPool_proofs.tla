-------------------------- MODULE ProxyPool_proofs --------------------------
(***************************************************************************)
(* For any nodes, limits, processes and threads, with or without a state   *)
(* file: a pool counts its leases right, no process exceeds                *)
(* max_active_leases, and each process keeps the promise of Leases.        *)
(***************************************************************************)
EXTENDS ProxyPool, FiniteSetTheorems, WellFoundedInduction, TLAPS

-----------------------------------------------------------------------------
(* A set of nodes has a first one in any order the pool uses.              *)

\* A set of naturals that is not empty has a least element.
LEMMA LeastNatural ==
  ASSUME NEW T \in SUBSET Nat, T # {}
  PROVE  \E x \in T : \A y \in T : x <= y
<1> DEFINE Less == {ss \in Nat \X Nat : ss[1] < ss[2]}
<1>1. IsWellFoundedOn(Less, Nat)
  BY NatLessThanWellFounded DEF OpToRel
<1>2. PICK x \in T : \A y \in T : ~ (<<y, x>> \in Less)
  <2> HIDE DEF Less
  <2> QED BY <1>1, WFMin
<1>3. ASSUME NEW y \in T PROVE x <= y
  <2>1. ~ (<<y, x>> \in Less) BY <1>2
  <2>2. <<y, x>> \in Nat \X Nat OBVIOUS
  <2>3. ~ (y < x) BY <2>1, <2>2
  <2> QED BY <2>3
<1> QED BY <1>3

\* An element of S is least by a measure in the naturals.
LEMMA Least ==
  ASSUME NEW S, S # {}, NEW f \in [S -> Nat]
  PROVE  \E r \in S : \A q \in S : f[r] <= f[q]
<1> DEFINE T == {f[r] : r \in S}
<1>1. T \in SUBSET Nat /\ T # {} OBVIOUS
<1>2. PICK x \in T : \A y \in T : x <= y
  <2> HIDE DEF T
  <2> QED BY <1>1, LeastNatural
<1> QED BY <1>2

\* First names a node of the set (a new pool starts at one of its nodes).
LEMMA FirstIn ==
  ASSUME NEW S \in SUBSET Refs, S # {}
  PROVE  First(S) \in S
<1>1. Cardinality(Refs) \in Nat BY PoolAssumption, FS_CardinalityType
<1>2. [r \in S |-> Rank[r]] \in [S -> Nat] BY <1>1, PoolAssumption
<1>3. \E r \in S : \A q \in S : Rank[r] <= Rank[q]
  <2>1. \E r \in S : \A q \in S : [k \in S |-> Rank[k]][r] <= [k \in S |-> Rank[k]][q]
    BY <1>2, Least
  <2> QED BY <2>1
<1> QED BY <1>3 DEF First

\* From names a node of the set it searches.
LEMMA FromIn ==
  ASSUME NEW S \in SUBSET Refs, S # {}, NEW c \in Refs
  PROVE  From(c, S) \in S
<1>1. Cardinality(Refs) \in Nat /\ Cardinality(Refs) > 0
  BY PoolAssumption, FS_CardinalityType, FS_EmptySet
<1>2. \A r \in S : Away(c, r) \in Nat
  BY <1>1, PoolAssumption DEF Away
<1>3. [r \in S |-> Away(c, r)] \in [S -> Nat] BY <1>2
<1>4. \E r \in S : \A q \in S : Away(c, r) <= Away(c, q)
  <2>1. \E r \in S : \A q \in S : [k \in S |-> Away(c, k)][r] <= [k \in S |-> Away(c, k)][q]
    BY <1>3, Least
  <2> QED BY <2>1
<1> QED BY <1>4 DEF From

\* The rotation goes on to a node of the pool.
LEMMA AfterIn ==
  ASSUME NEW S \in SUBSET Refs, NEW r \in S
  PROVE  After(r, S) \in S
<1>1. CASE S = {r} BY <1>1 DEF After
<1>2. CASE S # {r}
  <2>1. S \ {r} \in SUBSET Refs /\ S \ {r} # {} BY <1>2
  <2>2. From(r, S \ {r}) \in S \ {r} BY <2>1, FromIn
  <2> QED BY <1>2, <2>2 DEF After
<1> QED BY <1>1, <1>2

-----------------------------------------------------------------------------
(* The threads of a process, and who holds a node.                         *)

LEMMA HoldersFinite ==
  ASSUME NEW p, NEW r
  PROVE  /\ IsFiniteSet(HoldersOf(p, r))
         /\ Cardinality(HoldersOf(p, r)) \in Nat
<1>1. HoldersOf(p, r) \in SUBSET Threads BY DEF HoldersOf, Mine
<1> QED BY <1>1, PoolAssumption, FS_Subset, FS_CardinalityType

\* Only the leases count: a step that leaves them alone leaves Counted alone.
LEMMA CountedKept ==
  ASSUME Counted, UNCHANGED <<active, lease>>
  PROVE  Counted'
BY DEF Counted, HoldersOf, Mine

\* No two threads of a process are inside its lock.
LEMMA OneInLock ==
  ASSUME LocksHeld, NEW t \in Threads, NEW u \in Threads,
         InLock(t), InLock(u), ProcOf[t] = ProcOf[u]
  PROVE  t = u
BY DEF LocksHeld

\* A pool has nodes, and they are enabled nodes.
LEMMA HealthyNodes ==
  ASSUME TypeOK, NEW p \in Procs
  PROVE  healthy[p] \in SUBSET Refs /\ healthy[p] # {}
BY PoolAssumption DEF TypeOK

-----------------------------------------------------------------------------
(* Every step preserves the invariant.                                     *)

\* A new pool satisfies it.
LEMMA InitIInv == Init => IInv
<1> SUFFICES ASSUME Init PROVE IInv OBVIOUS
<1> USE DEF Init
<1>1. TypeOK
  <2>1. \A p \in Procs : First(healthy[p]) \in Refs
    BY FirstIn, PoolAssumption
  <2> QED BY <2>1, PoolAssumption DEF TypeOK
<1>2. LocksHeld BY PoolAssumption DEF LocksHeld, InLock, InFlock
<1>3. LeaseWhileHolding BY DEF LeaseWhileHolding
<1>4. ChoiceFresh BY DEF ChoiceFresh
<1>5. Counted
  <2>1. \A p, r : r \in Refs => HoldersOf(p, r) = {}
    BY PoolAssumption DEF HoldersOf, Mine
  <2> QED BY <2>1, FS_EmptySet DEF Counted
<1>6. WithinLimit BY PoolAssumption DEF WithinLimit
<1> QED BY <1>1, <1>2, <1>3, <1>4, <1>5, <1>6 DEF IInv

LEMMA LockPoolKeeps ==
  ASSUME IInv, NEW t \in Threads, LockPool(t) PROVE IInv'
<1> USE DEF LockPool
<1>1. TypeOK' BY DEF IInv, TypeOK
<1>2. LocksHeld'
  <2> SUFFICES ASSUME NEW u \in Threads
               PROVE  /\ InLock(u)' <=> lock'[ProcOf[u]] = u
                      /\ InFlock(u)' <=> flock' = u
    BY DEF LocksHeld
  <2>1. LocksHeld /\ TypeOK BY DEF IInv
  <2>2. u # t => pc'[u] = pc[u] BY <2>1 DEF TypeOK
  <2>3. lock'[ProcOf[u]] = IF ProcOf[u] = ProcOf[t] THEN t ELSE lock[ProcOf[u]]
    BY <2>1, PoolAssumption DEF TypeOK
  <2>4. CASE u = t
    BY <2>1, <2>3, <2>4, PoolAssumption DEF TypeOK, LocksHeld, InLock, InFlock
  <2>5. CASE u # t
    BY <2>1, <2>2, <2>3, <2>5, PoolAssumption DEF LocksHeld, InLock, InFlock
  <2> QED BY <2>4, <2>5
<1>3. LeaseWhileHolding' BY DEF IInv, TypeOK, LeaseWhileHolding
<1>4. ChoiceFresh' BY DEF IInv, TypeOK, ChoiceFresh, Free
<1>5. Counted' BY CountedKept DEF IInv
<1>6. WithinLimit' BY DEF IInv, WithinLimit
<1> QED BY <1>1, <1>2, <1>3, <1>4, <1>5, <1>6 DEF IInv

LEMMA LockFileKeeps ==
  ASSUME IInv, NEW t \in Threads, LockFile(t) PROVE IInv'
<1> USE DEF LockFile
<1>1. TypeOK' BY DEF IInv, TypeOK
<1>2. LocksHeld'
  <2> SUFFICES ASSUME NEW u \in Threads
               PROVE  /\ InLock(u)' <=> lock'[ProcOf[u]] = u
                      /\ InFlock(u)' <=> flock' = u
    BY DEF LocksHeld
  <2>1. LocksHeld /\ TypeOK BY DEF IInv
  <2>2. u # t => pc'[u] = pc[u] BY <2>1 DEF TypeOK
  <2>3. lock' = lock
    BY <2>1, PoolAssumption DEF TypeOK
  <2>4. CASE u = t
    BY <2>1, <2>3, <2>4, PoolAssumption DEF TypeOK, LocksHeld, InLock, InFlock
  <2>5. CASE u # t
    BY <2>1, <2>2, <2>3, <2>5, PoolAssumption DEF LocksHeld, InLock, InFlock
  <2> QED BY <2>4, <2>5
<1>3. LeaseWhileHolding' BY DEF IInv, TypeOK, LeaseWhileHolding
<1>4. ChoiceFresh' BY DEF IInv, TypeOK, ChoiceFresh, Free
<1>5. Counted' BY CountedKept DEF IInv
<1>6. WithinLimit' BY DEF IInv, WithinLimit
<1> QED BY <1>1, <1>2, <1>3, <1>4, <1>5, <1>6 DEF IInv

LEMMA ChooseKeeps ==
  ASSUME IInv, NEW t \in Threads, Choose(t) PROVE IInv'
<1> USE DEF Choose
<1> DEFINE p == ProcOf[t]
<1>1. p \in Procs BY PoolAssumption
<1>2. Free(p) \in SUBSET Refs /\ Free(p) # {}
  BY <1>1, HealthyNodes DEF IInv, Free
<1>3. Position(p) \in Refs
  BY <1>1, HealthyNodes, FirstIn DEF IInv, TypeOK, Position
<1>4. From(Position(p), Free(p)) \in Free(p) BY <1>2, <1>3, FromIn
<1>5. TypeOK' BY <1>2, <1>4 DEF IInv, TypeOK
<1>6. LocksHeld'
  <2> SUFFICES ASSUME NEW u \in Threads
               PROVE  /\ InLock(u)' <=> lock'[ProcOf[u]] = u
                      /\ InFlock(u)' <=> flock' = u
    BY DEF LocksHeld
  <2>1. LocksHeld /\ TypeOK BY DEF IInv
  <2>2. u # t => pc'[u] = pc[u] BY <2>1 DEF TypeOK
  <2>3. lock' = lock
    BY <2>1, PoolAssumption DEF TypeOK
  <2>4. CASE u = t
    BY <2>1, <2>3, <2>4, PoolAssumption DEF TypeOK, LocksHeld, InLock, InFlock
  <2>5. CASE u # t
    BY <2>1, <2>2, <2>3, <2>5, PoolAssumption DEF LocksHeld, InLock, InFlock
  <2> QED BY <2>4, <2>5
<1>7. LeaseWhileHolding' BY DEF IInv, TypeOK, LeaseWhileHolding
<1>8. ChoiceFresh' BY <1>4 DEF IInv, TypeOK, ChoiceFresh, Free
<1>9. Counted' BY CountedKept DEF IInv
<1>10. WithinLimit' BY DEF IInv, WithinLimit
<1> QED BY <1>5, <1>6, <1>7, <1>8, <1>9, <1>10 DEF IInv

LEMMA RefuseKeeps ==
  ASSUME IInv, NEW t \in Threads, Refuse(t) PROVE IInv'
<1> USE DEF Refuse, Unlock
<1>1. TypeOK' BY DEF IInv, TypeOK
<1>2. LocksHeld'
  <2> SUFFICES ASSUME NEW u \in Threads
               PROVE  /\ InLock(u)' <=> lock'[ProcOf[u]] = u
                      /\ InFlock(u)' <=> flock' = u
    BY DEF LocksHeld
  <2>1. LocksHeld /\ TypeOK BY DEF IInv
  <2>2. u # t => pc'[u] = pc[u] BY <2>1 DEF TypeOK
  <2>3. lock'[ProcOf[u]] = IF ProcOf[u] = ProcOf[t] THEN NoThread ELSE lock[ProcOf[u]]
    BY <2>1, PoolAssumption DEF TypeOK
  <2>4. CASE u = t
    BY <2>1, <2>3, <2>4, PoolAssumption DEF TypeOK, LocksHeld, InLock, InFlock
  <2>5. CASE u # t
    BY <2>1, <2>2, <2>3, <2>5, PoolAssumption DEF LocksHeld, InLock, InFlock
  <2> QED BY <2>4, <2>5
<1>3. LeaseWhileHolding' BY DEF IInv, TypeOK, LeaseWhileHolding
<1>4. ChoiceFresh' BY DEF IInv, TypeOK, ChoiceFresh, Free
<1>5. Counted' BY CountedKept DEF IInv
<1>6. WithinLimit' BY DEF IInv, WithinLimit
<1> QED BY <1>1, <1>2, <1>3, <1>4, <1>5, <1>6 DEF IInv

LEMMA WriteCursorKeeps ==
  ASSUME IInv, NEW t \in Threads, WriteCursor(t) PROVE IInv'
<1> USE DEF WriteCursor
<1> DEFINE p == ProcOf[t]
<1>1. p \in Procs BY PoolAssumption
<1>2. healthy[p] \in SUBSET Refs BY <1>1, HealthyNodes DEF IInv
<1>3. pick[t] \in healthy[p] BY DEF IInv, ChoiceFresh, Free
<1>4. After(pick[t], healthy[p]) \in Refs BY <1>2, <1>3, AfterIn
<1>5. TypeOK' BY <1>2, <1>3, <1>4 DEF IInv, TypeOK
<1>6. LocksHeld'
  <2> SUFFICES ASSUME NEW u \in Threads
               PROVE  /\ InLock(u)' <=> lock'[ProcOf[u]] = u
                      /\ InFlock(u)' <=> flock' = u
    BY DEF LocksHeld
  <2>1. LocksHeld /\ TypeOK BY DEF IInv
  <2>2. u # t => pc'[u] = pc[u] BY <2>1 DEF TypeOK
  <2>3. lock' = lock
    BY <2>1, PoolAssumption DEF TypeOK
  <2>4. CASE u = t
    BY <2>1, <2>3, <2>4, PoolAssumption DEF TypeOK, LocksHeld, InLock, InFlock
  <2>5. CASE u # t
    BY <2>1, <2>2, <2>3, <2>5, PoolAssumption DEF LocksHeld, InLock, InFlock
  <2> QED BY <2>4, <2>5
<1>7. LeaseWhileHolding' BY DEF IInv, TypeOK, LeaseWhileHolding
<1>8. ChoiceFresh' BY DEF IInv, TypeOK, ChoiceFresh, Free
<1>9. Counted' BY CountedKept DEF IInv
<1>10. WithinLimit' BY DEF IInv, WithinLimit
<1> QED BY <1>5, <1>6, <1>7, <1>8, <1>9, <1>10 DEF IInv

LEMMA WriteFailsKeeps ==
  ASSUME IInv, NEW t \in Threads, WriteFails(t) PROVE IInv'
<1> USE DEF WriteFails, Unlock
<1>1. TypeOK' BY DEF IInv, TypeOK
<1>2. LocksHeld'
  <2> SUFFICES ASSUME NEW u \in Threads
               PROVE  /\ InLock(u)' <=> lock'[ProcOf[u]] = u
                      /\ InFlock(u)' <=> flock' = u
    BY DEF LocksHeld
  <2>1. LocksHeld /\ TypeOK BY DEF IInv
  <2>2. u # t => pc'[u] = pc[u] BY <2>1 DEF TypeOK
  <2>3. lock'[ProcOf[u]] = IF ProcOf[u] = ProcOf[t] THEN NoThread ELSE lock[ProcOf[u]]
    BY <2>1, PoolAssumption DEF TypeOK
  <2>4. CASE u = t
    BY <2>1, <2>3, <2>4, PoolAssumption DEF TypeOK, LocksHeld, InLock, InFlock
  <2>5. CASE u # t
    BY <2>1, <2>2, <2>3, <2>5, PoolAssumption DEF LocksHeld, InLock, InFlock
  <2> QED BY <2>4, <2>5
<1>3. LeaseWhileHolding' BY DEF IInv, TypeOK, LeaseWhileHolding
<1>4. ChoiceFresh' BY DEF IInv, TypeOK, ChoiceFresh, Free
<1>5. Counted' BY CountedKept DEF IInv
<1>6. WithinLimit' BY DEF IInv, WithinLimit
<1> QED BY <1>1, <1>2, <1>3, <1>4, <1>5, <1>6 DEF IInv

\* The one step that adds a lease, and to the count of its node.
LEMMA GrantKeeps ==
  ASSUME IInv, NEW t \in Threads, Grant(t) PROVE IInv'
<1> USE DEF Grant, Unlock
<1> DEFINE p == ProcOf[t]
           r == pick[t]
<1>1. p \in Procs BY PoolAssumption
<1>2. healthy[p] \in SUBSET Refs BY <1>1, HealthyNodes DEF IInv
<1>3. r \in healthy[p] /\ r \in Refs /\ active[p][r] < Limit[r]
  BY <1>2 DEF IInv, ChoiceFresh, Free
<1>4. After(r, healthy[p]) \in Refs BY <1>2, <1>3, AfterIn
<1>5. TypeOK' BY <1>1, <1>2, <1>3, <1>4 DEF IInv, TypeOK
<1>6. LocksHeld'
  <2> SUFFICES ASSUME NEW u \in Threads
               PROVE  /\ InLock(u)' <=> lock'[ProcOf[u]] = u
                      /\ InFlock(u)' <=> flock' = u
    BY DEF LocksHeld
  <2>1. LocksHeld /\ TypeOK BY DEF IInv
  <2>2. u # t => pc'[u] = pc[u] BY <2>1 DEF TypeOK
  <2>3. lock'[ProcOf[u]] = IF ProcOf[u] = ProcOf[t] THEN NoThread ELSE lock[ProcOf[u]]
    BY <2>1, PoolAssumption DEF TypeOK
  <2>4. CASE u = t
    BY <2>1, <2>3, <2>4, PoolAssumption DEF TypeOK, LocksHeld, InLock, InFlock
  <2>5. CASE u # t
    BY <2>1, <2>2, <2>3, <2>5, PoolAssumption DEF LocksHeld, InLock, InFlock
  <2> QED BY <2>4, <2>5
<1>7. lease[t] = NoRef BY DEF IInv, LeaseWhileHolding
<1>8. LeaseWhileHolding'
  BY <1>2, <1>3, PoolAssumption DEF IInv, TypeOK, LeaseWhileHolding
<1>9. ChoiceFresh'
  <2> SUFFICES ASSUME NEW u \in Threads
               PROVE  /\ pc'[u] \in {"writing", "granting"} => pick'[u] \in Free(ProcOf[u])'
                      /\ pc'[u] = "returning" => seen'[u] = active'[ProcOf[u]][lease'[u]]
    BY DEF ChoiceFresh
  <2>1. CASE u = t BY <2>1 DEF IInv, TypeOK
  <2>2. CASE u # t /\ ~ InLock(u)
    BY <2>2 DEF IInv, TypeOK, InLock
  <2>3. CASE u # t /\ InLock(u)
    <3>1. ProcOf[u] # p BY <2>3, OneInLock DEF IInv, InLock
    <3>2. ProcOf[u] \in Procs BY PoolAssumption
    <3>3. active'[ProcOf[u]] = active[ProcOf[u]] BY <3>1, <3>2 DEF IInv, TypeOK
    <3> QED BY <2>3, <3>3 DEF IInv, TypeOK, ChoiceFresh, Free
  <2> QED BY <2>1, <2>2, <2>3
<1>10. Counted'
  <2> SUFFICES ASSUME NEW q \in Procs, NEW k \in Refs
               PROVE  active'[q][k] = Cardinality(HoldersOf(q, k)')
    BY DEF Counted
  <2>1. active[q][k] = Cardinality(HoldersOf(q, k)) BY DEF IInv, Counted
  <2>2. CASE q = p /\ k = r
    <3>1. HoldersOf(q, k)' = HoldersOf(q, k) \cup {t}
      BY <2>2 DEF HoldersOf, Mine, IInv, TypeOK
    <3>2. t \notin HoldersOf(q, k)
      BY <1>7, PoolAssumption DEF HoldersOf
    <3>3. Cardinality(HoldersOf(q, k)') = Cardinality(HoldersOf(q, k)) + 1
      BY <3>1, <3>2, HoldersFinite, FS_AddElement
    <3>4. active'[q][k] = active[q][k] + 1
      BY <2>2 DEF IInv, TypeOK
    <3> QED BY <2>1, <3>3, <3>4
  <2>3. CASE ~ (q = p /\ k = r)
    <3>1. HoldersOf(q, k)' = HoldersOf(q, k)
      BY <2>3, <1>7, PoolAssumption DEF HoldersOf, Mine, IInv, TypeOK
    <3>2. active'[q][k] = active[q][k]
      BY <2>3 DEF IInv, TypeOK
    <3> QED BY <2>1, <3>1, <3>2
  <2> QED BY <2>2, <2>3
<1>11. WithinLimit'
  <2> SUFFICES ASSUME NEW q \in Procs, NEW k \in Refs
               PROVE  active'[q][k] <= Limit[k]
    BY DEF WithinLimit
  <2>1. active[q][k] \in Nat /\ Limit[k] \in Nat /\ active[q][k] <= Limit[k]
    BY PoolAssumption DEF IInv, TypeOK, WithinLimit
  <2>2. active'[q][k] = IF q = p /\ k = r THEN active[q][k] + 1 ELSE active[q][k]
    BY DEF IInv, TypeOK
  <2> QED BY <1>3, <2>1, <2>2
<1> QED BY <1>5, <1>6, <1>8, <1>9, <1>10, <1>11 DEF IInv

LEMMA ReadActiveKeeps ==
  ASSUME IInv, NEW t \in Threads, ReadActive(t) PROVE IInv'
<1> USE DEF ReadActive
<1>1. ProcOf[t] \in Procs /\ lease[t] \in Refs
  BY PoolAssumption DEF IInv, TypeOK, LeaseWhileHolding
<1>2. TypeOK' BY <1>1 DEF IInv, TypeOK
<1>3. LocksHeld'
  <2> SUFFICES ASSUME NEW u \in Threads
               PROVE  /\ InLock(u)' <=> lock'[ProcOf[u]] = u
                      /\ InFlock(u)' <=> flock' = u
    BY DEF LocksHeld
  <2>1. LocksHeld /\ TypeOK BY DEF IInv
  <2>2. u # t => pc'[u] = pc[u] BY <2>1 DEF TypeOK
  <2>3. lock'[ProcOf[u]] = IF ProcOf[u] = ProcOf[t] THEN t ELSE lock[ProcOf[u]]
    BY <2>1, PoolAssumption DEF TypeOK
  <2>4. CASE u = t
    BY <2>1, <2>3, <2>4, PoolAssumption DEF TypeOK, LocksHeld, InLock, InFlock
  <2>5. CASE u # t
    BY <2>1, <2>2, <2>3, <2>5, PoolAssumption DEF LocksHeld, InLock, InFlock
  <2> QED BY <2>4, <2>5
<1>4. LeaseWhileHolding' BY DEF IInv, TypeOK, LeaseWhileHolding
<1>5. ChoiceFresh' BY DEF IInv, TypeOK, ChoiceFresh, Free
<1>6. Counted' BY CountedKept DEF IInv
<1>7. WithinLimit' BY DEF IInv, WithinLimit
<1> QED BY <1>2, <1>3, <1>4, <1>5, <1>6, <1>7 DEF IInv

\* A thread that holds a node is counted there.
LEMMA HeldIsCounted ==
  ASSUME IInv, NEW t \in Threads, lease[t] # NoRef
  PROVE  /\ ProcOf[t] \in Procs /\ lease[t] \in Refs
         /\ active[ProcOf[t]][lease[t]] >= 1
<1> DEFINE p == ProcOf[t]
           r == lease[t]
<1>1. p \in Procs /\ r \in Refs BY PoolAssumption DEF IInv, TypeOK
<1>2. t \in HoldersOf(p, r) BY DEF HoldersOf, Mine
<1>3. Cardinality(HoldersOf(p, r)) \in Nat /\ Cardinality(HoldersOf(p, r)) # 0
  BY <1>2, HoldersFinite, FS_EmptySet
<1> QED BY <1>1, <1>3 DEF IInv, Counted

\* The one step that takes a lease back.
LEMMA WriteActiveKeeps ==
  ASSUME IInv, NEW t \in Threads, WriteActive(t) PROVE IInv'
<1> USE DEF WriteActive
<1> DEFINE p == ProcOf[t]
           r == lease[t]
<1>1. r # NoRef BY DEF IInv, LeaseWhileHolding
<1>2. p \in Procs /\ r \in Refs /\ active[p][r] >= 1 /\ active[p][r] \in Nat
  BY <1>1, HeldIsCounted DEF IInv, TypeOK
<1>3. seen[t] = active[p][r] BY DEF IInv, ChoiceFresh
<1>4. TypeOK' BY <1>2, <1>3 DEF IInv, TypeOK
<1>5. LocksHeld'
  <2> SUFFICES ASSUME NEW u \in Threads
               PROVE  /\ InLock(u)' <=> lock'[ProcOf[u]] = u
                      /\ InFlock(u)' <=> flock' = u
    BY DEF LocksHeld
  <2>1. LocksHeld /\ TypeOK BY DEF IInv
  <2>2. u # t => pc'[u] = pc[u] BY <2>1 DEF TypeOK
  <2>3. lock'[ProcOf[u]] = IF ProcOf[u] = ProcOf[t] THEN NoThread ELSE lock[ProcOf[u]]
    BY <2>1, PoolAssumption DEF TypeOK
  <2>4. CASE u = t
    BY <2>1, <2>3, <2>4, PoolAssumption DEF TypeOK, LocksHeld, InLock, InFlock
  <2>5. CASE u # t
    BY <2>1, <2>2, <2>3, <2>5, PoolAssumption DEF LocksHeld, InLock, InFlock
  <2> QED BY <2>4, <2>5
<1>6. LeaseWhileHolding' BY PoolAssumption DEF IInv, TypeOK, LeaseWhileHolding
<1>7. ChoiceFresh'
  <2> SUFFICES ASSUME NEW u \in Threads
               PROVE  /\ pc'[u] \in {"writing", "granting"} => pick'[u] \in Free(ProcOf[u])'
                      /\ pc'[u] = "returning" => seen'[u] = active'[ProcOf[u]][lease'[u]]
    BY DEF ChoiceFresh
  <2>1. CASE u = t BY <2>1 DEF IInv, TypeOK
  <2>2. CASE u # t /\ ~ InLock(u)
    BY <2>2 DEF IInv, TypeOK, InLock
  <2>3. CASE u # t /\ InLock(u)
    <3>1. ProcOf[u] # p BY <2>3, OneInLock DEF IInv, InLock
    <3>2. ProcOf[u] \in Procs BY PoolAssumption
    <3>3. active'[ProcOf[u]] = active[ProcOf[u]] BY <3>1, <3>2 DEF IInv, TypeOK
    <3> QED BY <2>3, <3>3 DEF IInv, TypeOK, ChoiceFresh, Free
  <2> QED BY <2>1, <2>2, <2>3
<1>8. Counted'
  <2> SUFFICES ASSUME NEW q \in Procs, NEW k \in Refs
               PROVE  active'[q][k] = Cardinality(HoldersOf(q, k)')
    BY DEF Counted
  <2>1. active[q][k] = Cardinality(HoldersOf(q, k)) BY DEF IInv, Counted
  <2>2. CASE q = p /\ k = r
    <3>1. HoldersOf(q, k)' = HoldersOf(q, k) \ {t}
      BY <2>2, <1>2, PoolAssumption DEF HoldersOf, Mine, IInv, TypeOK
    <3>2. t \in HoldersOf(q, k) BY <2>2 DEF HoldersOf, Mine
    <3>3. Cardinality(HoldersOf(q, k)') = Cardinality(HoldersOf(q, k)) - 1
      BY <3>1, <3>2, HoldersFinite, FS_RemoveElement
    <3>4. active'[q][k] = active[q][k] - 1
      BY <2>2, <1>3 DEF IInv, TypeOK
    <3> QED BY <2>1, <3>3, <3>4
  <2>3. CASE ~ (q = p /\ k = r)
    <3>1. HoldersOf(q, k)' = HoldersOf(q, k)
      BY <2>3, PoolAssumption DEF HoldersOf, Mine, IInv, TypeOK
    <3>2. active'[q][k] = active[q][k]
      BY <2>3 DEF IInv, TypeOK
    <3> QED BY <2>1, <3>1, <3>2
  <2> QED BY <2>2, <2>3
<1>9. WithinLimit'
  <2> SUFFICES ASSUME NEW q \in Procs, NEW k \in Refs
               PROVE  active'[q][k] <= Limit[k]
    BY DEF WithinLimit
  <2>1. active[q][k] \in Nat /\ Limit[k] \in Nat /\ active[q][k] <= Limit[k]
    BY PoolAssumption DEF IInv, TypeOK, WithinLimit
  <2>2. active'[q][k] = IF q = p /\ k = r THEN active[q][k] - 1 ELSE active[q][k]
    BY <1>3 DEF IInv, TypeOK
  <2> QED BY <2>1, <2>2
<1> QED BY <1>4, <1>5, <1>6, <1>7, <1>8, <1>9 DEF IInv

\* A crash, at any step, of one process.
LEMMA RestartKeeps ==
  ASSUME IInv, NEW p \in Procs, Restart(p) PROVE IInv'
<1> USE DEF Restart
<1>1. PICK S \in HealthySets :
        /\ healthy' = [healthy EXCEPT ![p] = S]
        /\ cursor' = [cursor EXCEPT ![p] = First(S)]
  OBVIOUS
<1>2. First(S) \in Refs BY FirstIn, PoolAssumption
<1>3. \A u \in Threads :
        /\ u \in Mine(p) => /\ pc'[u] = "idle" /\ pick'[u] = NoRef
                            /\ seen'[u] = 0 /\ lease'[u] = NoRef
        /\ u \notin Mine(p) => /\ pc'[u] = pc[u] /\ pick'[u] = pick[u]
                               /\ seen'[u] = seen[u] /\ lease'[u] = lease[u]
  OBVIOUS
<1>4. \A u \in Threads : ProcOf[u] \in Procs /\ (u \in Mine(p) <=> ProcOf[u] = p)
  BY PoolAssumption DEF Mine
<1>5. TypeOK' BY <1>1, <1>2, <1>3, PoolAssumption DEF IInv, TypeOK
<1>6. LocksHeld'
  <2> SUFFICES ASSUME NEW u \in Threads
               PROVE  /\ InLock(u)' <=> lock'[ProcOf[u]] = u
                      /\ InFlock(u)' <=> flock' = u
    BY DEF LocksHeld
  <2>1. LocksHeld /\ TypeOK BY DEF IInv
  <2>2. lock'[ProcOf[u]] = IF ProcOf[u] = p THEN NoThread ELSE lock[ProcOf[u]]
    BY <1>4, <2>1 DEF TypeOK
  <2>3. CASE ProcOf[u] = p
    BY <1>3, <1>4, <2>2, <2>3, PoolAssumption DEF InLock, InFlock
  <2>4. CASE ProcOf[u] # p
    BY <1>3, <1>4, <2>1, <2>2, <2>4, PoolAssumption DEF LocksHeld, InLock, InFlock
  <2> QED BY <2>3, <2>4
<1>7. LeaseWhileHolding'
  <2> SUFFICES ASSUME NEW u \in Threads
               PROVE  /\ pc'[u] \in {"holding", "returning"} <=> lease'[u] # NoRef
                      /\ lease'[u] # NoRef => lease'[u] \in healthy'[ProcOf[u]]
    BY DEF LeaseWhileHolding
  <2>1. CASE ProcOf[u] = p BY <1>3, <1>4, <2>1
  <2>2. CASE ProcOf[u] # p
    BY <1>1, <1>3, <1>4, <2>2 DEF IInv, TypeOK, LeaseWhileHolding
  <2> QED BY <2>1, <2>2
<1>8. ChoiceFresh'
  <2> SUFFICES ASSUME NEW u \in Threads
               PROVE  /\ pc'[u] \in {"writing", "granting"} => pick'[u] \in Free(ProcOf[u])'
                      /\ pc'[u] = "returning" => seen'[u] = active'[ProcOf[u]][lease'[u]]
    BY DEF ChoiceFresh
  <2>1. CASE ProcOf[u] = p BY <1>3, <1>4, <2>1
  <2>2. CASE ProcOf[u] # p
    <3>1. active'[ProcOf[u]] = active[ProcOf[u]] /\ healthy'[ProcOf[u]] = healthy[ProcOf[u]]
      BY <1>1, <1>4, <2>2 DEF IInv, TypeOK
    <3> QED BY <1>3, <1>4, <2>2, <3>1 DEF IInv, ChoiceFresh, Free
  <2> QED BY <2>1, <2>2
<1>9. \A q \in Procs, k \in Refs :
        active'[q][k] = IF q = p THEN 0 ELSE active[q][k]
  BY DEF IInv, TypeOK
<1>10. Counted'
  <2> SUFFICES ASSUME NEW q \in Procs, NEW k \in Refs
               PROVE  active'[q][k] = Cardinality(HoldersOf(q, k)')
    BY DEF Counted
  <2>1. CASE q = p
    <3>1. HoldersOf(q, k)' = {}
      BY <1>3, <2>1, PoolAssumption DEF HoldersOf, Mine
    <3> QED BY <1>9, <2>1, <3>1, FS_EmptySet
  <2>2. CASE q # p
    <3>1. HoldersOf(q, k)' = HoldersOf(q, k)
      BY <1>3, <1>4, <2>2 DEF HoldersOf, Mine
    <3> QED BY <1>9, <2>2, <3>1 DEF IInv, Counted
  <2> QED BY <2>1, <2>2
<1>11. WithinLimit'
  BY <1>9, PoolAssumption DEF IInv, WithinLimit
<1> QED BY <1>5, <1>6, <1>7, <1>8, <1>10, <1>11 DEF IInv

LEMMA StutterKeeps == ASSUME IInv, UNCHANGED vars PROVE IInv'
<1> USE DEF vars
<1>1. TypeOK' BY DEF IInv, TypeOK
<1>2. LocksHeld' BY DEF IInv, LocksHeld, InLock, InFlock
<1>3. LeaseWhileHolding' BY DEF IInv, LeaseWhileHolding
<1>4. ChoiceFresh' BY DEF IInv, ChoiceFresh, Free
<1>5. Counted' BY CountedKept DEF IInv
<1>6. WithinLimit' BY DEF IInv, WithinLimit
<1> QED BY <1>1, <1>2, <1>3, <1>4, <1>5, <1>6 DEF IInv

\* The invariant of the pool holds in every state any processes can reach
\* (proxy_pool.py: acquire, release, and a process that dies in either).
THEOREM PoolInvariance == Spec => []IInv
<1>1. ASSUME IInv, [Next]_vars PROVE IInv'
  <2>1. ASSUME NEW t \in Threads, LockPool(t) PROVE IInv' BY <1>1, <2>1, LockPoolKeeps
  <2>2. ASSUME NEW t \in Threads, LockFile(t) PROVE IInv' BY <1>1, <2>2, LockFileKeeps
  <2>3. ASSUME NEW t \in Threads, Choose(t) PROVE IInv' BY <1>1, <2>3, ChooseKeeps
  <2>4. ASSUME NEW t \in Threads, Refuse(t) PROVE IInv' BY <1>1, <2>4, RefuseKeeps
  <2>5. ASSUME NEW t \in Threads, WriteCursor(t) PROVE IInv' BY <1>1, <2>5, WriteCursorKeeps
  <2>6. ASSUME NEW t \in Threads, WriteFails(t) PROVE IInv' BY <1>1, <2>6, WriteFailsKeeps
  <2>7. ASSUME NEW t \in Threads, Grant(t) PROVE IInv' BY <1>1, <2>7, GrantKeeps
  <2>8. ASSUME NEW t \in Threads, ReadActive(t) PROVE IInv' BY <1>1, <2>8, ReadActiveKeeps
  <2>9. ASSUME NEW t \in Threads, WriteActive(t) PROVE IInv' BY <1>1, <2>9, WriteActiveKeeps
  <2>10. ASSUME NEW p \in Procs, Restart(p) PROVE IInv' BY <1>1, <2>10, RestartKeeps
  <2>11. CASE UNCHANGED vars BY <1>1, <2>11, StutterKeeps
  <2> QED
    BY <1>1, <2>1, <2>2, <2>3, <2>4, <2>5, <2>6, <2>7, <2>8, <2>9, <2>10, <2>11 DEF Next
<1> QED BY InitIInv, <1>1, PTL DEF Spec

\* max_active_leases: no process ever has more leases of a node than it allows
\* (proxy_pool.py:126).
THEOREM LeasesWithinLimit == Spec => []WithinLimit
<1>1. IInv => WithinLimit BY DEF IInv
<1> QED BY <1>1, PoolInvariance, PTL

-----------------------------------------------------------------------------
(* Each process keeps the promise of Leases.                               *)

\* The holders the promise counts are the ones _active counts.
LEMMA PromiseRoom ==
  ASSUME IInv, NEW p \in Procs, NEW r \in Refs
  PROVE  Promise(p)!HasRoom(r) <=> active[p][r] < Limit[r]
<1>1. {t \in Mine(p) : [u \in Mine(p) |-> lease[u]][t] = r} = HoldersOf(p, r)
  BY DEF HoldersOf
<1>2. active[p][r] = Cardinality(HoldersOf(p, r)) BY DEF IInv, Counted
<1>3. Promise(p)!Cardinality(HoldersOf(p, r)) = Cardinality(HoldersOf(p, r))
  BY DEF Promise!Cardinality, Cardinality
<1> QED BY <1>1, <1>2, <1>3 DEF Promise!HasRoom, Promise!Holding

LEMMA PromiseInit == ASSUME Init, NEW p \in Procs PROVE Promise(p)!LeaseInit
<1>1. Mine(p) \subseteq Threads BY DEF Mine
<1> QED BY <1>1 DEF Init, Promise!LeaseInit

\* A step that leaves the leases and the nodes alone is no step of the promise.
LEMMA PromiseStutter ==
  ASSUME NEW p \in Procs, UNCHANGED <<healthy, lease>>
  PROVE  [Promise(p)!LeaseNext]_(Promise(p)!leaseVars)
BY DEF Promise!leaseVars, Mine

\* The end of acquire is a lease of the process, and no step of another.
LEMMA PromiseGrant ==
  ASSUME IInv, NEW t \in Threads, Grant(t), NEW p \in Procs
  PROVE  [Promise(p)!LeaseNext]_(Promise(p)!leaseVars)
<1> USE DEF Grant
<1>1. CASE ProcOf[t] = p
  <2>1. t \in Mine(p) BY <1>1 DEF Mine
  <2>2. healthy[p] \in SUBSET Refs BY HealthyNodes DEF IInv
  <2>3. pick[t] \in healthy[p] /\ pick[t] \in Refs /\ active[p][pick[t]] < Limit[pick[t]]
    BY <1>1, <2>2 DEF IInv, ChoiceFresh, Free
  <2>4. Promise(p)!HasRoom(pick[t]) BY <2>3, PromiseRoom
  <2>5. lease[t] = NoRef BY DEF IInv, LeaseWhileHolding
  <2>6. [u \in Mine(p) |-> lease'[u]]
          = [[u \in Mine(p) |-> lease[u]] EXCEPT ![t] = pick[t]]
    BY <2>1 DEF IInv, TypeOK, Mine
  <2>7. Promise(p)!Lease(t)
    BY <2>1, <2>3, <2>4, <2>5, <2>6 DEF Promise!Lease, Mine
  <2> QED BY <2>1, <2>7 DEF Promise!LeaseNext
<1>2. CASE ProcOf[t] # p
  <2>1. [u \in Mine(p) |-> lease'[u]] = [u \in Mine(p) |-> lease[u]]
    BY <1>2 DEF IInv, TypeOK, Mine
  <2> QED BY <2>1 DEF Promise!leaseVars, Mine
<1> QED BY <1>1, <1>2

\* The end of release gives the lease back.
LEMMA PromiseReturn ==
  ASSUME IInv, NEW t \in Threads, WriteActive(t), NEW p \in Procs
  PROVE  [Promise(p)!LeaseNext]_(Promise(p)!leaseVars)
<1> USE DEF WriteActive
<1>1. CASE ProcOf[t] = p
  <2>1. t \in Mine(p) BY <1>1 DEF Mine
  <2>2. [u \in Mine(p) |-> lease'[u]]
          = [[u \in Mine(p) |-> lease[u]] EXCEPT ![t] = NoRef]
    BY <2>1 DEF IInv, TypeOK, Mine
  <2>3. Promise(p)!Return(t) BY <2>1, <2>2 DEF Promise!Return, Mine
  <2> QED BY <2>1, <2>3 DEF Promise!LeaseNext
<1>2. CASE ProcOf[t] # p
  <2>1. [u \in Mine(p) |-> lease'[u]] = [u \in Mine(p) |-> lease[u]]
    BY <1>2 DEF IInv, TypeOK, Mine
  <2> QED BY <2>1 DEF Promise!leaseVars, Mine
<1> QED BY <1>1, <1>2

\* A crash ends the leases of its process, and of no other.
LEMMA PromiseRestart ==
  ASSUME IInv, NEW q \in Procs, Restart(q), NEW p \in Procs
  PROVE  [Promise(p)!LeaseNext]_(Promise(p)!leaseVars)
<1> USE DEF Restart
<1>1. \A u \in Threads : lease'[u] = IF u \in Mine(q) THEN NoRef ELSE lease[u]
  OBVIOUS
<1>2. \A u \in Mine(p) : u \in Threads /\ (u \in Mine(q) <=> p = q) BY DEF Mine
<1>3. Mine(p)' = Mine(p) BY DEF Mine
<1>4. CASE p = q
  <2>1. healthy'[p] \in HealthySets BY <1>4 DEF IInv, TypeOK
  <2>2. [u \in Mine(p) |-> lease'[u]] = [u \in Mine(p) |-> NoRef]
    BY <1>1, <1>2, <1>4
  <2>3. Promise(p)!Restart BY <1>3, <2>1, <2>2 DEF Promise!Restart
  <2> QED BY <2>3 DEF Promise!LeaseNext
<1>5. CASE p # q
  <2>1. healthy'[p] = healthy[p] BY <1>5 DEF IInv, TypeOK
  <2>2. [u \in Mine(p) |-> lease'[u]] = [u \in Mine(p) |-> lease[u]]
    BY <1>1, <1>2, <1>5
  <2> QED BY <1>3, <2>1, <2>2 DEF Promise!leaseVars
<1> QED BY <1>4, <1>5

\* The locked, counted pool of proxy_pool.py implements, for every process, the
\* pool that leases in one step and never beyond a limit.
THEOREM PoolImplements == Spec => PoolKeepsPromise
<1> DEFINE Step == \A p \in Procs : [Promise(p)!LeaseNext]_(Promise(p)!leaseVars)
<1>1. Init => \A p \in Procs : Promise(p)!LeaseInit BY PromiseInit
<1>2. ASSUME IInv, [Next]_vars PROVE Step
  <2>1. ASSUME UNCHANGED <<healthy, lease>> PROVE Step BY <2>1, PromiseStutter
  <2>2. ASSUME NEW t \in Threads,
               \/ LockPool(t) \/ LockFile(t) \/ Choose(t) \/ Refuse(t)
               \/ WriteCursor(t) \/ WriteFails(t) \/ ReadActive(t)
        PROVE  Step
    BY <2>1, <2>2 DEF LockPool, LockFile, Choose, Refuse, WriteCursor, WriteFails, ReadActive
  <2>3. ASSUME NEW t \in Threads, Grant(t) PROVE Step BY <1>2, <2>3, PromiseGrant
  <2>4. ASSUME NEW t \in Threads, WriteActive(t) PROVE Step BY <1>2, <2>4, PromiseReturn
  <2>5. ASSUME NEW q \in Procs, Restart(q) PROVE Step BY <1>2, <2>5, PromiseRestart
  <2>6. CASE UNCHANGED vars BY <2>1, <2>6 DEF vars
  <2> HIDE DEF Step
  <2> QED BY <1>2, <2>2, <2>3, <2>4, <2>5, <2>6 DEF Next
<1>3. Step => [Step]_vars OBVIOUS
<1> HIDE DEF Step
<1>4. Spec => (\A p \in Procs : Promise(p)!LeaseInit) /\ [][Step]_vars
  BY <1>1, <1>2, <1>3, PoolInvariance, PTL DEF Spec
<1> QED BY <1>4 DEF PoolKeepsPromise, Step

-----------------------------------------------------------------------------
(* The rotation.  Going round from c, the nodes come in the order of Away; *)
(* started at the node after c, in the same order with c last.             *)

\* A difference of two ranks is brought into the round by adding one round at
\* most.
LEMMA RoundOnce ==
  ASSUME NEW N \in Nat, NEW x \in Int, -N < x, x < N
  PROVE  x % N = IF x >= 0 THEN x ELSE x + N
OBVIOUS

\* A node is less than one round away from any other, and away from itself not.
LEMMA AwayIs ==
  ASSUME NEW c \in Refs, NEW r \in Refs
  PROVE  /\ Cardinality(Refs) \in Nat
         /\ Rank[c] \in Nat /\ Rank[c] < Cardinality(Refs)
         /\ Rank[r] \in Nat /\ Rank[r] < Cardinality(Refs)
         /\ Rank[r] = Rank[c] => r = c
         /\ Away(c, r) = IF Rank[r] >= Rank[c] THEN Rank[r] - Rank[c]
                         ELSE Rank[r] - Rank[c] + Cardinality(Refs)
<1> DEFINE N == Cardinality(Refs)
<1>1. N \in Nat BY PoolAssumption, FS_CardinalityType
<1>2. Rank[c] \in 0..N - 1 /\ Rank[r] \in 0..N - 1 BY PoolAssumption
<1>3. Rank[r] = Rank[c] => r = c BY PoolAssumption
<1> HIDE DEF N
<1>4. Rank[r] - Rank[c] \in Int /\ -N < Rank[r] - Rank[c] /\ Rank[r] - Rank[c] < N
  BY <1>1, <1>2
<1>5. (Rank[r] - Rank[c]) % N
        = IF Rank[r] - Rank[c] >= 0 THEN Rank[r] - Rank[c] ELSE Rank[r] - Rank[c] + N
  BY <1>1, <1>4, RoundOnce
<1>6. Away(c, r) = (Rank[r] - Rank[c]) % N BY DEF Away, N
<1>7. Away(c, r) = IF Rank[r] >= Rank[c] THEN Rank[r] - Rank[c] ELSE Rank[r] - Rank[c] + N
  BY <1>1, <1>2, <1>5, <1>6
<1>8. N = Cardinality(Refs) BY DEF N
<1> QED BY <1>1, <1>2, <1>3, <1>7, <1>8

\* Seen from a node s that lies between c and q, q is nearer by the way to s.
LEMMA AwayFrom ==
  ASSUME NEW c \in Refs, NEW s \in Refs, NEW q \in Refs, Away(c, s) <= Away(c, q)
  PROVE  Away(s, q) = Away(c, q) - Away(c, s)
<1>1. Away(c, s) = IF Rank[s] >= Rank[c] THEN Rank[s] - Rank[c]
                   ELSE Rank[s] - Rank[c] + Cardinality(Refs)
  BY AwayIs
<1>2. Away(c, q) = IF Rank[q] >= Rank[c] THEN Rank[q] - Rank[c]
                   ELSE Rank[q] - Rank[c] + Cardinality(Refs)
  BY AwayIs
<1>3. Away(s, q) = IF Rank[q] >= Rank[s] THEN Rank[q] - Rank[s]
                   ELSE Rank[q] - Rank[s] + Cardinality(Refs)
  BY AwayIs
<1>4. /\ Cardinality(Refs) \in Nat
      /\ Rank[c] \in Nat /\ Rank[c] < Cardinality(Refs)
      /\ Rank[s] \in Nat /\ Rank[s] < Cardinality(Refs)
  BY AwayIs
<1>5. Rank[q] \in Nat /\ Rank[q] < Cardinality(Refs)
  BY AwayIs
<1> QED BY <1>1, <1>2, <1>3, <1>4, <1>5

\* The way there and the way back are one round.
LEMMA AwayBack ==
  ASSUME NEW c \in Refs, NEW s \in Refs, s # c
  PROVE  Away(s, c) = Cardinality(Refs) - Away(c, s)
<1>1. Away(c, s) = IF Rank[s] >= Rank[c] THEN Rank[s] - Rank[c]
                   ELSE Rank[s] - Rank[c] + Cardinality(Refs)
  BY AwayIs
<1>2. Away(s, c) = IF Rank[c] >= Rank[s] THEN Rank[c] - Rank[s]
                   ELSE Rank[c] - Rank[s] + Cardinality(Refs)
  BY AwayIs
<1>3. /\ Cardinality(Refs) \in Nat /\ Rank[c] \in Nat /\ Rank[s] \in Nat
      /\ Rank[s] # Rank[c]
  BY AwayIs
<1> QED BY <1>1, <1>2, <1>3

LEMMA AwayRange ==
  ASSUME NEW c \in Refs, NEW r \in Refs
  PROVE  Away(c, r) \in Nat /\ Away(c, r) < Cardinality(Refs)
BY AwayIs

\* From names the nearest one.
LEMMA FromNearest ==
  ASSUME NEW S \in SUBSET Refs, S # {}, NEW c \in Refs
  PROVE  \A q \in S : Away(c, From(c, S)) <= Away(c, q)
<1>1. \A r \in S : Away(c, r) \in Nat BY AwayRange
<1>2. [r \in S |-> Away(c, r)] \in [S -> Nat] BY <1>1
<1>3. \E r \in S : \A q \in S : Away(c, r) <= Away(c, q)
  <2>1. \E r \in S : \A q \in S : [k \in S |-> Away(c, k)][r] <= [k \in S |-> Away(c, k)][q]
    BY <1>2, Least
  <2> QED BY <2>1
<1> QED BY <1>3 DEF From

\* The first node with room after the one behind c: none with room is between c
\* and it.
LEMMA NextPassesOverNone ==
  ASSUME NEW S \in SUBSET Refs, NEW c \in S, NEW F \in SUBSET S, F # {}
  PROVE  Between(c, From(After(c, S), F), F) = {}
<1> DEFINE s == After(c, S)
           r == From(s, F)
<1>1. s \in S BY AfterIn
<1>2. s \in Refs /\ c \in Refs /\ F \in SUBSET Refs BY <1>1
<1>3. r \in F BY <1>2, FromIn
<1>4. \A q \in F : Away(s, r) <= Away(s, q) BY <1>2, FromNearest
<1>5. \A q \in S \ {c} : s # c /\ Away(c, s) <= Away(c, q)
  <2> SUFFICES ASSUME S # {c} PROVE \A q \in S \ {c} : s # c /\ Away(c, s) <= Away(c, q)
    OBVIOUS
  <2>1. S \ {c} \in SUBSET Refs /\ S \ {c} # {} OBVIOUS
  <2>2. s = From(c, S \ {c}) BY DEF After
  <2>3. s \in S \ {c} BY <2>1, <2>2, FromIn
  <2>4. \A q \in S \ {c} : Away(c, From(c, S \ {c})) <= Away(c, q)
    BY <2>1, FromNearest
  <2> QED BY <2>2, <2>3, <2>4
<1> HIDE DEF s, r
<1>6. ASSUME NEW q \in F \ {c, r}, r = c \/ Away(c, q) < Away(c, r) PROVE FALSE
  <2>1. q \in Refs /\ r \in Refs /\ q \in S \ {c} BY <1>2, <1>3
  <2>2. s # c /\ Away(c, s) <= Away(c, q) BY <1>5, <2>1
  <2>3. Away(s, q) = Away(c, q) - Away(c, s) BY <1>2, <2>1, <2>2, AwayFrom
  <2>4. Away(s, r) <= Away(s, q) BY <1>4
  <2>5. /\ Away(c, q) \in Nat /\ Away(c, q) < Cardinality(Refs)
        /\ Away(c, s) \in Nat /\ Cardinality(Refs) \in Nat
    BY <1>2, <2>1, AwayRange, AwayIs
  <2>6. CASE r = c
    <3>1. Away(s, c) = Cardinality(Refs) - Away(c, s) BY <1>2, <2>2, AwayBack
    <3> QED BY <2>3, <2>4, <2>5, <2>6, <3>1
  <2>7. CASE r # c
    <3>1. Away(c, s) <= Away(c, r) BY <1>3, <1>5, <2>7
    <3>2. Away(s, r) = Away(c, r) - Away(c, s) BY <1>2, <2>1, <3>1, AwayFrom
    <3>3. Away(c, r) \in Nat BY <1>2, <2>1, AwayRange
    <3>4. Away(c, q) < Away(c, r) BY <1>6, <2>7
    <3> QED BY <2>3, <2>4, <2>5, <3>2, <3>3, <3>4
  <2> QED BY <2>6, <2>7
<1>7. Between(c, r, F) = {} BY <1>6 DEF Between
<1> QED BY <1>7 DEF r, s

-----------------------------------------------------------------------------
(* Nobody moves the rotation between a choice and its write.               *)

\* A step that leaves the cursor in the file and the last turn alone, and what
\* the choice of each thread that still has to write rests on.
LEMMA RotationKept ==
  ASSUME RotationInv, IInv', Persistent, UNCHANGED <<saved, turn>>,
         \A t \in Threads : pc'[t] = "writing" =>
            /\ pc[t] = "writing" /\ UNCHANGED <<pick[t], healthy[ProcOf[t]], active[ProcOf[t]]>>
  PROVE  RotationInv'
<1>1. TurnSaved' BY DEF RotationInv, TurnSaved
<1>2. ASSUME NEW t \in Threads, pc'[t] = "writing"
      PROVE  pick'[t] = From(Position(ProcOf[t]), Free(ProcOf[t]))'
  <2>1. pick[t] = From(Position(ProcOf[t]), Free(ProcOf[t]))
    BY <1>2 DEF RotationInv, PickInTurn
  <2>2. UNCHANGED <<pick[t], healthy[ProcOf[t]], active[ProcOf[t]]>> BY <1>2
  <2>3. Free(ProcOf[t])' = Free(ProcOf[t]) BY <2>2 DEF Free
  <2>4. Position(ProcOf[t])' = Position(ProcOf[t]) BY <2>2 DEF Position
  <2> QED BY <2>1, <2>2, <2>3, <2>4
<1>3. PickInTurn' BY <1>2 DEF PickInTurn
<1> QED BY <1>1, <1>3 DEF RotationInv

\* Who changes a count is in the lock of its process: nobody there has a choice
\* to write.
LEMMA OneWriter ==
  ASSUME IInv, NEW t \in Threads, InLock(t), NEW u \in Threads, u # t, pc[u] = "writing"
  PROVE  ProcOf[u] # ProcOf[t]
<1>1. InLock(u) BY DEF InLock
<1> QED BY <1>1, OneInLock DEF IInv

\* A thread chooses from the position that is in the file.
LEMMA RotationChoose ==
  ASSUME RotationInv, IInv', Persistent, NEW t \in Threads, Choose(t)
  PROVE  RotationInv'
<1>1. TurnSaved' BY DEF RotationInv, TurnSaved, Choose
<1>2. ASSUME NEW u \in Threads, pc'[u] = "writing"
      PROVE  pick'[u] = From(Position(ProcOf[u]), Free(ProcOf[u]))'
  <2>1. Free(ProcOf[u])' = Free(ProcOf[u]) BY DEF Free, Choose
  <2>2. Position(ProcOf[u])' = Position(ProcOf[u]) BY DEF Position, Choose
  <2>3. pick \in [Threads -> Refs \cup {NoRef}] BY DEF RotationInv, IInv, TypeOK
  <2>4. CASE u = t BY <2>1, <2>2, <2>3, <2>4 DEF Choose
  <2>5. CASE u # t
    <3>1. pc[u] = "writing" /\ pick'[u] = pick[u] BY <1>2, <2>3, <2>5 DEF Choose
    <3>2. pick[u] = From(Position(ProcOf[u]), Free(ProcOf[u]))
      BY <3>1 DEF RotationInv, PickInTurn
    <3> QED BY <2>1, <2>2, <3>1, <3>2
  <2> QED BY <2>4, <2>5
<1>3. PickInTurn' BY <1>2 DEF PickInTurn
<1> QED BY <1>1, <1>3 DEF RotationInv

\* A thread writes the node after its own; nobody else is in the flock.
LEMMA RotationWrite ==
  ASSUME RotationInv, IInv', Persistent, NEW t \in Threads, WriteCursor(t)
  PROVE  RotationInv'
<1>1. IInv /\ pc[t] = "writing" BY DEF RotationInv, WriteCursor
<1>2. pick[t] \in healthy[ProcOf[t]] BY <1>1 DEF IInv, ChoiceFresh, Free
<1>3. TurnSaved' BY <1>2 DEF TurnSaved, WriteCursor
<1>4. \A u \in Threads : pc'[u] # "writing"
  <2>1. InFlock(t) BY <1>1 DEF InFlock
  <2>2. ASSUME NEW u \in Threads, u # t PROVE pc[u] # "writing"
    BY <1>1, <2>1, <2>2 DEF IInv, LocksHeld, InFlock
  <2> QED BY <1>1, <2>2 DEF WriteCursor, IInv, TypeOK
<1>5. PickInTurn' BY <1>4 DEF PickInTurn
<1> QED BY <1>3, <1>5 DEF RotationInv

\* Every step keeps the rotation.
LEMMA NextRotation ==
  ASSUME RotationInv, [Next]_vars, IInv', Persistent
  PROVE  RotationInv'
<1> USE DEF RotationInv
<1>0. TypeOK BY DEF IInv
<1>1. ASSUME NEW t \in Threads, LockPool(t) PROVE RotationInv'
  BY <1>0, <1>1, RotationKept DEF LockPool, TypeOK
<1>2. ASSUME NEW t \in Threads, LockFile(t) PROVE RotationInv'
  BY <1>0, <1>2, RotationKept DEF LockFile, TypeOK
<1>3. ASSUME NEW t \in Threads, Choose(t) PROVE RotationInv'
  BY <1>3, RotationChoose
<1>4. ASSUME NEW t \in Threads, Refuse(t) PROVE RotationInv'
  BY <1>0, <1>4, RotationKept DEF Refuse, TypeOK
<1>5. ASSUME NEW t \in Threads, WriteCursor(t) PROVE RotationInv'
  BY <1>5, RotationWrite
<1>6. ASSUME NEW t \in Threads, WriteFails(t) PROVE RotationInv'
  BY <1>0, <1>6, RotationKept DEF WriteFails, TypeOK
<1>7. ASSUME NEW t \in Threads, Grant(t) PROVE RotationInv'
  <2>1. InLock(t) BY <1>7 DEF Grant, InLock
  <2>2. ASSUME NEW u \in Threads, pc'[u] = "writing"
        PROVE  /\ pc[u] = "writing"
               /\ UNCHANGED <<pick[u], healthy[ProcOf[u]], active[ProcOf[u]]>>
    <3>1. u # t /\ pc[u] = "writing" BY <1>0, <1>7, <2>2 DEF Grant, TypeOK
    <3>2. ProcOf[u] # ProcOf[t] BY <2>1, <3>1, OneWriter
    <3> QED BY <1>0, <1>7, <3>1, <3>2, PoolAssumption DEF Grant, TypeOK
  <2> QED BY <1>7, <2>2, RotationKept DEF Grant
<1>8. ASSUME NEW t \in Threads, ReadActive(t) PROVE RotationInv'
  BY <1>0, <1>8, RotationKept DEF ReadActive, TypeOK
<1>9. ASSUME NEW t \in Threads, WriteActive(t) PROVE RotationInv'
  <2>1. InLock(t) BY <1>9 DEF WriteActive, InLock
  <2>2. ASSUME NEW u \in Threads, pc'[u] = "writing"
        PROVE  /\ pc[u] = "writing"
               /\ UNCHANGED <<pick[u], healthy[ProcOf[u]], active[ProcOf[u]]>>
    <3>1. u # t /\ pc[u] = "writing" BY <1>0, <1>9, <2>2 DEF WriteActive, TypeOK
    <3>2. ProcOf[u] # ProcOf[t] BY <2>1, <3>1, OneWriter
    <3> QED BY <1>0, <1>9, <3>1, <3>2, PoolAssumption DEF WriteActive, TypeOK
  <2> QED BY <1>9, <2>2, RotationKept DEF WriteActive
<1>10. ASSUME NEW p \in Procs, Restart(p) PROVE RotationInv'
  <2>2. ASSUME NEW u \in Threads, pc'[u] = "writing"
        PROVE  /\ pc[u] = "writing"
               /\ UNCHANGED <<pick[u], healthy[ProcOf[u]], active[ProcOf[u]]>>
    <3>1. u \notin Mine(p) /\ pc[u] = "writing" /\ UNCHANGED pick[u]
      BY <1>10, <2>2 DEF Restart
    <3>2. ProcOf[u] # p BY <3>1 DEF Mine
    <3>3. UNCHANGED <<healthy[ProcOf[u]], active[ProcOf[u]]>>
      BY <1>0, <1>10, <3>2, PoolAssumption DEF Restart, TypeOK
    <3> QED BY <3>1, <3>3
  <2> QED BY <1>10, <2>2, RotationKept DEF Restart
<1>11. CASE UNCHANGED vars
  BY <1>11, RotationKept DEF vars
<1> QED
  BY <1>1, <1>2, <1>3, <1>4, <1>5, <1>6, <1>7, <1>8, <1>9, <1>10, <1>11 DEF Next

\* In every state the file names the node after the last turn's, and a thread
\* that has chosen is still right when it writes, whichever threads and
\* processes acquire, release or die (proxy_pool.py:107-131).
THEOREM RotationInvariance == Spec => []RotationInv
<1>1. Init => RotationInv
  BY InitIInv DEF RotationInv, TurnSaved, PickInTurn, Init
<1>2. IInv /\ [Next]_vars /\ RotationInv /\ IInv' => RotationInv'
  BY NextRotation DEF RotationInv
<1> QED BY <1>1, <1>2, PoolInvariance, PTL DEF Spec

\* The processes of a pool with a state file share one rotation: of two turns in
\* a row taken from the same nodes, the second passes over no node with room
\* (proxy_pool.py:111-119, 131-141).
THEOREM RotationIsShared == ASSUME Persistent PROVE Spec => TurnsFollow
<1>1. ASSUME RotationInv, [Next]_vars, NEW t \in Threads,
             TakesTurn(t), turn.nodes = healthy[ProcOf[t]]
      PROVE  PassesOverNone(t)
  <2> DEFINE p == ProcOf[t]
  <2>1. IInv /\ pc[t] = "writing" /\ p \in Procs
    BY <1>1, PoolAssumption DEF RotationInv, TakesTurn
  <2>2. healthy[p] \in SUBSET Refs /\ healthy[p] # {} BY <2>1, HealthyNodes DEF IInv
  <2>3. turn.ref \in healthy[p] /\ saved = After(turn.ref, healthy[p])
    BY <1>1, <2>2 DEF RotationInv, TurnSaved
  <2>4. saved \in healthy[p] BY <2>2, <2>3, AfterIn
  <2>5. Position(p) = saved BY <2>4 DEF Position
  <2>6. pick[t] = From(saved, Free(p)) BY <1>1, <2>1, <2>5 DEF RotationInv, PickInTurn
  <2>7. Free(p) \in SUBSET healthy[p] /\ Free(p) # {}
    BY <2>1 DEF IInv, ChoiceFresh, Free
  <2> HIDE DEF p
  <2>8. Between(turn.ref, From(After(turn.ref, healthy[p]), Free(p)), Free(p)) = {}
    BY <2>2, <2>3, <2>7, NextPassesOverNone
  <2>9. Between(turn.ref, pick[t], Free(p)) = {} BY <2>3, <2>6, <2>8
  <2> QED BY <2>9 DEF PassesOverNone, p
<1>2. RotationInv /\ [Next]_vars =>
        [\A t \in Threads :
           TakesTurn(t) /\ turn.nodes = healthy[ProcOf[t]] => PassesOverNone(t)]_vars
  BY <1>1
<1> QED BY <1>2, RotationInvariance, PTL DEF Spec, TurnsFollow
=============================================================================
