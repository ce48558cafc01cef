----------------------------- MODULE ProxyPool ------------------------------
(***************************************************************************)
(* xconsole_client/proxy_pool.py: the nodes of a proxy pool, leased to     *)
(* threads in rotation.  Each process keeps the number of active leases    *)
(* per node in memory, under a threading.Lock; where the rotation goes on  *)
(* is in a file the processes share, under an exclusive flock.  A process  *)
(* may die at any step and start again with the nodes that a new health    *)
(* check finds.                                                            *)
(*                                                                         *)
(* The code counts positions in the list of nodes; the model names the     *)
(* node at the position, and orders the nodes by Rank, their place in the  *)
(* file.                                                                   *)
(***************************************************************************)
EXTENDS Integers, FiniteSets

CONSTANTS
  Refs,        \* the enabled nodes of the proxy pool file
  Rank,        \* their places in it
  Limit,       \* max_active_leases of each node
  Procs,       \* processes with a pool
  Threads,     \* threads that acquire and release
  ProcOf,      \* the process of each thread
  HealthySets, \* the sets of nodes a health check may leave
  Persistent,  \* GROK_PROXY_ROTATION_STATE_FILE is set
  NoRef, NoThread

ASSUME PoolAssumption ==
  /\ IsFiniteSet(Refs) /\ IsFiniteSet(Threads)
  /\ Rank \in [Refs -> 0..Cardinality(Refs) - 1]
  /\ \A r, q \in Refs : Rank[r] = Rank[q] => r = q
  /\ Limit \in [Refs -> Nat \ {0}]
  /\ ProcOf \in [Threads -> Procs]
  /\ HealthySets \subseteq (SUBSET Refs) \ {{}}
  /\ Persistent \in BOOLEAN
  /\ NoRef \notin Refs
  /\ NoThread \notin Threads

VARIABLES
  healthy, \* _specs of each process
  active,  \* _active
  cursor,  \* _cursor, by the node it points at
  lock,    \* the thread that holds _lock
  flock,   \* the thread that holds the lock file
  saved,   \* next_ref in the state file, NoRef while there is no file
  pc,
  pick,    \* spec: the node acquire has chosen
  seen,    \* active: the count release has read
  lease,   \* the lease each thread holds
  turn     \* history: the last node chosen, and the nodes it was chosen from

vars == <<healthy, active, cursor, lock, flock, saved, pc, pick, seen, lease, turn>>

-----------------------------------------------------------------------------
(* The order of the nodes.                                                 *)

\* How far after c the node r comes, going round.
Away(c, r) == (Rank[r] - Rank[c]) % Cardinality(Refs)

First(S)      == CHOOSE r \in S : \A q \in S : Rank[r] <= Rank[q]
\* The first node of S at or after c.
From(c, S)    == CHOOSE r \in S : \A q \in S : Away(c, r) <= Away(c, q)
\* The one after r: (index + 1) % len(self._specs)
After(r, S)   == IF S = {r} THEN r ELSE From(r, S \ {r})
\* The nodes of S passed over when the rotation goes from the node c to r.
Between(c, r, S) == {q \in S \ {c, r} : r = c \/ Away(c, q) < Away(c, r)}

-----------------------------------------------------------------------------
Mine(p) == {t \in Threads : ProcOf[t] = p}

Init ==
  /\ healthy \in [Procs -> HealthySets]
  /\ active = [p \in Procs |-> [r \in Refs |-> 0]]
  /\ cursor = [p \in Procs |-> First(healthy[p])]
  /\ lock = [p \in Procs |-> NoThread]
  /\ flock = NoThread
  /\ saved = NoRef
  /\ pc = [t \in Threads |-> "idle"]
  /\ pick = [t \in Threads |-> NoRef]
  /\ seen = [t \in Threads |-> 0]
  /\ lease = [t \in Threads |-> NoRef]
  /\ turn = [ref |-> NoRef, nodes |-> {}]

\* Mutant of Free: one lease too many.
FreeAtLimit(p) == {r \in healthy[p] : active[p][r] <= Limit[r]}

Free(p) == {r \in healthy[p] : active[p][r] < Limit[r]}

\* cursor = self._read_rotation_cursor() if lock_fd is not None else self._cursor
Position(p) ==
  IF ~Persistent THEN cursor[p]
  ELSE IF saved \in healthy[p] THEN saved ELSE First(healthy[p])

\* with self._lock
LockPool(t) ==
  /\ pc[t] = "idle"
  /\ lock[ProcOf[t]] = NoThread
  /\ lock' = [lock EXCEPT ![ProcOf[t]] = t]
  /\ pc' = [pc EXCEPT ![t] = "locked"]
  /\ UNCHANGED <<healthy, active, cursor, flock, saved, pick, seen, lease, turn>>

\* Mutant of LockFile: the state file is used without its lock.
NoFlock(t) ==
  /\ pc[t] = "locked"
  /\ pc' = [pc EXCEPT ![t] = "choosing"]
  /\ UNCHANGED <<healthy, active, cursor, lock, flock, saved, pick, seen, lease, turn>>

\* flock(LOCK_EX), which waits; a pool without a state file has no such lock.
LockFile(t) ==
  /\ pc[t] = "locked"
  /\ IF Persistent THEN flock = NoThread /\ flock' = t ELSE UNCHANGED flock
  /\ pc' = [pc EXCEPT ![t] = "choosing"]
  /\ UNCHANGED <<healthy, active, cursor, lock, saved, pick, seen, lease, turn>>

\* The finally of acquire, and the end of its with.
Unlock(t) ==
  /\ flock' = IF flock = t THEN NoThread ELSE flock
  /\ lock' = [lock EXCEPT ![ProcOf[t]] = NoThread]

Choose(t) ==
  LET p == ProcOf[t] IN
  /\ pc[t] = "choosing"
  /\ Free(p) # {}
  /\ pick' = [pick EXCEPT ![t] = From(Position(p), Free(p))]
  /\ pc' = [pc EXCEPT ![t] = IF Persistent THEN "writing" ELSE "granting"]
  /\ UNCHANGED <<healthy, active, cursor, lock, flock, saved, seen, lease, turn>>

\* "proxy pool has no available lease"
Refuse(t) ==
  /\ pc[t] = "choosing"
  /\ Free(ProcOf[t]) = {}
  /\ pc' = [pc EXCEPT ![t] = "idle"]
  /\ Unlock(t)
  /\ UNCHANGED <<healthy, active, cursor, saved, pick, seen, lease, turn>>

WriteCursor(t) ==
  LET p == ProcOf[t] IN
  /\ pc[t] = "writing"
  /\ saved' = After(pick[t], healthy[p])
  /\ turn' = [ref |-> pick[t], nodes |-> healthy[p]]
  /\ pc' = [pc EXCEPT ![t] = "granting"]
  /\ UNCHANGED <<healthy, active, cursor, lock, flock, pick, seen, lease>>

\* The state file cannot be written: acquire raises.
WriteFails(t) ==
  /\ pc[t] = "writing"
  /\ pick' = [pick EXCEPT ![t] = NoRef]
  /\ pc' = [pc EXCEPT ![t] = "idle"]
  /\ Unlock(t)
  /\ UNCHANGED <<healthy, active, cursor, saved, seen, lease, turn>>

Grant(t) ==
  LET p == ProcOf[t] IN
  /\ pc[t] = "granting"
  /\ active' = [active EXCEPT ![p][pick[t]] = @ + 1]
  /\ cursor' = [cursor EXCEPT ![p] = After(pick[t], healthy[p])]
  /\ lease' = [lease EXCEPT ![t] = pick[t]]
  /\ turn' = IF Persistent THEN turn ELSE [ref |-> pick[t], nodes |-> healthy[p]]
  /\ pick' = [pick EXCEPT ![t] = NoRef]
  /\ pc' = [pc EXCEPT ![t] = "holding"]
  /\ Unlock(t)
  /\ UNCHANGED <<healthy, saved, seen>>

\* Mutant of ReadActive: release does not take the lock.
ReadActiveNoLock(t) ==
  LET p == ProcOf[t] IN
  /\ pc[t] = "holding"
  /\ active[p][lease[t]] >= 1
  /\ seen' = [seen EXCEPT ![t] = active[p][lease[t]]]
  /\ pc' = [pc EXCEPT ![t] = "returning"]
  /\ UNCHANGED <<healthy, active, cursor, lock, flock, saved, pick, lease, turn>>

\* release: with self._lock, active = self._active.get(lease.ref)
ReadActive(t) ==
  LET p == ProcOf[t] IN
  /\ pc[t] = "holding"
  /\ lock[p] = NoThread
  /\ active[p][lease[t]] >= 1
  /\ lock' = [lock EXCEPT ![p] = t]
  /\ seen' = [seen EXCEPT ![t] = active[p][lease[t]]]
  /\ pc' = [pc EXCEPT ![t] = "returning"]
  /\ UNCHANGED <<healthy, active, cursor, flock, saved, pick, lease, turn>>

\* self._active[lease.ref] = active - 1
WriteActive(t) ==
  LET p == ProcOf[t] IN
  /\ pc[t] = "returning"
  /\ active' = [active EXCEPT ![p][lease[t]] = seen[t] - 1]
  /\ lease' = [lease EXCEPT ![t] = NoRef]
  /\ seen' = [seen EXCEPT ![t] = 0]
  /\ pc' = [pc EXCEPT ![t] = "idle"]
  /\ lock' = [lock EXCEPT ![p] = NoThread]
  /\ UNCHANGED <<healthy, cursor, flock, saved, pick, turn>>

\* A process ends, at any step: the kernel drops its flock, and its memory is
\* gone.  The next one loads the pool and keeps the healthy nodes (only_refs).
Restart(p) ==
  LET reset(f, v) == [t \in Threads |-> IF t \in Mine(p) THEN v ELSE f[t]]
  IN
  /\ \E S \in HealthySets :
       /\ healthy' = [healthy EXCEPT ![p] = S]
       /\ cursor' = [cursor EXCEPT ![p] = First(S)]
  /\ active' = [active EXCEPT ![p] = [r \in Refs |-> 0]]
  /\ lock' = [lock EXCEPT ![p] = NoThread]
  /\ flock' = IF flock \in Mine(p) THEN NoThread ELSE flock
  /\ pc' = reset(pc, "idle")
  /\ pick' = reset(pick, NoRef)
  /\ seen' = reset(seen, 0)
  /\ lease' = reset(lease, NoRef)
  /\ UNCHANGED <<saved, turn>>

Next ==
  \/ \E t \in Threads :
       \/ LockPool(t) \/ LockFile(t) \/ Choose(t) \/ Refuse(t)
       \/ WriteCursor(t) \/ WriteFails(t) \/ Grant(t)
       \/ ReadActive(t) \/ WriteActive(t)
  \/ \E p \in Procs : Restart(p)

Spec == Init /\ [][Next]_vars

-----------------------------------------------------------------------------
TypeOK ==
  /\ healthy \in [Procs -> HealthySets]
  /\ active \in [Procs -> [Refs -> Nat]]
  /\ cursor \in [Procs -> Refs]
  /\ lock \in [Procs -> Threads \cup {NoThread}]
  /\ flock \in Threads \cup {NoThread}
  /\ saved \in Refs \cup {NoRef}
  /\ pc \in [Threads -> {"idle", "locked", "choosing", "writing", "granting", "holding", "returning"}]
  /\ pick \in [Threads -> Refs \cup {NoRef}]
  /\ seen \in [Threads -> Nat]
  /\ lease \in [Threads -> Refs \cup {NoRef}]
  /\ turn \in [ref : Refs \cup {NoRef}, nodes : SUBSET Refs]

InLock(t) == pc[t] \in {"locked", "choosing", "writing", "granting", "returning"}
InFlock(t) == Persistent /\ pc[t] \in {"choosing", "writing", "granting"}

\* The locks are held by the threads inside them, and by those only.
LocksHeld ==
  \A t \in Threads : /\ InLock(t) <=> lock[ProcOf[t]] = t
                     /\ InFlock(t) <=> flock = t

\* A thread has a lease exactly from the end of acquire to the end of release.
LeaseWhileHolding ==
  \A t \in Threads : /\ pc[t] \in {"holding", "returning"} <=> lease[t] # NoRef
                     /\ lease[t] # NoRef => lease[t] \in healthy[ProcOf[t]]

\* What a thread chose or read under the lock is still so when it writes.
ChoiceFresh ==
  \A t \in Threads :
    /\ pc[t] \in {"writing", "granting"} => pick[t] \in Free(ProcOf[t])
    /\ pc[t] = "returning" => seen[t] = active[ProcOf[t]][lease[t]]

HoldersOf(p, r) == {t \in Mine(p) : lease[t] = r}

\* _active counts the threads that hold a lease, whatever steps other threads
\* and processes took: no lease is leaked or returned twice.
Counted == \A p \in Procs, r \in Refs : active[p][r] = Cardinality(HoldersOf(p, r))

\* max_active_leases holds in every process (OPERATIONS.zh-CN.md:185).
WithinLimit == \A p \in Procs, r \in Refs : active[p][r] <= Limit[r]

\* The inductive invariant: the locks keep what acquire and release have read
\* fresh until they write, so the counts stay right and within the limits.
IInv == /\ TypeOK /\ LocksHeld /\ LeaseWhileHolding /\ ChoiceFresh
        /\ Counted /\ WithinLimit

\* Each process keeps the promise of a pool by itself.
Promise(p) == INSTANCE Leases WITH
  Holders <- Mine(p),
  specs <- healthy[p],
  lease <- [t \in Mine(p) |-> lease[t]]

PoolKeepsPromise ==
  /\ \A p \in Procs : Promise(p)!LeaseInit
  /\ [][\A p \in Procs : [Promise(p)!LeaseNext]_(Promise(p)!leaseVars)]_vars

\* t takes its turn: the rotation moves on to the node t chose.
TakesTurn(t) ==
  IF Persistent THEN pc[t] = "writing" /\ pc'[t] = "granting"
                ELSE pc[t] = "granting" /\ pc'[t] = "holding"

\* No node of t's process that has room comes between the last turn's and t's.
PassesOverNone(t) == Between(turn.ref, pick[t], Free(ProcOf[t])) = {}

\* The processes share one rotation (_lock_rotation_state): when two turns in a
\* row are taken from the same nodes, by whichever threads and with whatever
\* crashes and refused writes between them, the second passes over no node
\* that has room.
TurnsFollow ==
  [][\A t \in Threads :
       TakesTurn(t) /\ turn.nodes = healthy[ProcOf[t]] => PassesOverNone(t)]_vars


\* The file says where the last turn was taken.
TurnSaved ==
  \/ turn = [ref |-> NoRef, nodes |-> {}]
  \/ turn.ref \in turn.nodes /\ saved = After(turn.ref, turn.nodes)

\* The node a thread is about to write down is still the next in the rotation.
PickInTurn ==
  \A t \in Threads :
    pc[t] = "writing" => pick[t] = From(Position(ProcOf[t]), Free(ProcOf[t]))

\* The invariant of the rotation the processes share: nobody moves the cursor in
\* the file, or changes a count it was chosen by, between a choice and its write.
RotationInv == IInv /\ (Persistent => TurnSaved /\ PickInTurn)
=============================================================================
