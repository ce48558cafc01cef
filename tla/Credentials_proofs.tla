------------------------- MODULE Credentials_proofs -------------------------
(***************************************************************************)
(* For any number of runs, tokens and faults and any options: a re-probe   *)
(* run neither replaces nor removes what others wrote since its read, but  *)
(* where it moves a token that it has refreshed and stored meanwhile; the  *)
(* last usable token of the identity is kept, and the checkpoint calls no  *)
(* token pushed that the bridge has not taken.                             *)
(***************************************************************************)
EXTENDS Credentials, TLAPS

-----------------------------------------------------------------------------
(* Actors, records and locks.                                              *)

LEMMA Ids ==
  /\ Export \notin Reprobes /\ Export \in Actors /\ Reprobes \subseteq Actors
  /\ Free \notin Actors /\ Dead \notin Actors /\ Free # Dead
  /\ \A a \in Actors : a \in Reprobes \/ a = Export
  /\ \A t \in Tokens : t # None
BY ConstantsOK DEF Export, Reprobes, Actors, Free, Dead, Tokens, None

LEMMA RecordsTyped ==
  /\ ErrorRecord \in Records /\ NoCheckpoint \in [States -> Records]
  /\ \A t \in {None} \cup Tokens, pushed \in {"none", "no", "yes"}, terminal \in BOOLEAN :
        /\ Record(t, pushed, terminal) \in Records
        /\ Record(t, pushed, terminal).tok = t /\ Record(t, pushed, terminal).pushed = pushed
BY DEF ErrorRecord, Record, Records, NoCheckpoint

LEMMA NoJobTyped ==
  /\ NoJob \in JobType
  /\ NoJob.cand = None /\ NoJob.fp = None /\ NoJob.pushed = "none" /\ NoJob.mem = NoCheckpoint
BY RecordsTyped DEF NoJob, JobType, States, Decisions

\* What may be read off a job.
LEMMA JobTyped ==
  ASSUME TypeOK, NEW a \in Actors
  PROVE  /\ job[a] \in JobType
         /\ job[a].path \in States /\ job[a].dest \in States /\ job[a].dec \in Decisions
         /\ job[a].cand \in {None} \cup Tokens /\ job[a].fp \in {None} \cup Tokens
         /\ job[a].pushed \in {"none", "no", "yes"} /\ job[a].terminal \in BOOLEAN
         /\ job[a].mem \in [States -> Records]
BY DEF TypeOK, JobType

LEMMA Numbers ==
  /\ \A t \in {None} \cup Tokens : t \in Nat
  /\ \A j \in JobType : j.cand \in Nat /\ j.fp \in Nat
  /\ TypeOK => issued \in Nat
  /\ TypeOK => \A s \in States : file[s] \in Nat
  /\ TypeOK => \A a \in Actors : job[a].cand \in Nat /\ job[a].fp \in Nat
<1>1. \A t \in {None} \cup Tokens : t \in Nat BY DEF Tokens, None
<1>2. \A j \in JobType : j.cand \in Nat /\ j.fp \in Nat BY <1>1 DEF JobType
<1>3. TypeOK => issued \in Nat BY ConstantsOK DEF TypeOK
<1>4. TypeOK => \A s \in States : file[s] \in Nat BY <1>1 DEF TypeOK
<1>5. TypeOK => \A a \in Actors : job[a].cand \in Nat /\ job[a].fp \in Nat
  BY <1>2 DEF TypeOK
<1> QED BY <1>1, <1>2, <1>3, <1>4, <1>5

LEMMA NoWritesTyped ==
  NoWrites \in Writes /\ NoWrites.new = {} /\ NoWrites.old = {}
BY DEF NoWrites, Writes

\* No run but the holder of the operation lock works.
LEMMA OneWorks ==
  ASSUME LocksHeld, NEW p \in Reprobes, NEW q \in Reprobes, Working(p), Working(q)
  PROVE  p = q
BY DEF LocksHeld

\* No actor but the holder of the identity lock unlinks.
LEMMA OneUnlinks ==
  ASSUME LocksHeld, NEW a \in Actors, NEW b \in Actors, pc[a] = "unlink", pc[b] = "unlink"
  PROVE  a = b
BY DEF LocksHeld

LEMMA NobodyUnlinks ==
  ASSUME LocksHeld, idlock = Free, NEW a \in Actors
  PROVE  pc[a] # "unlink"
BY Ids DEF LocksHeld

\* One actor's program counter and job change.
LEMMA OneMoves ==
  ASSUME TypeOK, NEW a \in Actors, NEW to \in Stages, NEW j \in JobType,
         pc' = [pc EXCEPT ![a] = to], job' = [job EXCEPT ![a] = j]
  PROVE  /\ pc' \in [Actors -> Stages] /\ job' \in [Actors -> JobType]
         /\ pc'[a] = to /\ job'[a] = j
         /\ \A b \in Actors : b # a => pc'[b] = pc[b] /\ job'[b] = job[b]
BY DEF TypeOK

-----------------------------------------------------------------------------
(* The order of the files.                                                 *)

LEMMA WrittenPairs ==
  ASSUME TypeOK, NEW s \in States
  PROVE  /\ Written(s) \subseteq States \X States
         /\ \A x, y \in States :
               <<x, y>> \in Written(s) <=>
                   \/ <<x, y>> \in newer /\ x # s /\ y # s
                   \/ x = s /\ y # s /\ file[y] # None
BY DEF TypeOK, Written

LEMMA KeptPairs ==
  ASSUME TypeOK, NEW K, newer' = {r \in newer : r[1] \in K /\ r[2] \in K}
  PROVE  /\ newer' \subseteq States \X States
         /\ \A x, y \in States : Newer(x, y)' <=> Newer(x, y) /\ x \in K /\ y \in K
BY DEF TypeOK, Newer

\* There is one newest file.
LEMMA OneNewest ==
  ASSUME FilesOrdered, NEW s \in States, NEW t \in States, Newest(s), Newest(t)
  PROVE  s = t
BY DEF FilesOrdered, Newest

\* A file that is written is the newest, and the files stay ordered.
LEMMA WriteOrders ==
  ASSUME TypeOK, FilesOrdered, NEW s \in States, NEW t \in Tokens,
         file' = [file EXCEPT ![s] = t], newer' = Written(s), stored' = TRUE
  PROVE  /\ FilesOrdered' /\ Newest(s)'
         /\ \A x \in States : Newest(x)' => x = s
         /\ \A x \in States \ {s} : file[x] # None => Newer(s, x)'
         /\ file'[s] = t /\ \A x \in States \ {s} : file'[x] = file[x]
         /\ newer' \subseteq States \X States /\ file' \in [States -> {None} \cup Tokens]
<1>1. /\ file'[s] = t /\ \A x \in States \ {s} : file'[x] = file[x]
      /\ file' \in [States -> {None} \cup Tokens]
  BY DEF TypeOK
<1>2. /\ newer' \subseteq States \X States
      /\ \A x, y \in States :
            Newer(x, y)' <=> \/ Newer(x, y) /\ x # s /\ y # s
                             \/ x = s /\ y # s /\ file[y] # None
  BY WrittenPairs DEF Newer
<1>3. t # None BY Ids
<1>4. FilesOrdered' BY <1>1, <1>2, <1>3 DEF FilesOrdered
<1>5. Newest(s)' BY <1>1, <1>2, <1>3 DEF Newest
<1>6. \A x \in States : Newest(x)' => x = s BY <1>4, <1>5 DEF FilesOrdered, Newest
<1> QED BY <1>1, <1>2, <1>4, <1>5, <1>6

-----------------------------------------------------------------------------
(* Steps that leave the files alone.                                       *)

\* An actor gives up or is done: its job ends and its locks are given back, or
\* stay as those of a dead process.
LEMMA EndStep ==
  ASSUME IInv, NEW a \in Actors, EndJob(a),
         UNCHANGED <<file, newer, stored, issued, spent, runs>>,
         accepted \subseteq accepted', accepted' \subseteq Tokens,
         mislaid' \in BOOLEAN, mislaid => mislaid',
         \/ idlock' = IF idlock = a THEN Dead ELSE idlock
         \/ idlock = Free /\ idlock' = Dead,
         oplock' = oplock \/ (oplock = a /\ oplock' \in {Free, Dead}),
         oplock' # a,
         fresh' \in [Reprobes -> Writes],
         \A p \in Reprobes \ {a} : fresh'[p] = fresh[p],
         ckpt' \in [States -> Records], TrueRecords(ckpt)',
         classes' \in [Reprobes -> 0..2], faults' \in 0..MaxFaults,
         pc[a] = "store" /\ a \in Reprobes => mislaid' \/ file[job[a].path] # job[a].fp
  PROVE  IInv'
<1>1. /\ pc' \in [Actors -> Stages] /\ job' \in [Actors -> JobType]
      /\ pc'[a] = "off" /\ job'[a] = NoJob
      /\ \A b \in Actors : b # a => pc'[b] = pc[b] /\ job'[b] = job[b]
  <2>1. "off" \in Stages BY DEF Stages
  <2> QED BY <2>1, NoJobTyped, OneMoves DEF IInv, EndJob, Goto
<1>2. NoJob.cand = None /\ NoJob.fp = None /\ NoJob.pushed = "none" /\ NoJob.mem = NoCheckpoint
  BY NoJobTyped
<1>3. TypeOK' BY <1>1 DEF IInv, TypeOK
<1>4. LocksHeld' BY <1>1, Ids DEF IInv, LocksHeld, Working
<1>5. FilesOrdered' BY DEF IInv, FilesOrdered, Newer
<1>6. ExportAlone' BY <1>1, <1>2, Ids DEF IInv, ExportAlone
<1>7. IssuedOnly'
  <2>1. issued \in Nat BY ConstantsOK DEF IInv, TypeOK
  <2> QED BY <1>1, <1>2, <2>1 DEF IInv, IssuedOnly, None
<1>8. Unlinking' BY <1>1 DEF IInv, Unlinking, Newer
<1>9. InMemory' BY <1>1, <1>2, Ids DEF IInv, InMemory, Working
<1>10. ChangeIsSeen'
  <2> SUFFICES ASSUME NEW p \in Reprobes, Working(p)'
               PROVE  (/\ fresh[p].new # {} => \/ file[job[p].path] # job[p].fp
                                               \/ \E s \in States : Newer(s, job[p].path)
                       /\ job[p].path \in fresh[p].new => file[job[p].path] # job[p].fp
                       /\ pc[p] = "unlink" => fresh[p].new = {}
                       /\ pc[p] \in {"probe", "refresh", "store"} => fresh[p].old = {})'
    BY DEF ChangeIsSeen
  <2>1. p # a BY <1>1 DEF Working
  <2>2. pc'[p] = pc[p] /\ job'[p] = job[p] /\ fresh'[p] = fresh[p] BY <1>1, <2>1, Ids
  <2>3. Working(p) BY <2>2 DEF Working
  <2> QED BY <2>2, <2>3 DEF IInv, ChangeIsSeen, Newer
<1>11. NewestIsOther' BY <1>1, Ids DEF IInv, NewestIsOther, Newest, Newer
<1>12. NewestUsable'
  <2> SUFFICES ASSUME stored, ~mislaid'
               PROVE  \E s \in States :
                         /\ Newest(s)
                         /\ \/ file[s] \notin spent \/ file[s] \in accepted'
                            \/ \E p \in Reprobes : pc'[p] = "store" /\ job'[p].fp = file[s]
    BY DEF NewestUsable, Newest, Newer
  <2>1. PICK s \in States :
           /\ Newest(s)
           /\ \/ file[s] \notin spent \/ file[s] \in accepted
              \/ \E p \in Reprobes : pc[p] = "store" /\ job[p].fp = file[s]
    BY DEF IInv, NewestUsable
  <2>2. CASE file[s] \notin spent \/ file[s] \in accepted BY <2>1, <2>2
  <2>3. ASSUME NEW p \in Reprobes, pc[p] = "store", job[p].fp = file[s]
        PROVE  pc'[p] = "store" /\ job'[p].fp = file[s]
    <3>1. p # a BY <2>1, <2>3 DEF IInv, NewestIsOther
    <3> QED BY <1>1, <2>3, <3>1, Ids
  <2> QED BY <2>1, <2>2, <2>3
<1>13. RecordsTrue'
  <2>1. TrueRecords(NoCheckpoint)'
    BY DEF TrueRecords, NoCheckpoint, ErrorRecord, Record
  <2>2. ASSUME NEW p \in Reprobes
        PROVE  (/\ TrueRecords(job[p].mem)
                /\ job[p].pushed = "yes" => job[p].cand \in accepted
                /\ Working(p) /\ job[p].path = "verified" => job[p].mem["verified"].pushed = "no")'
    <3>1. CASE p = a BY <1>1, <1>2, <2>1, <3>1 DEF Working
    <3>2. CASE p # a
      <4>1. pc'[p] = pc[p] /\ job'[p] = job[p] BY <1>1, <3>2, Ids
      <4> QED BY <4>1 DEF IInv, RecordsTrue, TrueRecords, Working
    <3> QED BY <3>1, <3>2
  <2> QED BY <2>2 DEF RecordsTrue, TrueRecords
<1> QED BY <1>3, <1>4, <1>5, <1>6, <1>7, <1>8, <1>9, <1>10, <1>11, <1>12, <1>13 DEF IInv

\* A run that saves a record of the path it looked at, or of the verified one.
LEMMA FinishStep ==
  ASSUME IInv, NEW p \in Reprobes, NEW s \in States, NEW rec \in Records, NEW n \in 0..2,
         Finish(p, s, rec, n),
         rec.pushed = "yes" => s = "verified" /\ rec.tok \in accepted',
         UNCHANGED <<file, newer, idlock, issued, spent>>, pc[p] # "unlink",
         faults' = faults \/ (faults < MaxFaults /\ faults' = faults + 1),
         accepted \subseteq accepted', accepted' \subseteq Tokens,
         mislaid' \in BOOLEAN, mislaid => mislaid',
         pc[p] = "store" => mislaid' \/ file[job[p].path] # job[p].fp
  PROVE  IInv'
<1>1. /\ EndJob(p) /\ UNCHANGED <<runs, stored>>
      /\ ckpt' = [job[p].mem EXCEPT ![s] = rec]
      /\ oplock' = (IF oplock = p THEN Free ELSE oplock)
      /\ classes' = [classes EXCEPT ![p] = n] /\ fresh' = [fresh EXCEPT ![p] = NoWrites]
  BY DEF Finish
<1>2. p \in Actors /\ Free # p BY Ids
<1>3. job[p].mem \in [States -> Records] BY <1>2, JobTyped DEF IInv
<1>4. ckpt' \in [States -> Records] BY <1>1, <1>3
<1>5. TrueRecords(ckpt)'
  <2>1. \A x \in States : ckpt'[x] = IF x = s THEN rec ELSE job[p].mem[x] BY <1>1, <1>3
  <2>2. TrueRecords(job[p].mem) BY DEF IInv, RecordsTrue
  <2> QED BY <2>1, <2>2 DEF TrueRecords
<1>6. /\ fresh' \in [Reprobes -> Writes]
      /\ \A q \in Reprobes \ {p} : fresh'[q] = fresh[q]
      /\ classes' \in [Reprobes -> 0..2]
  BY <1>1, NoWritesTyped DEF IInv, TypeOK
<1>7. idlock # p BY <1>2 DEF IInv, LocksHeld
<1>8. idlock' = IF idlock = p THEN Dead ELSE idlock BY <1>7
<1>9. (oplock' = oplock \/ (oplock = p /\ oplock' \in {Free, Dead})) /\ oplock' # p
  BY <1>1, <1>2
<1>10. faults' \in 0..MaxFaults BY ConstantsOK DEF IInv, TypeOK
<1> HIDE DEF Finish
<1> QED BY <1>1, <1>2, <1>4, <1>5, <1>6, <1>8, <1>9, <1>10, EndStep

\* An exception ends a run, which saves an error record.
LEMMA RaiseStep ==
  ASSUME IInv, NEW p \in Reprobes, NEW n \in 0..2, Raise(p, n),
         UNCHANGED <<file, newer, idlock, issued, spent>>, pc[p] # "unlink",
         faults' = faults \/ (faults < MaxFaults /\ faults' = faults + 1),
         accepted \subseteq accepted', accepted' \subseteq Tokens,
         mislaid' \in BOOLEAN, mislaid => mislaid',
         pc[p] = "store" => mislaid' \/ file[job[p].path] # job[p].fp
  PROVE  IInv'
<1>1. job[p].path \in States BY Ids, JobTyped DEF IInv
<1>2. ErrorRecord \in Records /\ ErrorRecord.pushed = "none"
  BY RecordsTyped DEF ErrorRecord, Record
<1>3. ErrorRecord.pushed # "yes" BY <1>2
<1>4. Finish(p, job[p].path, ErrorRecord, n) BY DEF Raise
<1> QED BY <1>1, <1>2, <1>3, <1>4, FinishStep

LEMMA GivesUpIInv ==
  ASSUME IInv, NEW p \in Reprobes,
         \/ OperationLockTimeout(p) \/ ReadMissing(p) \/ StoreFails(p) \/ WriteRaises(p)
         \/ MoveRefused(p) \/ PushRaises(p)
  PROVE  IInv'
<1>1. accepted \subseteq Tokens /\ mislaid \in BOOLEAN /\ job[p].cand \in {None} \cup Tokens
  BY Ids, JobTyped DEF IInv, TypeOK
<1>2. 1 \in 0..2 /\ 2 \in 0..2 OBVIOUS
<1>3. CASE OperationLockTimeout(p)
  <2>1. /\ pc[p] = "queued" /\ Raise(p, 1)
        /\ UNCHANGED <<file, newer, idlock, issued, spent, accepted, faults, mislaid>>
    BY <1>3 DEF OperationLockTimeout, disk, world
  <2>2. pc[p] # "unlink" /\ pc[p] # "store" BY <2>1
  <2> QED BY <1>1, <1>2, <2>1, <2>2, RaiseStep
<1>4. CASE ReadMissing(p)
  <2>1. /\ pc[p] = "queued" /\ Raise(p, 1)
        /\ UNCHANGED <<file, newer, idlock, issued, spent, accepted, faults, mislaid>>
    BY <1>4 DEF ReadMissing, disk, world
  <2>2. pc[p] # "unlink" /\ pc[p] # "store" BY <2>1
  <2> QED BY <1>1, <1>2, <2>1, <2>2, RaiseStep
<1>5. CASE StoreFails(p)
  <2>1. /\ pc[p] = "store" /\ Raise(p, 1) /\ idlock \in {Free, Dead}
        /\ idlock = Free => file[job[p].path] # job[p].fp
        /\ mislaid' = (mislaid \/ idlock = Dead)
        /\ UNCHANGED <<file, newer, idlock, issued, spent, accepted, faults>>
    BY <1>5 DEF StoreFails, disk, world
  <2>2. pc[p] # "unlink" /\ mislaid' \in BOOLEAN /\ (mislaid => mislaid') BY <1>1, <2>1
  <2>3. mislaid' \/ file[job[p].path] # job[p].fp BY <2>1
  <2> QED BY <1>1, <1>2, <2>1, <2>2, <2>3, RaiseStep
<1>6. CASE MoveRefused(p)
  <2>1. /\ pc[p] = "move" /\ Raise(p, 1)
        /\ UNCHANGED <<file, newer, idlock, issued, spent, accepted, faults, mislaid>>
    BY <1>6 DEF MoveRefused, disk, world
  <2>2. pc[p] # "unlink" /\ pc[p] # "store" BY <2>1
  <2> QED BY <1>1, <1>2, <2>1, <2>2, RaiseStep
<1>7. CASE PushRaises(p)
  <2>1. /\ pc[p] = "push" /\ Raise(p, IF job[p].dec = "pass" THEN 2 ELSE 1)
        /\ accepted' \in {accepted, accepted \cup {job[p].cand}}
        /\ UNCHANGED <<file, newer, idlock, issued, spent, faults, mislaid>>
    BY <1>7 DEF PushRaises, disk
  <2>2. pc[p] # "unlink" /\ pc[p] # "store" BY <2>1
  <2>3. job[p].cand # None BY <2>1 DEF IInv, InMemory, Working
  <2>4. accepted \subseteq accepted' /\ accepted' \subseteq Tokens BY <1>1, <2>1, <2>3
  <2>5. PICK n \in 0..2 : Raise(p, n) BY <1>2, <2>1
  <2> QED BY <1>1, <2>1, <2>2, <2>4, <2>5, RaiseStep
<1>8. CASE WriteRaises(p)
  <2>1. /\ faults < MaxFaults /\ faults' = faults + 1 /\ Raise(p, 1)
        /\ \/ pc[p] = "store" /\ mislaid' = TRUE
           \/ pc[p] = "move" /\ mislaid' = mislaid
        /\ UNCHANGED <<file, newer, idlock, issued, spent, accepted>>
    BY <1>8 DEF WriteRaises, disk, world
  <2>2. CASE pc[p] = "store" /\ mislaid' = TRUE
    <3>1. mislaid' \in BOOLEAN /\ mislaid' /\ pc[p] # "unlink" BY <2>2
    <3> QED BY <1>1, <1>2, <2>1, <3>1, RaiseStep
  <2>3. CASE pc[p] = "move" /\ mislaid' = mislaid
    <3>1. mislaid' \in BOOLEAN /\ (mislaid => mislaid') BY <1>1, <2>3, Zenon
    <3>2. pc[p] # "unlink" /\ pc[p] # "store" BY <2>3
    <3> QED BY <1>1, <1>2, <2>1, <3>1, <3>2, RaiseStep
  <2> QED BY <2>1, <2>2, <2>3
<1> QED BY <1>3, <1>4, <1>5, <1>6, <1>7, <1>8

LEMMA RevokedIInv == ASSUME IInv, NEW p \in Reprobes, Revoked(p) PROVE IInv'
<1> DEFINE j == job[p]
           rec == Record(j.cand, j.mem[j.path].pushed, FALSE)
<1>1. /\ pc[p] = "refresh" /\ Finish(p, j.path, rec, 1)
      /\ UNCHANGED <<file, newer, idlock, issued, spent, accepted, faults, mislaid>>
  BY DEF Revoked, disk, world
<1>2. /\ j.path \in States /\ j.cand \in {None} \cup Tokens /\ j.mem \in [States -> Records]
      /\ accepted \subseteq Tokens /\ mislaid \in BOOLEAN
  BY Ids, JobTyped DEF IInv, TypeOK
<1>3. j.mem[j.path].pushed \in {"none", "no", "yes"} BY <1>2 DEF Records
<1>4. rec \in Records /\ rec.pushed = j.mem[j.path].pushed BY <1>2, <1>3, RecordsTyped
<1>5. j.mem[j.path].pushed # "yes"
  <2>1. Working(p) BY <1>1 DEF Working
  <2>2. CASE j.path = "verified" BY <2>1, <2>2 DEF IInv, RecordsTrue
  <2>3. CASE j.path # "verified" BY <1>2, <2>3 DEF IInv, RecordsTrue, TrueRecords
  <2> QED BY <2>2, <2>3
<1>6. pc[p] # "unlink" /\ pc[p] # "store" /\ 1 \in 0..2 BY <1>1
<1> HIDE DEF rec, j
<1>7. rec.pushed # "yes" BY <1>4, <1>5
<1> QED BY <1>1, <1>2, <1>4, <1>6, <1>7, FinishStep

LEMMA ConcludeIInv == ASSUME IInv, NEW p \in Reprobes, Conclude(p) PROVE IInv'
<1> DEFINE j == job[p]
<1>1. /\ pc[p] = "conclude" /\ Finish(p, Saved(p)[1], Saved(p)[2], 1)
      /\ UNCHANGED <<file, newer, idlock, issued, spent, accepted, faults, mislaid>>
  BY DEF Conclude, disk, world
<1>2. /\ j.path \in States /\ j.cand \in {None} \cup Tokens /\ j.mem \in [States -> Records]
      /\ j.pushed \in {"none", "no", "yes"} /\ j.terminal \in BOOLEAN
      /\ accepted \subseteq Tokens /\ mislaid \in BOOLEAN
  BY Ids, JobTyped DEF IInv, TypeOK
<1>3. /\ j.pushed = "yes" => j.cand \in accepted
      /\ j.path = "verified" => j.mem["verified"].pushed = "no"
  BY <1>1 DEF IInv, RecordsTrue, Working
<1>4. \E s \in States, pushed \in {"none", "no", "yes"}, terminal \in BOOLEAN :
         /\ Saved(p) = <<s, Record(j.cand, pushed, terminal)>>
         /\ pushed = "yes" => s = "verified" /\ j.cand \in accepted
  <2> HIDE DEF j
  <2>1. "verified" \in States BY DEF States
  <2>2. CASE j.dec = "pass" \/ j.pushed = "yes"
    <3>1. Saved(p) = <<"verified", Record(j.cand, j.pushed, j.terminal)>> BY <2>2 DEF Saved, j
    <3> QED BY <1>2, <1>3, <2>1, <3>1
  <2>3. CASE ~(j.dec = "pass" \/ j.pushed = "yes") /\ j.dec = "cooldown"
    <3>1. PICK pushed \in {"none", "no"} : pushed = IF j.opts.cooldown THEN "no" ELSE "none"
      OBVIOUS
    <3>2. Saved(p) = <<j.path, Record(j.cand, pushed, j.terminal)>> BY <2>3, <3>1 DEF Saved, j
    <3> QED BY <1>2, <3>1, <3>2
  <2>4. CASE ~(j.dec = "pass" \/ j.pushed = "yes") /\ j.dec # "cooldown"
    <3>1. PICK pushed \in {"none", "no"} :
             pushed = IF j.path = "verified" THEN j.mem[j.path].pushed ELSE "none"
      BY <1>3
    <3>2. Saved(p) = <<j.path, Record(j.cand, pushed, FALSE)>> BY <2>4, <3>1 DEF Saved, j
    <3> QED BY <1>2, <3>1, <3>2
  <2> QED BY <2>2, <2>3, <2>4
<1>5. PICK s \in States, pushed \in {"none", "no", "yes"}, terminal \in BOOLEAN :
         /\ Saved(p) = <<s, Record(j.cand, pushed, terminal)>>
         /\ pushed = "yes" => s = "verified" /\ j.cand \in accepted
  BY <1>4
<1>6. PICK rec \in Records : /\ rec = Record(j.cand, pushed, terminal)
                             /\ rec.tok = j.cand /\ rec.pushed = pushed
  BY <1>2, RecordsTyped
<1>7. Finish(p, s, rec, 1) BY <1>1, <1>5, <1>6
<1>8. pc[p] # "unlink" /\ pc[p] # "store" /\ 1 \in 0..2 BY <1>1
<1>9. rec.pushed = "yes" => s = "verified" /\ rec.tok \in accepted BY <1>5, <1>6
<1> QED BY <1>1, <1>2, <1>7, <1>8, <1>9, FinishStep

LEMMA SkipIInv == ASSUME IInv, NEW p \in Reprobes, Skip(p) PROVE IInv'
<1>1. /\ pc[p] = "queued" /\ classes' = [classes EXCEPT ![p] = 1] /\ EndJob(p)
      /\ UNCHANGED <<file, newer, idlock, oplock, ckpt, issued, spent, accepted, runs, faults,
                     fresh, stored, mislaid>>
  BY DEF Skip, disk, locks, world
<1>2. p \in Actors /\ idlock # p /\ oplock # p
  BY <1>1, Ids DEF IInv, LocksHeld, Working
<1>3. /\ classes' \in [Reprobes -> 0..2] /\ fresh \in [Reprobes -> Writes]
      /\ ckpt \in [States -> Records] /\ accepted \subseteq Tokens /\ mislaid \in BOOLEAN
      /\ faults \in 0..MaxFaults
  BY <1>1 DEF IInv, TypeOK
<1>4. TrueRecords(ckpt)' BY <1>1 DEF IInv, RecordsTrue, TrueRecords
<1>5. pc[p] # "store" BY <1>1
<1> QED BY <1>1, <1>2, <1>3, <1>4, <1>5, EndStep

LEMMA ExportEndIInv ==
  ASSUME IInv, ExportLockTimeout \/ ExportPush
  PROVE  IInv'
<1>1. /\ EndJob(Export) /\ pc[Export] \in {"move", "push"}
      /\ accepted' \in {accepted, accepted \cup {job[Export].cand}}
      /\ UNCHANGED <<file, newer, idlock, oplock, ckpt, classes, issued, spent, runs, faults,
                     fresh, stored, mislaid>>
  BY DEF ExportLockTimeout, ExportPush, disk, locks, world
<1>2. Export \in Actors /\ Export \notin Reprobes /\ idlock # Export /\ oplock # Export
  BY <1>1, Ids DEF IInv, LocksHeld, TypeOK, Export, Free, Dead
<1>3. /\ classes \in [Reprobes -> 0..2] /\ fresh \in [Reprobes -> Writes]
      /\ ckpt \in [States -> Records] /\ accepted \subseteq Tokens /\ mislaid \in BOOLEAN
      /\ faults \in 0..MaxFaults
  BY <1>1 DEF IInv, TypeOK
<1>4. job[Export].cand \in Tokens BY <1>1, <1>2, JobTyped DEF IInv, ExportAlone
<1>5. accepted \subseteq accepted' /\ accepted' \subseteq Tokens BY <1>1, <1>3, <1>4
<1>6. TrueRecords(ckpt)' BY <1>1, <1>5 DEF IInv, RecordsTrue, TrueRecords
<1> QED BY <1>1, <1>2, <1>3, <1>5, <1>6, EndStep

LEMMA CrashIInv == ASSUME IInv, NEW a \in Actors, Crash(a) PROVE IInv'
<1>1. /\ EndJob(a) /\ faults < MaxFaults /\ faults' = faults + 1
      /\ \/ idlock' = IF idlock = a THEN Dead ELSE idlock
         \/ idlock = Free /\ idlock' = Dead
      /\ oplock' = (IF oplock = a THEN Dead ELSE oplock)
      /\ mislaid' = (mislaid \/ pc[a] = "store")
      /\ UNCHANGED <<file, newer, ckpt, classes, issued, spent, accepted, runs, fresh, stored>>
  BY DEF Crash, disk, world
<1>2. /\ classes \in [Reprobes -> 0..2] /\ fresh \in [Reprobes -> Writes]
      /\ ckpt \in [States -> Records] /\ accepted \subseteq Tokens /\ mislaid \in BOOLEAN
  BY DEF IInv, TypeOK
<1>3. faults' \in 0..MaxFaults BY <1>1, ConstantsOK DEF IInv, TypeOK
<1>4. TrueRecords(ckpt)' BY <1>1 DEF IInv, RecordsTrue, TrueRecords
<1>5. (oplock' = oplock \/ (oplock = a /\ oplock' \in {Free, Dead})) /\ oplock' # a
  BY <1>1, Ids
<1>6. mislaid' \in BOOLEAN /\ (mislaid => mislaid') /\ (pc[a] = "store" => mislaid')
  BY <1>1, <1>2
<1> QED BY <1>1, <1>2, <1>3, <1>4, <1>5, <1>6, EndStep

\* A run goes on with its path, the files left alone: it probes, refreshes or
\* pushes.
LEMMA WorkStep ==
  ASSUME IInv, NEW p \in Reprobes, Working(p), pc[p] \notin {"store", "unlink"},
         NEW to \in Stages \ {"off", "queued", "unlink"}, NEW j \in JobType,
         pc' = [pc EXCEPT ![p] = to], job' = [job EXCEPT ![p] = j],
         UNCHANGED <<file, newer, idlock, oplock, ckpt, classes, runs, faults, fresh, stored>>,
         j.path = job[p].path, j.fp = job[p].fp, j.mem = job[p].mem,
         issued <= issued', issued' \in 0..MaxTokens,
         spent \subseteq spent', spent' \subseteq (spent \cup {job[p].fp}) \cap (1..issued'),
         accepted \subseteq accepted', accepted' \subseteq Tokens,
         mislaid' \in BOOLEAN, mislaid => mislaid',
         spent' # spent => mislaid' \/ to = "store",
         j.cand <= issued', j.cand = job[p].fp \/ j.cand > issued,
         to # "store" => j.cand = j.fp,
         to = "store" => j.cand \notin spent' \cup {None},
         to \in {"probe", "refresh", "store", "second"} => j.pushed = "none",
         j.pushed = "yes" => j.cand \in accepted',
         to \in {"probe", "refresh", "store"} => pc[p] \in {"probe", "refresh"}
  PROVE  IInv'
<1>1. /\ pc' \in [Actors -> Stages] /\ job' \in [Actors -> JobType]
      /\ pc'[p] = to /\ job'[p] = j
      /\ \A b \in Actors : b # p => pc'[b] = pc[b] /\ job'[b] = job[b]
      /\ p \in Actors
  BY Ids, OneMoves DEF IInv
<1>2. job[p].fp # None /\ job[p].cand = job[p].fp BY DEF IInv, InMemory
<1>3. \A q \in Reprobes : q # p => ~Working(q) BY OneWorks DEF IInv
<1>4. \A q \in Reprobes : q # p => pc'[q] = pc[q] /\ job'[q] = job[q] BY <1>1, Ids
<1>5. pc'[Export] = pc[Export] /\ job'[Export] = job[Export] BY <1>1, Ids
<1>6. /\ issued \in Nat /\ issued' \in Nat
      /\ \A s \in States : file[s] \in Nat
      /\ \A a \in Actors : job[a].cand \in Nat /\ job[a].fp \in Nat
  <2>1. issued' \in Nat BY ConstantsOK
  <2> QED BY <2>1, Numbers DEF IInv
<1>7. TypeOK' BY <1>1 DEF IInv, TypeOK
<1>8. LocksHeld' BY <1>1, Ids DEF IInv, LocksHeld, Working
<1>9. FilesOrdered' BY DEF IInv, FilesOrdered, Newer
<1>10. ExportAlone'
  <2> SUFFICES ASSUME pc[Export] \in {"refresh", "second", "move"}
               PROVE  /\ \A q \in Reprobes : /\ job'[q].cand # job[Export].cand
                                             /\ job'[q].fp # job[Export].cand
                      /\ job[Export].cand \notin spent' \/ mislaid'
    BY <1>5 DEF IInv, ExportAlone
  <2>1. /\ \A q \in Reprobes : job[q].cand # job[Export].cand /\ job[q].fp # job[Export].cand
        /\ (job[Export].cand \notin spent \/ mislaid) /\ job[Export].cand <= issued
    BY Ids DEF IInv, ExportAlone, IssuedOnly
  <2>2. j.cand # job[Export].cand
    <3>1. job[Export].cand <= issued /\ job[Export].cand \in Nat
      BY <1>6, Ids DEF IInv, IssuedOnly
    <3>2. j.cand \in Nat BY DEF JobType, Tokens, None
    <3> QED BY <1>6, <2>1, <3>1, <3>2
  <2>3. job[Export].cand \notin spent' \/ mislaid'
    BY <2>1 DEF IInv, ExportAlone
  <2> QED BY <1>1, <1>4, <2>1, <2>2, <2>3
<1>11. IssuedOnly'
  <2>1. \A a \in Actors : job[a].cand <= issued' /\ job[a].fp <= issued'
    BY <1>6 DEF IInv, IssuedOnly
  <2>2. \A s \in States : file[s] <= issued' BY <1>6 DEF IInv, IssuedOnly
  <2>3. j.fp <= issued' BY <1>1, <2>1
  <2>4. ASSUME NEW a \in Actors PROVE job'[a].cand <= issued' /\ job'[a].fp <= issued'
    <3>1. CASE a = p BY <1>1, <2>3, <3>1
    <3>2. CASE a # p BY <1>1, <2>1, <3>2
    <3> QED BY <3>1, <3>2
  <2> QED BY <2>2, <2>4 DEF IssuedOnly
<1>12. Unlinking' BY <1>1 DEF IInv, Unlinking, Newer
<1>13. InMemory' BY <1>1, <1>2, <1>3, <1>4 DEF IInv, InMemory, Working
<1>14. ChangeIsSeen'
  <2>1. ASSUME NEW q \in Reprobes, Working(q)'
        PROVE  /\ fresh[q].new # {} => \/ file[job'[q].path] # job'[q].fp
                                       \/ \E s \in States : Newer(s, job'[q].path)
               /\ job'[q].path \in fresh[q].new => file[job'[q].path] # job'[q].fp
               /\ pc'[q] = "unlink" => fresh[q].new = {}
               /\ pc'[q] \in {"probe", "refresh", "store"} => fresh[q].old = {}
    <3>1. CASE q = p BY <1>1, <3>1 DEF IInv, ChangeIsSeen
    <3>2. CASE q # p BY <1>4, <2>1, <3>2 DEF IInv, ChangeIsSeen, Working
    <3> QED BY <3>1, <3>2
  <2> QED BY <2>1 DEF ChangeIsSeen, Newer
<1>15. NewestIsOther' BY <1>1, <1>4 DEF IInv, NewestIsOther, Newest, Newer
<1>16. NewestUsable'
  <2> SUFFICES ASSUME stored, ~mislaid'
               PROVE  \E s \in States :
                         /\ Newest(s)
                         /\ \/ file[s] \notin spent' \/ file[s] \in accepted'
                            \/ \E q \in Reprobes : pc'[q] = "store" /\ job'[q].fp = file[s]
    BY DEF NewestUsable, Newest, Newer
  <2>1. PICK s \in States :
           /\ Newest(s)
           /\ \/ file[s] \notin spent \/ file[s] \in accepted
              \/ \E q \in Reprobes : pc[q] = "store" /\ job[q].fp = file[s]
    BY DEF IInv, NewestUsable
  <2>2. ~ \E q \in Reprobes : pc[q] = "store" BY <1>3 DEF Working
  <2>3. file[s] \notin spent \/ file[s] \in accepted BY <2>1, <2>2
  <2>4. CASE file[s] \notin spent' \/ file[s] \in accepted' BY <2>1, <2>4
  <2>5. CASE file[s] \in spent' /\ file[s] \notin accepted'
    <3>1. file[s] = job[p].fp /\ spent' # spent BY <2>3, <2>5
    <3>2. to = "store" BY <3>1
    <3> QED BY <1>1, <2>1, <3>1, <3>2
  <2> QED BY <2>4, <2>5
<1>17. RecordsTrue'
  <2>1. ASSUME NEW q \in Reprobes
        PROVE  (/\ TrueRecords(job[q].mem)
                /\ job[q].pushed = "yes" => job[q].cand \in accepted
                /\ Working(q) /\ job[q].path = "verified" => job[q].mem["verified"].pushed = "no")'
    <3>1. CASE q = p BY <1>1, <3>1 DEF IInv, RecordsTrue, TrueRecords, Working
    <3>2. CASE q # p BY <1>4, <3>2 DEF IInv, RecordsTrue, TrueRecords, Working
    <3> QED BY <3>1, <3>2
  <2>2. TrueRecords(ckpt)' BY DEF IInv, RecordsTrue, TrueRecords
  <2> QED BY <2>1, <2>2 DEF RecordsTrue
<1> QED BY <1>7, <1>8, <1>9, <1>10, <1>11, <1>12, <1>13, <1>14, <1>15, <1>16, <1>17 DEF IInv

\* An export goes on with its token, or the one that replaces it.
LEMMA ExportWorkStep ==
  ASSUME IInv, pc[Export] \in {"off", "refresh", "second"},
         NEW to \in {"refresh", "second", "move"}, NEW j \in JobType,
         pc' = [pc EXCEPT ![Export] = to], job' = [job EXCEPT ![Export] = j],
         UNCHANGED <<file, newer, idlock, oplock, ckpt, classes, runs, faults, fresh, stored,
                     accepted>>,
         issued <= issued', issued' \in 0..MaxTokens,
         spent \subseteq spent', spent' \subseteq 1..issued',
         spent' # spent => pc[Export] = "refresh" /\ spent' = spent \cup {job[Export].cand},
         mislaid' \in BOOLEAN, mislaid => mislaid',
         j.cand # None, j.cand <= issued', j.fp <= issued,
         j.cand > issued \/ (pc[Export] # "off" /\ j.cand = job[Export].cand),
         j.cand \notin spent' \/ mislaid'
  PROVE  IInv'
<1>1. /\ pc' \in [Actors -> Stages] /\ job' \in [Actors -> JobType]
      /\ pc'[Export] = to /\ job'[Export] = j
      /\ \A b \in Actors : b # Export => pc'[b] = pc[b] /\ job'[b] = job[b]
  <2>1. to \in Stages BY DEF Stages
  <2> QED BY <2>1, Ids, OneMoves DEF IInv
<1>2. \A q \in Reprobes : pc'[q] = pc[q] /\ job'[q] = job[q] BY <1>1, Ids
<1>3. /\ issued \in Nat /\ issued' \in Nat /\ j.cand \in Nat /\ j.fp \in Nat
      /\ \A s \in States : file[s] \in Nat
      /\ \A a \in Actors : job[a].cand \in Nat /\ job[a].fp \in Nat
  <2>1. issued' \in Nat BY ConstantsOK
  <2> QED BY <2>1, Numbers DEF IInv
<1>4. /\ \A s \in States : file[s] <= issued
      /\ \A a \in Actors : job[a].cand <= issued /\ job[a].fp <= issued
  BY DEF IInv, IssuedOnly
<1>5. spent' # spent =>
         /\ \A s \in States : file[s] # job[Export].cand
         /\ \A p \in Reprobes : job[p].cand # job[Export].cand
  BY DEF IInv, ExportAlone
<1>6. TypeOK' BY <1>1 DEF IInv, TypeOK
<1>7. LocksHeld' BY <1>1, <1>2, Ids DEF IInv, LocksHeld, Working
<1>8. FilesOrdered' BY DEF IInv, FilesOrdered, Newer
<1>9. ExportAlone'
  <2>1. \A s \in States : file[s] # j.cand
    <3>1. CASE j.cand > issued BY <1>3, <1>4, <3>1
    <3>2. CASE pc[Export] # "off" /\ j.cand = job[Export].cand BY <3>2 DEF IInv, ExportAlone
    <3> QED BY <3>1, <3>2
  <2>2. ASSUME NEW p \in Reprobes PROVE job[p].cand # j.cand /\ job[p].fp # j.cand
    <3>1. CASE j.cand > issued BY <1>3, <1>4, <3>1, Ids
    <3>2. CASE pc[Export] # "off" /\ j.cand = job[Export].cand BY <3>2 DEF IInv, ExportAlone
    <3> QED BY <3>1, <3>2
  <2> QED BY <1>1, <1>2, <2>1, <2>2 DEF ExportAlone
<1>10. IssuedOnly'
  <2>1. \A s \in States : file[s] <= issued' BY <1>3, <1>4
  <2>2. ASSUME NEW a \in Actors PROVE job'[a].cand <= issued' /\ job'[a].fp <= issued'
    <3>1. CASE a = Export BY <1>1, <1>3, <3>1
    <3>2. CASE a # Export BY <1>1, <1>3, <1>4, <3>2
    <3> QED BY <3>1, <3>2
  <2> QED BY <2>1, <2>2 DEF IssuedOnly
<1>11. Unlinking' BY <1>1 DEF IInv, Unlinking, Newer
<1>12. InMemory'
  <2>1. \A p \in Reprobes : pc[p] = "store" => job[p].cand \notin spent'
    BY <1>5 DEF IInv, InMemory
  <2> QED BY <1>2, <2>1 DEF IInv, InMemory, Working
<1>13. ChangeIsSeen'
  <2>1. \A q \in Reprobes : Working(q)' <=> Working(q) BY <1>2 DEF Working
  <2> QED BY <1>2, <2>1 DEF IInv, ChangeIsSeen, Newer
<1>14. NewestIsOther' BY <1>2 DEF IInv, NewestIsOther, Newest, Newer
<1>15. NewestUsable'
  <2>1. \A s \in States : file[s] \notin spent => file[s] \notin spent' BY <1>5
  <2> QED BY <1>2, <2>1 DEF IInv, NewestUsable, Newest, Newer
<1>16. RecordsTrue' BY <1>2 DEF IInv, RecordsTrue, TrueRecords, Working
<1> QED BY <1>6, <1>7, <1>8, <1>9, <1>10, <1>11, <1>12, <1>13, <1>14, <1>15, <1>16 DEF IInv

LEMMA WhereTo ==
  /\ \A d \in Decisions : SideOf(d) \in States
  /\ \A p, d : After(p, d) \in {"push", "move", "conclude"}
<1>1. \A d \in Decisions : SideOf(d) \in States BY DEF SideOf, States
<1>2. ASSUME NEW p, NEW d PROVE After(p, d) \in {"push", "move", "conclude"}
  <2> DEFINE pushes == d = "cooldown" /\ job[p].opts.cooldown /\ job[p].opts.remote
  <2>1. CASE pushes
    <3>1. After(p, d) = "push" BY <2>1 DEF After
    <3> QED BY <3>1
  <2>2. CASE ~pushes /\ job[p].path # "verified"
    <3>1. After(p, d) = "move" BY <2>2 DEF After
    <3> QED BY <3>1
  <2>3. CASE ~pushes /\ job[p].path = "verified" /\ d = "pass" /\ job[p].opts.remote
    <3>1. After(p, d) = "push" BY <2>3 DEF After
    <3> QED BY <3>1
  <2>4. CASE ~pushes /\ job[p].path = "verified" /\ ~(d = "pass" /\ job[p].opts.remote)
    <3>1. After(p, d) = "conclude" BY <2>4 DEF After
    <3> QED BY <3>1
  <2> QED BY <2>1, <2>2, <2>3, <2>4
<1> QED BY <1>1, <1>2

\* What a run at work has to say of itself.
LEMMA AtWork ==
  ASSUME IInv, NEW p \in Reprobes, Working(p), pc[p] # "store"
  PROVE  /\ job[p] \in JobType /\ job[p].path \in States
         /\ job[p].cand = job[p].fp /\ job[p].cand \in Tokens /\ job[p].cand <= issued
         /\ issued \in 0..MaxTokens /\ issued \in Nat /\ job[p].cand \in Nat
         /\ spent \subseteq 1..issued /\ accepted \subseteq Tokens /\ mislaid \in BOOLEAN
         /\ job[p].pushed = "yes" => job[p].cand \in accepted
         /\ pc[p] \in {"probe", "refresh", "second"} => job[p].pushed = "none"
<1>1. p \in Actors /\ TypeOK BY Ids DEF IInv
<1>2. job[p].cand = job[p].fp /\ job[p].fp # None BY DEF IInv, InMemory
<1>3. job[p].cand \in Tokens BY <1>1, <1>2, JobTyped
<1>4. job[p].cand <= issued BY <1>1 DEF IInv, IssuedOnly
<1>5. pc[p] \in {"probe", "refresh", "second"} => job[p].pushed = "none" BY DEF IInv, InMemory
<1>6. job[p].pushed = "yes" => job[p].cand \in accepted BY DEF IInv, RecordsTrue
<1>7. issued \in 0..MaxTokens /\ spent \subseteq 1..issued /\ accepted \subseteq Tokens
      /\ mislaid \in BOOLEAN
  BY <1>1 DEF TypeOK
<1> QED BY <1>1, <1>2, <1>3, <1>4, <1>5, <1>6, <1>7, JobTyped, Numbers

LEMMA ProbeIInv == ASSUME IInv, NEW p \in Reprobes, Probe(p) PROVE IInv'
<1>1. PICK d \in Decisions :
         /\ job' = [job EXCEPT ![p].dec = d, ![p].dest = SideOf(d)]
         /\ Goto(p, IF d = "refresh" /\ pc[p] = "probe" THEN "refresh" ELSE After(p, d))
  BY DEF Probe
<1>2. /\ pc[p] \in {"probe", "second"}
      /\ UNCHANGED <<file, newer, idlock, oplock, ckpt, classes, issued, spent, accepted,
                     runs, faults, fresh, stored, mislaid>>
  BY DEF Probe, disk, locks, world
<1>3. Working(p) /\ pc[p] \notin {"store", "unlink"} BY <1>2 DEF Working
<1> DEFINE j == [job[p] EXCEPT !.dec = d, !.dest = SideOf(d)]
<1>4. /\ job[p] \in JobType /\ job[p].cand = job[p].fp /\ job[p].cand \in Tokens
      /\ job[p].cand <= issued /\ issued \in 0..MaxTokens /\ issued \in Nat
      /\ spent \subseteq 1..issued /\ accepted \subseteq Tokens /\ mislaid \in BOOLEAN
      /\ job[p].pushed = "yes" => job[p].cand \in accepted
      /\ job[p].pushed = "none"
  BY <1>2, <1>3, AtWork
<1>5. SideOf(d) \in States BY WhereTo
<1>6. /\ j \in JobType /\ j.path = job[p].path /\ j.fp = job[p].fp /\ j.mem = job[p].mem
      /\ j.cand = job[p].cand /\ j.pushed = "none"
  BY <1>4, <1>5 DEF JobType
<1>7. job' = [job EXCEPT ![p] = j] BY <1>1, <1>4, Ids DEF IInv, TypeOK
<1>8. PICK to \in {"refresh", "push", "move", "conclude"} :
         /\ pc' = [pc EXCEPT ![p] = to]
         /\ to = "refresh" => pc[p] = "probe"
  <2>1. CASE d = "refresh" /\ pc[p] = "probe" BY <1>1, <2>1 DEF Goto
  <2>2. CASE ~(d = "refresh" /\ pc[p] = "probe")
    <3>1. After(p, d) \in {"push", "move", "conclude"} BY WhereTo
    <3>2. pc' = [pc EXCEPT ![p] = After(p, d)] BY <1>1, <2>2 DEF Goto
    <3> QED BY <3>1, <3>2
  <2> QED BY <2>1, <2>2
<1>9. /\ to \in Stages \ {"off", "queued", "unlink"}
      /\ to # "store" /\ (to \in {"probe", "refresh", "store"} => pc[p] \in {"probe", "refresh"})
  BY <1>8 DEF Stages
<1>10. j.pushed # "yes" BY <1>6
<1>11. /\ issued <= issued' /\ issued' \in 0..MaxTokens /\ spent \subseteq spent'
       /\ spent' \subseteq (spent \cup {job[p].fp}) \cap (1..issued') /\ spent' = spent
       /\ accepted \subseteq accepted' /\ accepted' \subseteq Tokens
       /\ mislaid' \in BOOLEAN /\ (mislaid => mislaid')
  BY <1>2, <1>4
<1> HIDE DEF j
<1>12. j.cand <= issued' /\ j.cand = job[p].fp BY <1>2, <1>4, <1>6
<1> QED BY <1>2, <1>3, <1>6, <1>7, <1>8, <1>9, <1>10, <1>11, <1>12, WorkStep

LEMMA PushIInv == ASSUME IInv, NEW p \in Reprobes, Push(p) PROVE IInv'
<1>1. PICK taken, ok, terminal \in BOOLEAN :
         /\ ok => taken /\ ~terminal
         /\ accepted' = IF taken THEN accepted \cup {job[p].cand} ELSE accepted
         /\ job' = [job EXCEPT ![p].pushed = IF ok THEN "yes" ELSE "no",
                               ![p].terminal = terminal,
                               ![p].dest = IF ok THEN "verified" ELSE @]
         /\ Goto(p, IF job[p].dec = "pass" \/ (~ok /\ job[p].path = "verified")
                    THEN "conclude" ELSE "move")
  BY DEF Push
<1>2. /\ pc[p] = "push"
      /\ UNCHANGED <<file, newer, idlock, oplock, ckpt, classes, issued, spent,
                     runs, faults, fresh, stored, mislaid>>
  BY DEF Push, disk, locks
<1>3. Working(p) /\ pc[p] \notin {"store", "unlink"} BY <1>2 DEF Working
<1>4. /\ job[p] \in JobType /\ job[p].cand = job[p].fp /\ job[p].cand \in Tokens
      /\ job[p].cand <= issued /\ issued \in 0..MaxTokens /\ issued \in Nat
      /\ spent \subseteq 1..issued /\ accepted \subseteq Tokens /\ mislaid \in BOOLEAN
  BY <1>2, <1>3, AtWork
<1>5. PICK pushed \in {"none", "no", "yes"} : pushed = IF ok THEN "yes" ELSE "no" OBVIOUS
<1>6. PICK dest \in States : dest = IF ok THEN "verified" ELSE job[p].dest
  BY <1>4 DEF States, JobType
<1> DEFINE j == [job[p] EXCEPT !.pushed = pushed, !.terminal = terminal, !.dest = dest]
<1>7. /\ j \in JobType /\ j.path = job[p].path /\ j.fp = job[p].fp /\ j.mem = job[p].mem
      /\ j.cand = job[p].cand /\ j.pushed = pushed
  BY <1>4, <1>6 DEF JobType
<1>8. job' = [job EXCEPT ![p] = j]
  <2>1. job' = [job EXCEPT ![p] = [job[p] EXCEPT !.pushed = IF ok THEN "yes" ELSE "no",
                                                 !.terminal = terminal,
                                                 !.dest = IF ok THEN "verified" ELSE @]]
    BY <1>1, <1>4, Ids DEF IInv, TypeOK
  <2> QED BY <1>5, <1>6, <2>1
<1>9. PICK to \in {"move", "conclude"} : pc' = [pc EXCEPT ![p] = to] BY <1>1 DEF Goto
<1>10. /\ to \in Stages \ {"off", "queued", "unlink"} /\ to # "store"
       /\ ~(to \in {"probe", "refresh", "store", "second"})
  BY <1>9 DEF Stages
<1>11. accepted \subseteq accepted' /\ accepted' \subseteq Tokens
       /\ (pushed = "yes" => job[p].cand \in accepted')
  BY <1>1, <1>4, <1>5
<1> HIDE DEF j
<1>12. j.pushed = "yes" => j.cand \in accepted' BY <1>7, <1>11
<1>13. /\ issued <= issued' /\ issued' \in 0..MaxTokens /\ spent \subseteq spent'
       /\ spent' \subseteq (spent \cup {job[p].fp}) \cap (1..issued') /\ spent' = spent
       /\ mislaid' \in BOOLEAN /\ (mislaid => mislaid')
  BY <1>2, <1>4
<1>14. j.cand <= issued' /\ j.cand = job[p].fp BY <1>2, <1>4, <1>7
<1> QED BY <1>2, <1>3, <1>7, <1>8, <1>9, <1>10, <1>11, <1>12, <1>13, <1>14, WorkStep

LEMMA RefreshIInv == ASSUME IInv, NEW p \in Reprobes, Refresh(p) PROVE IInv'
<1>1. /\ pc[p] = "refresh"
      /\ UNCHANGED <<file, newer, idlock, oplock, ckpt, classes, runs, faults, fresh, stored>>
  BY DEF Refresh, disk, locks
<1>2. Working(p) /\ pc[p] \notin {"store", "unlink"} BY <1>1 DEF Working
<1>3. /\ job[p] \in JobType /\ job[p].cand = job[p].fp /\ job[p].cand \in Tokens
      /\ job[p].cand <= issued /\ issued \in 0..MaxTokens /\ issued \in Nat
      /\ spent \subseteq 1..issued /\ accepted \subseteq Tokens /\ mislaid \in BOOLEAN
      /\ job[p].pushed = "none" /\ job[p].cand \in Nat
  BY <1>1, <1>2, AtWork
<1>4. job[p].cand \in 1..issued BY <1>3 DEF Tokens
<1>5. CASE Refreshed(p) /\ Goto(p, "store")
  <2> DEFINE j == [job[p] EXCEPT !.cand = issued + 1]
  <2>1. /\ issued < MaxTokens /\ issued' = issued + 1 /\ spent' = spent \cup {job[p].cand}
        /\ job' = [job EXCEPT ![p].cand = issued + 1]
        /\ pc' = [pc EXCEPT ![p] = "store"] /\ UNCHANGED <<accepted, mislaid>>
    BY <1>5 DEF Refreshed, Goto
  <2>2. issued + 1 \in Tokens /\ issued' \in 0..MaxTokens /\ issued <= issued'
    BY <1>3, <2>1, ConstantsOK DEF Tokens
  <2>3. /\ j \in JobType /\ j.path = job[p].path /\ j.fp = job[p].fp /\ j.mem = job[p].mem
        /\ j.cand = issued + 1 /\ j.pushed = "none"
    BY <1>3, <2>2 DEF JobType
  <2>4. job' = [job EXCEPT ![p] = j] BY <1>3, <2>1, Ids DEF IInv, TypeOK
  <2>5. spent' \subseteq (spent \cup {job[p].fp}) \cap (1..issued') BY <1>3, <1>4, <2>1
  <2>6. issued + 1 \notin spent' /\ issued + 1 # None /\ issued + 1 > issued
        /\ issued + 1 <= issued'
    BY <1>3, <1>4, <2>1 DEF None
  <2>7. "store" \in Stages \ {"off", "queued", "unlink"} BY DEF Stages
  <2> HIDE DEF j
  <2>8. j.cand \notin spent' \cup {None} /\ j.cand > issued /\ j.cand <= issued' BY <2>3, <2>6
  <2>9. j.pushed # "yes" BY <2>3
  <2>10. spent \subseteq spent' BY <2>1
  <2> QED BY <1>1, <1>2, <1>3, <2>1, <2>2, <2>3, <2>4, <2>5, <2>7, <2>8, <2>9, <2>10, WorkStep
<1>6. CASE (RefreshLost(p) \/ RefreshFails) /\ Goto(p, After(p, "refresh"))
  <2>1. PICK to \in {"push", "move", "conclude"} : pc' = [pc EXCEPT ![p] = to]
    BY <1>6, WhereTo DEF Goto
  <2>2. /\ to \in Stages \ {"off", "queued", "unlink"} /\ to # "store"
        /\ ~(to \in {"probe", "refresh", "store", "second"})
    BY <2>1 DEF Stages
  <2>3. UNCHANGED <<accepted, job>> BY <1>6 DEF RefreshLost, RefreshFails, world
  <2>4. job' = [job EXCEPT ![p] = job[p]] BY <2>3, Ids DEF IInv, TypeOK
  <2>5. /\ issued' \in 0..MaxTokens /\ issued <= issued' /\ spent \subseteq spent'
        /\ spent' \subseteq (spent \cup {job[p].fp}) \cap (1..issued')
        /\ mislaid' \in BOOLEAN /\ (mislaid => mislaid') /\ (spent' # spent => mislaid')
    <3>1. CASE RefreshLost(p)
      <4>1. /\ issued < MaxTokens /\ issued' = issued + 1 /\ spent' = spent \cup {job[p].cand}
            /\ mislaid' = TRUE
        BY <3>1 DEF RefreshLost
      <4>2. issued' \in 0..MaxTokens /\ issued <= issued' BY <1>3, <4>1, ConstantsOK
      <4>3. \A t \in 1..issued : t \in 1..issued' BY <1>3, <4>1
      <4>4. spent' \subseteq 1..issued' BY <1>3, <1>4, <4>1, <4>3
      <4>5. spent' \subseteq (spent \cup {job[p].fp}) \cap (1..issued')
        BY <1>3, <4>1, <4>4
      <4> QED BY <4>1, <4>2, <4>5
    <3>2. CASE RefreshFails
      <4>1. issued' = issued /\ spent' = spent /\ mislaid' = mislaid
        BY <3>2 DEF RefreshFails, world
      <4> QED BY <1>3, <4>1
    <3> QED BY <1>6, <3>1, <3>2
  <2>6. job[p].cand <= issued'
    <3>1. issued' \in Nat BY <2>5, ConstantsOK
    <3> QED BY <1>3, <2>5, <3>1
  <2>7. job[p].pushed # "yes" BY <1>3
  <2> QED BY <1>1, <1>2, <1>3, <2>1, <2>2, <2>3, <2>4, <2>5, <2>6, <2>7, WorkStep
<1> QED BY <1>5, <1>6 DEF Refresh
LEMMA ExportWorksIInv ==
  ASSUME IInv, ExportMint \/ ExportProbeAgain \/ ExportRefresh
  PROVE  IInv'
<1>1. UNCHANGED <<file, newer, idlock, oplock, ckpt, classes, runs, faults, fresh, stored,
                  accepted>>
  BY DEF ExportMint, ExportProbeAgain, ExportRefresh, Refreshed, RefreshLost, RefreshFails,
         disk, locks, world
<1>2. /\ job[Export] \in JobType /\ job \in [Actors -> JobType] /\ Export \in Actors
      /\ issued \in 0..MaxTokens /\ issued \in Nat /\ MaxTokens \in Nat
      /\ spent \subseteq 1..issued /\ mislaid \in BOOLEAN
      /\ job[Export].cand <= issued /\ job[Export].fp <= issued /\ job[Export].cand \in Nat
      /\ \A d \in Decisions : SideOf(d) \in States
  BY Ids, JobTyped, Numbers, WhereTo, ConstantsOK DEF IInv, TypeOK, IssuedOnly
<1>3. \A t \in 1..issued : t \in 1..(issued + 1) BY <1>2
<1>4. CASE ExportMint
  <2>1. PICK d \in Decisions :
           /\ job' = [job EXCEPT ![Export].cand = issued + 1, ![Export].dest = SideOf(d)]
           /\ Goto(Export, IF d = "refresh" THEN "refresh" ELSE "move")
    BY <1>4 DEF ExportMint
  <2>2. /\ pc[Export] = "off" /\ issued < MaxTokens /\ issued' = issued + 1
        /\ UNCHANGED <<spent, mislaid>>
    BY <1>4 DEF ExportMint
  <2>3. PICK to \in {"refresh", "second", "move"} : pc' = [pc EXCEPT ![Export] = to]
    BY <2>1 DEF Goto
  <2> DEFINE j == [job[Export] EXCEPT !.cand = issued + 1, !.dest = SideOf(d)]
  <2>4. issued + 1 \in Tokens /\ issued' \in 0..MaxTokens /\ issued <= issued'
        /\ issued + 1 # None /\ issued + 1 <= issued' /\ issued + 1 > issued
        /\ issued + 1 \notin spent' /\ spent' \subseteq 1..issued' /\ spent' = spent
    BY <1>2, <1>3, <2>2 DEF Tokens, None
  <2>5. j \in JobType /\ j.cand = issued + 1 /\ j.fp = job[Export].fp
    BY <1>2, <2>4 DEF JobType
  <2>6. job' = [job EXCEPT ![Export] = j] BY <1>2, <2>1
  <2> HIDE DEF j
  <2>7. /\ j.cand # None /\ j.cand <= issued' /\ j.fp <= issued /\ j.cand > issued
        /\ j.cand \notin spent'
    BY <1>2, <2>4, <2>5
  <2>8. /\ mislaid' \in BOOLEAN /\ (mislaid => mislaid') /\ spent \subseteq spent'
        /\ pc[Export] \in {"off", "refresh", "second"}
    BY <1>2, <2>2
  <2> QED BY <1>1, <2>3, <2>4, <2>5, <2>6, <2>7, <2>8, ExportWorkStep
<1>5. ASSUME pc[Export] # "off"
      PROVE  job[Export].cand # None /\ (pc[Export] \in {"refresh", "second"} =>
                                            job[Export].cand \notin spent \/ mislaid)
  BY <1>5 DEF IInv, ExportAlone
<1>6. CASE ExportProbeAgain
  <2>1. PICK d \in Decisions : job' = [job EXCEPT ![Export].dest = SideOf(d)]
    BY <1>6 DEF ExportProbeAgain
  <2>2. /\ pc[Export] = "second" /\ pc' = [pc EXCEPT ![Export] = "move"]
        /\ UNCHANGED <<issued, spent, mislaid>>
    BY <1>6 DEF ExportProbeAgain, Goto, world
  <2> DEFINE j == [job[Export] EXCEPT !.dest = SideOf(d)]
  <2>3. j \in JobType /\ j.cand = job[Export].cand /\ j.fp = job[Export].fp
    BY <1>2 DEF JobType
  <2>4. job' = [job EXCEPT ![Export] = j] BY <1>2, <2>1
  <2> HIDE DEF j
  <2>5. /\ j.cand # None /\ j.cand <= issued' /\ j.fp <= issued
        /\ pc[Export] # "off" /\ j.cand = job[Export].cand
        /\ j.cand \notin spent' \/ mislaid'
    BY <1>2, <1>5, <2>2, <2>3
  <2>6. /\ mislaid' \in BOOLEAN /\ (mislaid => mislaid') /\ spent \subseteq spent'
        /\ spent' = spent /\ spent' \subseteq 1..issued'
        /\ issued' \in 0..MaxTokens /\ issued <= issued'
        /\ pc[Export] \in {"off", "refresh", "second"}
        /\ "move" \in {"refresh", "second", "move"}
    BY <1>2, <2>2
  <2> QED BY <1>1, <2>2, <2>3, <2>4, <2>5, <2>6, ExportWorkStep
<1>7. CASE ExportRefresh
  <2>1. pc[Export] = "refresh" /\ pc[Export] # "off" BY <1>7 DEF ExportRefresh
  <2>2. job[Export].cand \in 1..issued
    BY <1>2, <1>5, <2>1 DEF None
  <2>3. CASE Refreshed(Export) /\ Goto(Export, "second")
    <3>1. /\ issued < MaxTokens /\ issued' = issued + 1 /\ spent' = spent \cup {job[Export].cand}
          /\ job' = [job EXCEPT ![Export].cand = issued + 1]
          /\ pc' = [pc EXCEPT ![Export] = "second"] /\ mislaid' = mislaid
      BY <2>3 DEF Refreshed, Goto
    <3> DEFINE j == [job[Export] EXCEPT !.cand = issued + 1]
    <3>2. issued + 1 \in Tokens /\ issued' \in 0..MaxTokens /\ issued <= issued'
          /\ issued + 1 # None /\ issued + 1 <= issued' /\ issued + 1 > issued
          /\ issued + 1 \notin spent'
      BY <1>2, <2>2, <3>1 DEF Tokens, None
    <3>3. spent' \subseteq 1..issued' BY <1>2, <1>3, <2>2, <3>1
    <3>4. j \in JobType /\ j.cand = issued + 1 /\ j.fp = job[Export].fp
      BY <1>2, <3>2 DEF JobType
    <3>5. job' = [job EXCEPT ![Export] = j] BY <1>2, <3>1
    <3> HIDE DEF j
    <3>6. /\ j.cand # None /\ j.cand <= issued' /\ j.fp <= issued /\ j.cand > issued
          /\ j.cand \notin spent'
      BY <1>2, <3>2, <3>4
    <3>7. /\ mislaid' \in BOOLEAN /\ (mislaid => mislaid') /\ spent \subseteq spent'
          /\ pc[Export] \in {"off", "refresh", "second"}
          /\ "second" \in {"refresh", "second", "move"}
      BY <1>2, <2>1, <3>1
    <3> QED BY <1>1, <2>1, <3>1, <3>2, <3>3, <3>4, <3>5, <3>6, <3>7, ExportWorkStep
  <2>4. CASE (RefreshLost(Export) \/ RefreshFails) /\ Goto(Export, "move")
    <3>1. job' = [job EXCEPT ![Export] = job[Export]]
      BY <1>2, <2>4 DEF RefreshLost, RefreshFails
    <3>2. pc' = [pc EXCEPT ![Export] = "move"] BY <2>4 DEF Goto
    <3>3. /\ issued' \in 0..MaxTokens /\ issued <= issued' /\ spent \subseteq spent'
          /\ spent' \subseteq 1..issued'
          /\ spent' # spent => spent' = spent \cup {job[Export].cand}
          /\ mislaid' \in BOOLEAN /\ (mislaid => mislaid')
          /\ job[Export].cand \notin spent' \/ mislaid'
      <4>1. CASE RefreshLost(Export)
        <5>1. /\ issued < MaxTokens /\ issued' = issued + 1 /\ mislaid' = TRUE
              /\ spent' = spent \cup {job[Export].cand}
          BY <4>1 DEF RefreshLost
        <5>2. issued' \in 0..MaxTokens /\ issued <= issued' BY <1>2, <5>1
        <5>3. spent' \subseteq 1..issued' BY <1>2, <1>3, <2>2, <5>1
        <5> QED BY <5>1, <5>2, <5>3
      <4>2. CASE RefreshFails
        <5>1. issued' = issued /\ spent' = spent /\ mislaid' = mislaid
          BY <4>2 DEF RefreshFails, world
        <5> QED BY <1>2, <1>5, <2>1, <5>1
      <4> QED BY <2>4, <4>1, <4>2
    <3>4. job[Export].cand <= issued'
      <4>1. issued' \in Nat BY <1>2, <3>3
      <4> QED BY <1>2, <3>3, <4>1
    <3>5. /\ job[Export].cand # None /\ "move" \in {"refresh", "second", "move"}
          /\ pc[Export] \in {"off", "refresh", "second"}
      BY <1>5, <2>1
    <3> QED BY <1>1, <1>2, <2>1, <3>1, <3>2, <3>3, <3>4, <3>5, ExportWorkStep
  <2> QED BY <1>7, <2>3, <2>4 DEF ExportRefresh
<1> QED BY <1>4, <1>6, <1>7

LEMMA StartRunIInv == ASSUME IInv, NEW p \in Reprobes, StartRun(p) PROVE IInv'
<1>1. PICK o \in Options, s \in States :
         job' = [job EXCEPT ![p] = [NoJob EXCEPT !.path = s, !.opts = o, !.mem = ckpt]]
  BY DEF StartRun
<1>2. /\ runs = p - 1 /\ runs' = p /\ pc' = [pc EXCEPT ![p] = "queued"]
      /\ UNCHANGED <<file, newer, idlock, oplock, ckpt, classes, issued, spent, accepted,
                     faults, fresh, stored, mislaid>>
  BY DEF StartRun, Goto, disk, locks, world
<1> DEFINE j == [NoJob EXCEPT !.path = s, !.opts = o, !.mem = ckpt]
<1>3. /\ j \in JobType /\ j.cand = None /\ j.fp = None /\ j.pushed = "none" /\ j.mem = ckpt
  <2>1. NoJob \in JobType BY NoJobTyped
  <2>2. o \in [verified : BOOLEAN, cooldown : BOOLEAN, remote : BOOLEAN] BY ConstantsOK
  <2>3. ckpt \in [States -> Records] BY DEF IInv, TypeOK
  <2> QED BY <2>1, <2>2, <2>3, NoJobTyped DEF JobType
<1>4. job' = [job EXCEPT ![p] = j] BY <1>1
<1> HIDE DEF j
<1>5. /\ pc' \in [Actors -> Stages] /\ job' \in [Actors -> JobType]
      /\ pc'[p] = "queued" /\ job'[p] = j /\ p \in Actors
      /\ \A b \in Actors : b # p => pc'[b] = pc[b] /\ job'[b] = job[b]
  <2>1. "queued" \in Stages BY DEF Stages
  <2> QED BY <1>2, <1>3, <1>4, <2>1, Ids, OneMoves DEF IInv
<1>6. /\ \A q \in Reprobes : q # p => pc'[q] = pc[q] /\ job'[q] = job[q]
      /\ pc'[Export] = pc[Export] /\ job'[Export] = job[Export]
  BY <1>5, Ids
<1>7. p \in 1..MaxRuns /\ p \in Nat /\ p > runs /\ runs' \in 0..MaxRuns /\ pc[p] = "off"
  BY <1>2, ConstantsOK DEF IInv, TypeOK, LocksHeld, Reprobes
<1>8. TypeOK' BY <1>2, <1>5, <1>7 DEF IInv, TypeOK
<1>9. LocksHeld'
  <2>1. \A q \in Reprobes : q > p => q > runs BY <1>2, <1>7 DEF Reprobes
  <2>2. \A q \in Reprobes : q > p => q # p BY <1>7 DEF Reprobes
  <2>3. \A q \in Reprobes : q > runs' => pc'[q] = "off"
    BY <1>2, <1>6, <2>1, <2>2 DEF IInv, LocksHeld
  <2> QED BY <1>2, <1>5, <1>6, <1>7, <2>3 DEF IInv, LocksHeld, Working
<1>10. FilesOrdered' BY <1>2 DEF IInv, FilesOrdered, Newer
<1>11. ExportAlone' BY <1>2, <1>3, <1>5, <1>6 DEF IInv, ExportAlone
<1>12. IssuedOnly'
  <2>1. None <= issued BY Numbers DEF IInv, None
  <2> QED BY <1>2, <1>3, <1>5, <2>1 DEF IInv, IssuedOnly
<1>13. Unlinking' BY <1>2, <1>5 DEF IInv, Unlinking, Newer
<1>14. InMemory' BY <1>2, <1>3, <1>5, <1>6 DEF IInv, InMemory, Working
<1>15. ChangeIsSeen'
  <2>1. \A q \in Reprobes : Working(q)' => Working(q) /\ q # p
    BY <1>5, <1>6 DEF Working
  <2> QED BY <1>2, <1>6, <2>1 DEF IInv, ChangeIsSeen, Newer
<1>16. NewestIsOther' BY <1>2, <1>5, <1>6 DEF IInv, NewestIsOther, Newest, Newer
<1>17. NewestUsable'
  <2>1. \A q \in Reprobes : pc[q] = "store" => pc'[q] = "store" /\ job'[q] = job[q]
    BY <1>6, <1>7
  <2> QED BY <1>2, <2>1 DEF IInv, NewestUsable, Newest, Newer
<1>18. RecordsTrue'
  <2>1. TrueRecords(ckpt)' BY <1>2 DEF IInv, RecordsTrue, TrueRecords
  <2> QED BY <1>2, <1>3, <1>5, <1>6, <2>1 DEF IInv, RecordsTrue, TrueRecords, Working
<1> QED BY <1>8, <1>9, <1>10, <1>11, <1>12, <1>13, <1>14, <1>15, <1>16, <1>17, <1>18 DEF IInv

LEMMA ReadIInv == ASSUME IInv, NEW p \in Reprobes, Read(p) PROVE IInv'
<1> DEFINE t == file[job[p].path]
           j == [job[p] EXCEPT !.cand = t, !.fp = t]
<1>0. /\ ~Skips(p, t) /\ job' = [job EXCEPT ![p].cand = t, ![p].fp = t]
      /\ fresh' = [fresh EXCEPT ![p] = NoWrites] /\ pc' = [pc EXCEPT ![p] = "probe"]
  BY DEF Read, Goto
<1>1. /\ pc[p] = "queued" /\ oplock = Free /\ oplock' = p /\ t # None
      /\ UNCHANGED <<file, newer, idlock, ckpt, classes, issued, spent, accepted, runs, faults,
                     stored, mislaid>>
  BY DEF Read, disk, world
<1>2. /\ job[p] \in JobType /\ job[p].path \in States /\ p \in Actors
      /\ t \in Tokens /\ t <= issued
  BY <1>1, Ids, JobTyped DEF IInv, TypeOK, IssuedOnly
<1>3. /\ j \in JobType /\ j.path = job[p].path /\ j.mem = job[p].mem /\ j.cand = t /\ j.fp = t
      /\ j.pushed = job[p].pushed
  BY <1>2 DEF JobType
<1>4. job' = [job EXCEPT ![p] = j] BY <1>0, <1>2 DEF IInv, TypeOK
<1>5. job[p].pushed = "none" BY <1>1 DEF IInv, InMemory
<1>6. job[p].path = "verified" => job[p].mem["verified"].pushed = "no"
  BY <1>0 DEF Skips
<1> HIDE DEF j
<1>7. /\ pc' \in [Actors -> Stages] /\ job' \in [Actors -> JobType]
      /\ pc'[p] = "probe" /\ job'[p] = j
      /\ \A b \in Actors : b # p => pc'[b] = pc[b] /\ job'[b] = job[b]
  <2>1. "probe" \in Stages BY DEF Stages
  <2> QED BY <1>0, <1>2, <1>3, <1>4, <2>1, OneMoves DEF IInv
<1>8. /\ \A q \in Reprobes : q # p => pc'[q] = pc[q] /\ job'[q] = job[q]
      /\ pc'[Export] = pc[Export] /\ job'[Export] = job[Export]
  BY <1>7, Ids
<1>9. /\ fresh' \in [Reprobes -> Writes] /\ fresh'[p].new = {} /\ fresh'[p].old = {}
      /\ \A q \in Reprobes : q # p => fresh'[q] = fresh[q]
  BY <1>0, NoWritesTyped DEF IInv, TypeOK
<1>10. TypeOK' BY <1>1, <1>7, <1>9 DEF IInv, TypeOK
<1>11. LocksHeld'
  <2>1. \A q \in Reprobes : ~Working(q) BY <1>1, Ids DEF IInv, LocksHeld
  <2>2. \A q \in Reprobes : q > runs => q # p BY <1>1 DEF IInv, LocksHeld
  <2> QED BY <1>1, <1>7, <1>8, <2>1, <2>2, Ids DEF IInv, LocksHeld, Working
<1>12. FilesOrdered' BY <1>1 DEF IInv, FilesOrdered, Newer
<1>13. ExportAlone'
  <2>1. pc[Export] \in {"refresh", "second", "move"} => j.cand # job[Export].cand
                                                        /\ j.fp # job[Export].cand
    BY <1>2, <1>3 DEF IInv, ExportAlone
  <2> QED BY <1>1, <1>7, <1>8, <2>1 DEF IInv, ExportAlone
<1>14. IssuedOnly' BY <1>1, <1>2, <1>3, <1>7 DEF IInv, IssuedOnly
<1>15. Unlinking' BY <1>1, <1>7 DEF IInv, Unlinking, Newer
<1>16. InMemory' BY <1>1, <1>3, <1>5, <1>7, <1>8 DEF IInv, InMemory, Working
<1>17. ChangeIsSeen'
  <2> SUFFICES ASSUME NEW q \in Reprobes, Working(q)'
               PROVE  (/\ fresh[q].new # {} => \/ file[job[q].path] # job[q].fp
                                               \/ \E s \in States : Newer(s, job[q].path)
                       /\ job[q].path \in fresh[q].new => file[job[q].path] # job[q].fp
                       /\ pc[q] = "unlink" => fresh[q].new = {}
                       /\ pc[q] \in {"probe", "refresh", "store"} => fresh[q].old = {})'
    BY DEF ChangeIsSeen
  <2>1. CASE q = p BY <1>7, <1>9, <2>1
  <2>2. CASE q # p
    <3>1. pc'[q] = pc[q] /\ job'[q] = job[q] /\ fresh'[q] = fresh[q] BY <1>8, <1>9, <2>2
    <3>2. Working(q) BY <3>1 DEF Working
    <3> QED BY <1>1, <3>1, <3>2 DEF IInv, ChangeIsSeen, Newer
  <2> QED BY <2>1, <2>2
<1>18. NewestIsOther'
  BY <1>1, <1>3, <1>7, <1>8 DEF IInv, NewestIsOther, Newest, Newer
<1>19. NewestUsable'
  <2>1. \A q \in Reprobes : pc[q] = "store" => pc'[q] = "store" /\ job'[q] = job[q]
    BY <1>1, <1>8
  <2> QED BY <1>1, <2>1 DEF IInv, NewestUsable, Newest, Newer
<1>20. RecordsTrue'
  <2>1. TrueRecords(ckpt)' BY <1>1 DEF IInv, RecordsTrue, TrueRecords
  <2> QED BY <1>1, <1>3, <1>5, <1>6, <1>7, <1>8, <2>1 DEF IInv, RecordsTrue, TrueRecords, Working
<1> QED BY <1>10, <1>11, <1>12, <1>13, <1>14, <1>15, <1>16, <1>17, <1>18, <1>19, <1>20 DEF IInv

LEMMA ClearLocksIInv == ASSUME IInv, ClearLocks PROVE IInv'
<1>1. /\ idlock' = (IF idlock = Dead THEN Free ELSE idlock)
      /\ oplock' = (IF oplock = Dead THEN Free ELSE oplock)
      /\ UNCHANGED <<file, newer, ckpt, pc, job, classes, issued, spent, accepted, runs, faults,
                     fresh, stored, mislaid>>
  BY DEF ClearLocks, disk, world
<1>2. TypeOK' BY <1>1 DEF IInv, TypeOK
<1>3. LocksHeld' BY <1>1, Ids DEF IInv, LocksHeld, Working
<1>4. FilesOrdered' /\ ExportAlone' /\ IssuedOnly' /\ Unlinking' /\ InMemory' /\ ChangeIsSeen'
  BY <1>1 DEF IInv, FilesOrdered, ExportAlone, IssuedOnly, Unlinking, InMemory, ChangeIsSeen,
              Working, Newer
<1>5. NewestIsOther' /\ NewestUsable' /\ RecordsTrue'
  BY <1>1 DEF IInv, NewestIsOther, NewestUsable, RecordsTrue, TrueRecords, Newest, Newer, Working
<1> QED BY <1>2, <1>3, <1>4, <1>5 DEF IInv
-----------------------------------------------------------------------------
(* Steps that change the files.                                            *)

\* A run that may move its file has the newest one, and nobody has written
\* since its read.
LEMMA MayMove ==
  ASSUME IInv, NEW p \in Reprobes, pc[p] = "move", SourceUnchanged(p)
  PROVE  /\ Newest(job[p].path) /\ file[job[p].path] = job[p].fp
         /\ job[p].cand = job[p].fp /\ job[p].cand \in Tokens
         /\ fresh[p].new = {}
<1>1. Working(p) /\ job[p].path \in States BY Ids, JobTyped DEF IInv, Working
<1>2. /\ file[job[p].path] = job[p].fp /\ job[p].fp # None
      /\ \A s \in States : ~Newer(s, job[p].path)
  BY DEF SourceUnchanged
<1>3. job[p].cand = job[p].fp BY <1>1 DEF IInv, InMemory
<1>4. job[p].cand \in Tokens BY <1>2, <1>3, Ids, JobTyped DEF IInv
<1>5. fresh[p].new = {} BY <1>1, <1>2 DEF IInv, ChangeIsSeen
<1> QED BY <1>2, <1>3, <1>4, <1>5 DEF Newest

LEMMA MoveIInv == ASSUME IInv, NEW a \in Actors, Move(a) PROVE IInv'
<1> PICK s \in States : s = job[a].dest BY JobTyped DEF IInv
<1> PICK t \in {None} \cup Tokens : t = job[a].cand BY JobTyped DEF IInv
<1>0. /\ file' = [file EXCEPT ![s] = t] /\ newer' = Written(s)
      /\ fresh' = [p \in Reprobes |->
                     IF p = a THEN fresh[p]
                     ELSE IF pc[p] \in {"off", "queued"} THEN NoWrites
                     ELSE [fresh[p] EXCEPT !.new = @ \cup {s}]]
      /\ pc' = [pc EXCEPT ![a] = "unlink"] /\ stored' = TRUE
  BY DEF Move, WriteFile, Goto
<1>1. /\ pc[a] = "move" /\ idlock = Free /\ SourceUnchanged(a) /\ idlock' = a
      /\ UNCHANGED <<oplock, ckpt, job, classes, issued, spent, accepted, runs, faults, mislaid>>
  BY DEF Move, world
<1>2. a \in Reprobes \/ a = Export BY Ids
<1>3. s \in States /\ t \in Tokens /\ t <= issued
  <2>1. t # None
    <3>1. CASE a \in Reprobes
      <4>1. t \in Tokens BY <1>1, <3>1, MayMove
      <4> QED BY <4>1, Ids
    <3>2. CASE a = Export BY <1>1, <3>2 DEF IInv, ExportAlone
    <3> QED BY <1>2, <3>1, <3>2
  <2> QED BY <2>1, JobTyped DEF IInv, IssuedOnly
<1>4. /\ FilesOrdered' /\ Newest(s)'
      /\ \A x \in States : Newest(x)' => x = s
      /\ \A x \in States \ {s} : file[x] # None => Newer(s, x)'
      /\ file'[s] = t /\ \A x \in States \ {s} : file'[x] = file[x]
      /\ newer' \subseteq States \X States /\ file' \in [States -> {None} \cup Tokens]
  <2> QED BY <1>0, <1>3, WriteOrders DEF IInv
<1>5. /\ pc' \in [Actors -> Stages] /\ pc'[a] = "unlink"
      /\ \A b \in Actors : b # a => pc'[b] = pc[b]
  <2>1. "unlink" \in Stages BY DEF Stages
  <2> QED BY <1>0, <2>1 DEF IInv, TypeOK
<1>6. \A b \in Actors : pc[b] # "unlink" BY <1>1, NobodyUnlinks DEF IInv
<1>7. \A p \in Reprobes : p # a => pc'[p] = pc[p] BY <1>5, Ids
<1>8. \A p \in Reprobes : Working(p)' <=> Working(p) BY <1>1, <1>5, <1>7 DEF Working
<1>9. /\ fresh' \in [Reprobes -> Writes]
      /\ \A p \in Reprobes : p # a /\ Working(p) =>
            fresh'[p].new = fresh[p].new \cup {s} /\ fresh'[p].old = fresh[p].old
      /\ a \in Reprobes => fresh'[a] = fresh[a]
  <2>1. fresh \in [Reprobes -> Writes] BY DEF IInv, TypeOK
  <2>2. ASSUME NEW w \in Writes
        PROVE  /\ [w EXCEPT !.new = @ \cup {s}] \in Writes
               /\ [w EXCEPT !.new = @ \cup {s}].new = w.new \cup {s}
               /\ [w EXCEPT !.new = @ \cup {s}].old = w.old
    BY <1>3 DEF Writes
  <2>3. fresh' \in [Reprobes -> Writes] BY <1>0, <2>1, <2>2, NoWritesTyped
  <2> QED BY <1>0, <2>1, <2>2, <2>3 DEF Working
<1>10. \A p \in Reprobes : p # a /\ Working(p) => a = Export
  <2>1. a \in Reprobes => Working(a) BY <1>1 DEF Working
  <2> QED BY <1>2, <2>1, OneWorks DEF IInv
<1>11. a = Export => \A p \in Reprobes : job[p].fp # t
  BY <1>1 DEF IInv, ExportAlone
<1>12. TypeOK' BY <1>0, <1>1, <1>4, <1>5, <1>9 DEF IInv, TypeOK
<1>13. LocksHeld'
  <2>1. \A p \in Reprobes : p > runs => pc'[p] = "off" BY <1>1, <1>7 DEF IInv, LocksHeld
  <2>2. \A b \in Actors : idlock' = b <=> pc'[b] = "unlink" BY <1>1, <1>5, <1>6
  <2> QED BY <1>1, <1>8, <2>1, <2>2 DEF IInv, LocksHeld
<1>14. ExportAlone'
  <2>1. CASE a = Export BY <1>1, <1>3, <1>5, <2>1, Ids DEF ExportAlone
  <2>2. CASE a # Export
    <3>1. pc'[Export] = pc[Export] BY <1>5, <2>2, Ids
    <3>2. pc[Export] \in {"refresh", "second", "move"} => t # job[Export].cand
      BY <1>2, <2>2 DEF IInv, ExportAlone
    <3>3. \A x \in States : file'[x] = t \/ file'[x] = file[x] BY <1>4
    <3> QED BY <1>1, <3>1, <3>2, <3>3 DEF IInv, ExportAlone
  <2> QED BY <2>1, <2>2
<1>15. IssuedOnly' BY <1>1, <1>3, <1>4 DEF IInv, IssuedOnly
<1>16. Unlinking'
  <2>1. /\ file'[s] = t /\ \A x \in States : ~Newer(x, s)' BY <1>4 DEF Newest
  <2>2. a = Export => \A x \in States \ {s} : file'[x] # t
    BY <1>1, <1>4 DEF IInv, ExportAlone
  <2>3. \A b \in Actors : pc'[b] = "unlink" => b = a BY <1>5, <1>6
  <2> QED BY <1>1, <2>1, <2>2, <2>3 DEF Unlinking
<1>17. InMemory'
  <2>1. \A p \in Reprobes : (pc'[p] # "store" /\ pc[p] # "store") \/ pc'[p] = pc[p]
    BY <1>1, <1>5, <1>7
  <2>2. \A p \in Reprobes : pc'[p] = "unlink" \/ pc'[p] = pc[p] BY <1>5, <1>7
  <2> QED BY <1>1, <1>8, <2>1, <2>2 DEF IInv, InMemory
<1>18. ChangeIsSeen'
  <2> SUFFICES ASSUME NEW p \in Reprobes, Working(p)
               PROVE  /\ fresh'[p].new # {} => \/ file'[job[p].path] # job[p].fp
                                               \/ \E x \in States : Newer(x, job[p].path)'
                      /\ job[p].path \in fresh'[p].new => file'[job[p].path] # job[p].fp
                      /\ pc'[p] = "unlink" => fresh'[p].new = {}
                      /\ pc'[p] \in {"probe", "refresh", "store"} => fresh'[p].old = {}
    BY <1>1, <1>8 DEF ChangeIsSeen
  <2>1. CASE p = a
    <3>1. fresh'[p].new = {} BY <1>1, <1>9, <2>1, MayMove
    <3>2. pc'[p] = "unlink" BY <1>5, <2>1
    <3> QED BY <3>1, <3>2
  <2>2. CASE p # a
    <3>1. a = Export /\ job[p].fp # t /\ fresh'[p].new = fresh[p].new \cup {s}
          /\ fresh'[p].old = fresh[p].old /\ pc'[p] = pc[p] /\ pc[p] # "unlink"
      BY <1>6, <1>7, <1>9, <1>10, <1>11, <2>2, Ids
    <3>2. job[p].path \in States /\ job[p].fp # None
      BY Ids, JobTyped DEF IInv, InMemory
    <3>3. pc[p] \in {"probe", "refresh", "store"} => fresh[p].old = {}
      BY DEF IInv, ChangeIsSeen
    <3>4. CASE job[p].path = s BY <1>4, <3>1, <3>3, <3>4
    <3>5. CASE job[p].path # s
      <4>1. file'[job[p].path] = file[job[p].path] BY <1>4, <3>2, <3>5
      <4>2. file[job[p].path] # job[p].fp \/ Newer(s, job[p].path)'
        BY <1>1, <1>4, <3>2, <3>5
      <4>3. job[p].path \in fresh[p].new => file[job[p].path] # job[p].fp
        BY DEF IInv, ChangeIsSeen
      <4> QED BY <1>3, <3>1, <3>3, <3>5, <4>1, <4>2, <4>3
    <3> QED BY <3>4, <3>5
  <2> QED BY <2>1, <2>2
<1>19. NewestIsOther'
  <2> SUFFICES ASSUME NEW p \in Reprobes, pc'[p] \in {"probe", "refresh", "store"},
                      file'[job[p].path] # job[p].fp
               PROVE  file'[s] # job[p].fp
    BY <1>1, <1>4 DEF NewestIsOther
  <2>1. p # a /\ Working(p) BY <1>5, <1>7 DEF Working
  <2>2. a = Export BY <1>10, <2>1
  <2> QED BY <1>4, <1>11, <2>2
<1>20. NewestUsable'
  <2> SUFFICES ASSUME ~mislaid PROVE t \notin spent \/ t \in accepted
    BY <1>1, <1>3, <1>4 DEF NewestUsable
  <2>1. CASE a = Export BY <1>1, <2>1 DEF IInv, ExportAlone
  <2>2. CASE a \in Reprobes
    <3>1. Newest(job[a].path) /\ file[job[a].path] = t
      BY <1>1, <2>2, MayMove
    <3>2. job[a].path \in States BY JobTyped DEF IInv
    <3>3. stored BY <3>1, <3>2 DEF IInv, FilesOrdered, Newest
    <3>4. PICK x \in States :
             /\ Newest(x)
             /\ \/ file[x] \notin spent \/ file[x] \in accepted
                \/ \E q \in Reprobes : pc[q] = "store" /\ job[q].fp = file[x]
      BY <3>3 DEF IInv, NewestUsable
    <3>5. x = job[a].path BY <3>1, <3>2, <3>4, OneNewest DEF IInv
    <3>6. ~ \E q \in Reprobes : pc[q] = "store"
      <4>1. Working(a) BY <1>1 DEF Working
      <4>2. \A q \in Reprobes : Working(q) => q = a BY <2>2, <4>1, OneWorks DEF IInv
      <4> QED BY <1>1, <4>2 DEF Working
    <3> QED BY <3>1, <3>4, <3>5, <3>6
  <2> QED BY <1>2, <2>1, <2>2
<1>21. RecordsTrue' BY <1>1, <1>8 DEF IInv, RecordsTrue, TrueRecords
<1> QED BY <1>4, <1>12, <1>13, <1>14, <1>15, <1>16, <1>17, <1>18, <1>19, <1>20, <1>21 DEF IInv

\* A refreshed token replaces the one it came from.
LEMMA StoreIInv == ASSUME IInv, NEW p \in Reprobes, Store(p) PROVE IInv'
<1> PICK s \in States : s = job[p].path BY Ids, JobTyped DEF IInv
<1> PICK t \in {None} \cup Tokens : t = job[p].cand BY Ids, JobTyped DEF IInv
<1> DEFINE j == [job[p] EXCEPT !.fp = t]
<1>0. /\ file' = [file EXCEPT ![s] = t] /\ newer' = Written(s)
      /\ fresh' = [fresh EXCEPT ![p] = [old |-> fresh[p].new, new |-> {}]]
      /\ job' = [job EXCEPT ![p].fp = t]
      /\ pc' = [pc EXCEPT ![p] = "second"]
  BY DEF Store, Goto
<1>1. /\ pc[p] = "store" /\ idlock = Free /\ file[s] = job[p].fp
      /\ UNCHANGED <<idlock, oplock, ckpt, classes, issued, spent, accepted, runs, faults,
                     stored, mislaid>>
  BY DEF Store, locks, world
<1>2. Working(p) /\ p \in Actors BY <1>1, Ids DEF Working
<1>3. /\ s \in States /\ t \in Tokens /\ t <= issued /\ t \notin spent /\ job[p].fp # None
      /\ job[p] \in JobType
  BY <1>1, <1>2, Ids, JobTyped DEF IInv, InMemory, IssuedOnly
<1>4. stored = TRUE BY <1>1, <1>3 DEF IInv, FilesOrdered, TypeOK
<1>5. /\ FilesOrdered' /\ Newest(s)'
      /\ \A x \in States : Newest(x)' => x = s
      /\ file'[s] = t /\ \A x \in States \ {s} : file'[x] = file[x]
      /\ newer' \subseteq States \X States /\ file' \in [States -> {None} \cup Tokens]
  <2>1. stored' = TRUE BY <1>1, <1>4
  <2> QED BY <1>0, <1>3, <2>1, WriteOrders DEF IInv
<1>6. /\ j \in JobType /\ j.path = s /\ j.mem = job[p].mem /\ j.cand = t /\ j.fp = t
      /\ j.pushed = job[p].pushed
  BY <1>3 DEF JobType
<1>7. job' = [job EXCEPT ![p] = j] BY <1>0, <1>2 DEF IInv, TypeOK
<1> HIDE DEF j
<1>8. /\ pc' \in [Actors -> Stages] /\ job' \in [Actors -> JobType]
      /\ pc'[p] = "second" /\ job'[p] = j
      /\ \A b \in Actors : b # p => pc'[b] = pc[b] /\ job'[b] = job[b]
  <2>1. "second" \in Stages BY DEF Stages
  <2> QED BY <1>0, <1>2, <1>6, <1>7, <2>1, OneMoves DEF IInv
<1>9. /\ \A q \in Reprobes : q # p => pc'[q] = pc[q] /\ job'[q] = job[q]
      /\ pc'[Export] = pc[Export] /\ job'[Export] = job[Export]
  BY <1>8, Ids
<1>10. /\ fresh' \in [Reprobes -> Writes] /\ fresh'[p].new = {}
       /\ \A q \in Reprobes : q # p => fresh'[q] = fresh[q]
  BY <1>0 DEF IInv, TypeOK, Writes
<1>11. \A q \in Reprobes : q # p => ~Working(q) BY <1>2, OneWorks DEF IInv
<1>12. \A q \in Reprobes : Working(q)' => q = p BY <1>9, <1>11 DEF Working
<1>13. \A b \in Actors : pc'[b] # "unlink" BY <1>1, <1>8, NobodyUnlinks DEF IInv
<1>14. TypeOK' BY <1>1, <1>5, <1>8, <1>10 DEF IInv, TypeOK
<1>15. LocksHeld'
  <2>1. \A q \in Reprobes : oplock = q <=> Working(q)'
    BY <1>2, <1>8, <1>11, <1>12 DEF IInv, LocksHeld, Working
  <2>2. \A q \in Reprobes : q > runs => pc'[q] = "off"
    BY <1>1, <1>9 DEF IInv, LocksHeld
  <2>3. \A b \in Actors : idlock # b BY <1>1, Ids
  <2> QED BY <1>1, <1>13, <2>1, <2>2, <2>3 DEF LocksHeld
<1>16. ExportAlone'
  <2>1. pc[Export] \in {"refresh", "second", "move"} => t # job[Export].cand
    BY DEF IInv, ExportAlone
  <2>2. \A x \in States : file'[x] = t \/ file'[x] = file[x] BY <1>5
  <2>3. \A q \in Reprobes : /\ job'[q].cand \in {t, job[q].cand}
                            /\ job'[q].fp \in {t, job[q].fp}
    BY <1>6, <1>8, <1>9
  <2> QED BY <1>1, <1>9, <2>1, <2>2, <2>3 DEF IInv, ExportAlone
<1>17. IssuedOnly' BY <1>1, <1>3, <1>5, <1>6, <1>8 DEF IInv, IssuedOnly
<1>18. Unlinking' BY <1>13 DEF Unlinking
<1>19. InMemory'
  <2>1. t # None BY <1>3, Ids
  <2>2. j.pushed = "none" BY <1>1, <1>6 DEF IInv, InMemory
  <2>3. ASSUME NEW q \in Reprobes
        PROVE  (/\ Working(q) => job[q].fp # None
                /\ Working(q) /\ pc[q] # "store" => job[q].cand = job[q].fp
                /\ pc[q] = "store" => job[q].cand \notin spent \cup {None}
                /\ pc[q] \in {"queued", "probe", "refresh", "store", "second"} =>
                      job[q].pushed = "none")'
    <3>1. CASE q = p BY <1>6, <1>8, <2>1, <2>2, <3>1
    <3>2. CASE q # p BY <1>1, <1>9, <3>2 DEF IInv, InMemory, Working
    <3> QED BY <3>1, <3>2
  <2> QED BY <2>3 DEF InMemory
<1>20. ChangeIsSeen' BY <1>8, <1>10, <1>12 DEF ChangeIsSeen
<1>21. NewestIsOther'
  <2>1. \A q \in Reprobes : ~(pc'[q] \in {"probe", "refresh", "store"})
    BY <1>8, <1>12 DEF Working
  <2> QED BY <2>1 DEF NewestIsOther
<1>22. NewestUsable' BY <1>1, <1>3, <1>5 DEF NewestUsable
<1>23. RecordsTrue'
  <2>1. TrueRecords(ckpt)' BY <1>1 DEF IInv, RecordsTrue, TrueRecords
  <2>2. job[p].pushed = "none" BY <1>1 DEF IInv, InMemory
  <2>3. j.path = "verified" => j.mem["verified"].pushed = "no"
    BY <1>2, <1>6 DEF IInv, RecordsTrue
  <2>4. ASSUME NEW q \in Reprobes
        PROVE  (/\ TrueRecords(job[q].mem)
                /\ job[q].pushed = "yes" => job[q].cand \in accepted
                /\ Working(q) /\ job[q].path = "verified" => job[q].mem["verified"].pushed = "no")'
    <3>1. CASE q = p
      BY <1>1, <1>6, <1>8, <2>2, <2>3, <3>1 DEF IInv, RecordsTrue, TrueRecords
    <3>2. CASE q # p BY <1>1, <1>9, <3>2 DEF IInv, RecordsTrue, TrueRecords, Working
    <3> QED BY <3>1, <3>2
  <2> QED BY <2>1, <2>4 DEF RecordsTrue
<1> QED BY <1>5, <1>14, <1>15, <1>16, <1>17, <1>18, <1>19, <1>20, <1>21, <1>22, <1>23 DEF IInv

\* The unlinks of a transition: the files of K stay, the new one is among them.
LEMMA UnlinkStep ==
  ASSUME IInv, NEW a \in Actors, pc[a] = "unlink", idlock' = Free,
         NEW K \in SUBSET States, job[a].dest \in K,
         file' = [s \in States |-> IF s \in K THEN file[s] ELSE None],
         newer' = {r \in newer : r[1] \in K /\ r[2] \in K},
         NEW to \in {"off", "push", "conclude"}, NEW j \in JobType,
         pc' = [pc EXCEPT ![a] = to], job' = [job EXCEPT ![a] = j],
         j = job[a] \/ (j = NoJob /\ to = "off"),
         to = "conclude" => a \in Reprobes,
         oplock' = IF oplock = a /\ to = "off" THEN Free ELSE oplock,
         UNCHANGED <<stored, issued, spent, accepted, runs, mislaid>>,
         ckpt' \in [States -> Records], TrueRecords(ckpt)',
         classes' \in [Reprobes -> 0..2], faults' \in 0..MaxFaults,
         fresh' \in [Reprobes -> Writes],
         \A p \in Reprobes \ {a} : fresh'[p] = fresh[p],
         to # "off" => fresh' = fresh
  PROVE  IInv'
<1> PICK d \in K : d = job[a].dest OBVIOUS
<1>1. /\ pc' \in [Actors -> Stages] /\ job' \in [Actors -> JobType]
      /\ pc'[a] = to /\ job'[a] = j
      /\ \A b \in Actors : b # a => pc'[b] = pc[b] /\ job'[b] = job[b]
  <2>1. to \in Stages BY DEF Stages
  <2> QED BY <2>1, OneMoves DEF IInv
<1>2. /\ file[d] = job[a].cand
      /\ \A x \in States : ~Newer(x, d)
      /\ a = Export => \A x \in States \ {d} : file[x] # job[a].cand
  BY DEF IInv, Unlinking
<1>3. file[d] # None /\ job[a].cand # None
  <2>1. CASE a = Export BY <1>2, <2>1 DEF IInv, ExportAlone
  <2>2. CASE a \in Reprobes BY <1>2, <2>2 DEF IInv, InMemory, Working
  <2> QED BY <2>1, <2>2, Ids
<1>4. /\ newer' \subseteq States \X States
      /\ \A x, y \in States : Newer(x, y)' <=> Newer(x, y) /\ x \in K /\ y \in K
  BY KeptPairs DEF IInv
<1>5. /\ file' \in [States -> {None} \cup Tokens]
      /\ \A x \in States : file'[x] = file[x] \/ file'[x] = None
      /\ \A x \in K : file'[x] = file[x]
      /\ \A x \in States \ K : file'[x] = None
  BY DEF IInv, TypeOK
<1>6. Newest(d) /\ \A x \in States : Newest(x) => x = d
  <2>1. Newest(d) BY <1>2, <1>3 DEF Newest
  <2> QED BY <2>1, OneNewest DEF IInv
<1>7. \A x \in States : Newest(x)' <=> x = d
  <2>1. Newest(d)' BY <1>2, <1>3, <1>4, <1>5 DEF Newest
  <2>2. ASSUME NEW x \in States, x # d PROVE ~Newest(x)'
    <3>1. CASE x \notin K BY <1>5, <3>1 DEF Newest
    <3>2. CASE x \in K /\ file[x] = None BY <1>5, <3>2 DEF Newest
    <3>3. CASE x \in K /\ file[x] # None
      <4>1. Newer(d, x) BY <1>2, <1>3, <2>2, <3>3 DEF IInv, FilesOrdered
      <4> QED BY <1>4, <3>3, <4>1 DEF Newest
    <3> QED BY <3>1, <3>2, <3>3
  <2> QED BY <2>1, <2>2
<1>8. \A b \in Actors : b # a => pc[b] # "unlink" BY OneUnlinks DEF IInv
<1>9. \A p \in Reprobes : p # a => pc'[p] = pc[p] /\ job'[p] = job[p] BY <1>1, Ids
<1>10. a \in Reprobes => Working(a) /\ fresh[a].new = {}
                         /\ \A p \in Reprobes : Working(p) => p = a
  <2>1. a \in Reprobes => Working(a) BY DEF Working
  <2> QED BY <2>1, OneWorks DEF IInv, ChangeIsSeen
<1>11. TypeOK'
  <2>1. idlock' \in Actors \cup {Free, Dead} /\ oplock' \in Reprobes \cup {Free, Dead}
    BY DEF IInv, TypeOK
  <2> QED BY <1>1, <1>4, <1>5, <2>1 DEF IInv, TypeOK
<1>12. LocksHeld'
  <2>1. \A b \in Actors : pc'[b] # "unlink" /\ idlock' # b
    BY <1>1, <1>8, Ids
  <2>2. \A p \in Reprobes : p > runs' => pc'[p] = "off"
    BY <1>9 DEF IInv, LocksHeld
  <2>3. ASSUME NEW p \in Reprobes PROVE oplock' = p <=> Working(p)'
    <3>1. CASE p = a
      <4>1. oplock = a BY <1>10, <3>1 DEF IInv, LocksHeld
      <4>2. Working(p)' <=> to # "off" BY <1>1, <3>1 DEF Working
      <4> QED BY <3>1, <4>1, <4>2, Ids
    <3>2. CASE p # a
      <4>1. Working(p)' <=> Working(p) BY <1>9, <3>2 DEF Working
      <4>2. oplock' = p <=> oplock = p BY <3>2, Ids
      <4> QED BY <4>1, <4>2 DEF IInv, LocksHeld
    <3> QED BY <3>1, <3>2
  <2> QED BY <2>1, <2>2, <2>3 DEF LocksHeld
<1>13. FilesOrdered'
  <2>1. \A x, y \in States : Newer(x, y)' => file'[x] # None /\ file'[y] # None /\ x # y
    BY <1>4, <1>5 DEF IInv, FilesOrdered
  <2>2. \A x \in States : file'[x] # None => x \in K /\ file[x] # None BY <1>5
  <2>3. \A x, y \in States : file'[x] # None /\ file'[y] # None /\ x # y =>
                                Newer(x, y)' \/ Newer(y, x)'
    BY <1>4, <2>2 DEF IInv, FilesOrdered
  <2>4. \A x \in States : file'[x] # None => stored' BY <2>2 DEF IInv, FilesOrdered
  <2> QED BY <2>1, <2>3, <2>4 DEF FilesOrdered
<1>14. NoJob.cand = None /\ NoJob.fp = None /\ NoJob.pushed = "none" /\ NoJob.mem = NoCheckpoint
  BY NoJobTyped
<1>15. ExportAlone'
  <2>1. CASE a = Export
    <3>1. to # "conclude" BY <2>1, Ids
    <3>2. to # "off" => j.cand # None BY <1>3
    <3> QED BY <1>1, <2>1, <3>1, <3>2, Ids DEF ExportAlone
  <2>2. CASE a # Export
    <3>1. pc'[Export] = pc[Export] /\ job'[Export] = job[Export] BY <1>1, <2>2, Ids
    <3>2. pc[Export] # "off" => job[Export].cand # None BY DEF IInv, ExportAlone
    <3>3. \A q \in Reprobes : /\ job'[q].cand \in {None, job[q].cand}
                              /\ job'[q].fp \in {None, job[q].fp}
      BY <1>1, <1>9, <1>14
    <3> QED BY <1>5, <3>1, <3>2, <3>3 DEF IInv, ExportAlone
  <2> QED BY <2>1, <2>2
<1>16. IssuedOnly'
  <2>1. None <= issued BY Numbers DEF IInv, None
  <2>2. \A x \in States : file'[x] <= issued BY <1>5, <2>1 DEF IInv, IssuedOnly
  <2>3. \A b \in Actors : job'[b].cand <= issued /\ job'[b].fp <= issued
    BY <1>1, <1>14, <2>1 DEF IInv, IssuedOnly
  <2> QED BY <2>2, <2>3 DEF IssuedOnly
<1>17. Unlinking' BY <1>1, <1>8 DEF Unlinking
<1>18. InMemory'
  <2>1. ASSUME NEW p \in Reprobes
        PROVE  (/\ Working(p) => job[p].fp # None
                /\ Working(p) /\ pc[p] # "store" => job[p].cand = job[p].fp
                /\ pc[p] = "store" => job[p].cand \notin spent \cup {None}
                /\ pc[p] \in {"queued", "probe", "refresh", "store", "second"} =>
                      job[p].pushed = "none")'
    <3>1. CASE p = a
      <4>1. job[p].fp # None /\ job[p].cand = job[p].fp
        BY <3>1 DEF IInv, InMemory, Working
      <4>2. Working(p)' => j = job[p] BY <1>1, <3>1 DEF Working
      <4> QED BY <1>1, <3>1, <4>1, <4>2
    <3>2. CASE p # a BY <1>9, <3>2 DEF IInv, InMemory, Working
    <3> QED BY <3>1, <3>2
  <2> QED BY <2>1 DEF InMemory
<1>19. \A p \in Reprobes : p # a /\ Working(p) => a = Export /\ job[p].path \in States
                                                  /\ job[p].fp # None
  BY <1>10, Ids, JobTyped DEF IInv, InMemory
<1>20. ChangeIsSeen'
  <2> SUFFICES ASSUME NEW p \in Reprobes, Working(p)'
               PROVE  /\ fresh'[p].new # {} =>
                            \/ file'[job'[p].path] # job'[p].fp
                            \/ \E x \in States : <<x, job'[p].path>> \in newer'
                      /\ job'[p].path \in fresh'[p].new => file'[job'[p].path] # job'[p].fp
                      /\ pc'[p] = "unlink" => fresh'[p].new = {}
                      /\ pc'[p] \in {"probe", "refresh", "store"} => fresh'[p].old = {}
    BY DEF ChangeIsSeen, Newer
  <2>1. CASE p = a
    <3>1. fresh'[p].new = {} /\ pc'[p] \in {"push", "conclude"}
      BY <1>1, <1>10, <2>1 DEF Working
    <3> QED BY <3>1
  <2>2. CASE p # a
    <3>1. pc'[p] = pc[p] /\ job'[p] = job[p] /\ fresh'[p] = fresh[p] /\ Working(p)
      BY <1>9, <2>2 DEF Working
    <3>2. job[p].path \in States /\ job[p].fp # None /\ pc[p] # "unlink"
      BY <1>8, <1>19, <2>2, <3>1, Ids
    <3>3. /\ fresh[p].new # {} => \/ file[job[p].path] # job[p].fp
                                  \/ \E x \in States : Newer(x, job[p].path)
          /\ job[p].path \in fresh[p].new => file[job[p].path] # job[p].fp
          /\ pc[p] \in {"probe", "refresh", "store"} => fresh[p].old = {}
      BY <3>1 DEF IInv, ChangeIsSeen
    <3>4. file[job[p].path] # job[p].fp => file'[job[p].path] # job[p].fp BY <1>5, <3>2
    <3>5. ASSUME NEW x \in States, Newer(x, job[p].path),
                 file'[job[p].path] = job[p].fp
          PROVE  <<d, job[p].path>> \in newer'
      <4>1. job[p].path \in K /\ job[p].path # d BY <1>2, <1>5, <3>2, <3>5
      <4>2. file[job[p].path] # None BY <1>5, <3>2, <3>5
      <4>3. Newer(d, job[p].path) BY <1>2, <1>3, <3>2, <4>1, <4>2 DEF IInv, FilesOrdered
      <4> QED BY <4>1, <4>3 DEF Newer
    <3> QED BY <3>1, <3>2, <3>3, <3>4, <3>5
  <2> QED BY <2>1, <2>2
<1>21. NewestIsOther'
  <2> SUFFICES ASSUME NEW p \in Reprobes, pc'[p] \in {"probe", "refresh", "store"},
                      file'[job'[p].path] # job'[p].fp
               PROVE  file'[d] # job'[p].fp
    BY <1>7 DEF NewestIsOther
  <2>1. p # a /\ Working(p) /\ pc[p] \in {"probe", "refresh", "store"} /\ job'[p] = job[p]
    BY <1>1, <1>9 DEF Working
  <2>2. a = Export /\ job[p].path \in States /\ job[p].fp # None BY <1>19, <2>1
  <2>3. CASE file[job[p].path] # job[p].fp
    BY <1>5, <1>6, <2>1, <2>3 DEF IInv, NewestIsOther
  <2>4. CASE file[job[p].path] = job[p].fp
    <3>1. job[p].path # d BY <1>5, <2>1, <2>4
    <3> QED BY <1>2, <1>5, <2>1, <2>2, <2>4, <3>1
  <2> QED BY <2>3, <2>4
<1>22. NewestUsable'
  <2> SUFFICES ASSUME stored, ~mislaid
               PROVE  \/ file'[d] \notin spent \/ file'[d] \in accepted
                      \/ \E p \in Reprobes : pc'[p] = "store" /\ job'[p].fp = file'[d]
    BY <1>7 DEF NewestUsable
  <2>1. \/ file[d] \notin spent \/ file[d] \in accepted
        \/ \E p \in Reprobes : pc[p] = "store" /\ job[p].fp = file[d]
    BY <1>6 DEF IInv, NewestUsable
  <2>2. \A p \in Reprobes : pc[p] = "store" => pc'[p] = "store" /\ job'[p] = job[p]
    BY <1>9
  <2> QED BY <1>5, <2>1, <2>2
<1>23. RecordsTrue'
  <2>1. TrueRecords(NoCheckpoint)'
    BY DEF TrueRecords, NoCheckpoint, ErrorRecord, Record
  <2>2. ASSUME NEW p \in Reprobes
        PROVE  (/\ TrueRecords(job[p].mem)
                /\ job[p].pushed = "yes" => job[p].cand \in accepted
                /\ Working(p) /\ job[p].path = "verified" => job[p].mem["verified"].pushed = "no")'
    <3>1. CASE p = a /\ j = job[a]
      BY <1>1, <1>10, <3>1 DEF IInv, RecordsTrue, TrueRecords
    <3>2. CASE p = a /\ j = NoJob /\ to = "off" BY <1>1, <1>14, <2>1, <3>2 DEF Working
    <3>3. CASE p # a BY <1>9, <3>3 DEF IInv, RecordsTrue, TrueRecords, Working
    <3> QED BY <3>1, <3>2, <3>3
  <2> QED BY <2>2 DEF RecordsTrue
<1> QED BY <1>11, <1>12, <1>13, <1>15, <1>16, <1>17, <1>18, <1>20, <1>21, <1>22, <1>23 DEF IInv

\* All other copies are unlinked.
LEMMA OthersRemoved ==
  ASSUME IInv, NEW a \in Actors, RemoveOthers(a)
  PROVE  /\ pc[a] = "unlink" /\ idlock' = Free
         /\ \E K \in SUBSET States :
               /\ job[a].dest \in K
               /\ file' = [s \in States |-> IF s \in K THEN file[s] ELSE None]
               /\ newer' = {r \in newer : r[1] \in K /\ r[2] \in K}
<1>1. /\ pc[a] = "unlink" /\ idlock' = Free /\ newer' = {}
      /\ file' = [s \in States |-> IF s = job[a].dest THEN file[s] ELSE None]
  BY DEF RemoveOthers
<1>2. PICK d \in States : d = job[a].dest BY JobTyped DEF IInv
<1>3. {d} \in SUBSET States OBVIOUS
<1>4. \A s \in States : s = job[a].dest <=> s \in {d} BY <1>2
<1>5. file' = [s \in States |-> IF s \in {d} THEN file[s] ELSE None] BY <1>1, <1>4
<1>6. newer' = {r \in newer : r[1] \in {d} /\ r[2] \in {d}}
  <2>1. ASSUME NEW r \in newer PROVE ~(r[1] \in {d} /\ r[2] \in {d})
    <3>1. r \in States \X States BY DEF IInv, TypeOK
    <3>2. PICK x, y \in States : r = <<x, y>> BY <3>1
    <3>3. x # y BY <3>2 DEF IInv, FilesOrdered, Newer
    <3> QED BY <3>2, <3>3
  <2> QED BY <1>1, <2>1
<1> QED BY <1>1, <1>2, <1>3, <1>5, <1>6

\* Some copies stay.
LEMMA SomeRemoved ==
  ASSUME IInv, NEW a \in Actors, UnlinkRaises(a)
  PROVE  /\ pc[a] = "unlink" /\ idlock' = Free /\ faults' \in 0..MaxFaults
         /\ \E K \in SUBSET States :
               /\ job[a].dest \in K
               /\ file' = [s \in States |-> IF s \in K THEN file[s] ELSE None]
               /\ newer' = {r \in newer : r[1] \in K /\ r[2] \in K}
<1>1. pc[a] = "unlink" /\ idlock' = Free /\ faults < MaxFaults /\ faults' = faults + 1
  BY DEF UnlinkRaises
<1>2. faults' \in 0..MaxFaults BY <1>1, ConstantsOK DEF IInv, TypeOK
<1>3. PICK left \in SUBSET {s \in States \ {job[a].dest} : file[s] # None} \ {{}} :
         /\ file' = [s \in States |-> IF s \in left \cup {job[a].dest} THEN file[s] ELSE None]
         /\ newer' = {r \in newer : r[1] \in left \cup {job[a].dest} /\ r[2] \in left \cup {job[a].dest}}
  BY DEF UnlinkRaises
<1>4. job[a].dest \in States BY JobTyped DEF IInv
<1>5. left \cup {job[a].dest} \in SUBSET States BY <1>4
<1> QED BY <1>1, <1>2, <1>3, <1>5

\* What the files of an unlink's end have to do with the rest of the state.
LEMMA OthersStay ==
  ASSUME IInv
  PROVE  /\ ckpt \in [States -> Records] /\ TrueRecords(ckpt)
         /\ classes \in [Reprobes -> 0..2] /\ faults \in 0..MaxFaults
         /\ fresh \in [Reprobes -> Writes]
         /\ job \in [Actors -> JobType]
BY DEF IInv, TypeOK, RecordsTrue

LEMMA MovedIInv == ASSUME IInv, NEW p \in Reprobes, Moved(p) PROVE IInv'
<1>1. /\ RemoveOthers(p)
      /\ UNCHANGED <<oplock, ckpt, job, classes, issued, spent, accepted, runs, faults, fresh,
                     stored, mislaid>>
  BY DEF Moved, world
<1>2. PICK to \in {"push", "conclude"} : pc' = [pc EXCEPT ![p] = to]
  <2>1. CASE job[p].dec = "pass" /\ job[p].opts.remote BY <2>1 DEF Moved, Goto
  <2>2. CASE ~(job[p].dec = "pass" /\ job[p].opts.remote) BY <2>2 DEF Moved, Goto
  <2> QED BY <2>1, <2>2
<1>3. p \in Actors BY Ids
<1>4. PICK K \in SUBSET States :
         /\ job[p].dest \in K
         /\ file' = [s \in States |-> IF s \in K THEN file[s] ELSE None]
         /\ newer' = {r \in newer : r[1] \in K /\ r[2] \in K}
  BY <1>1, <1>3, OthersRemoved
<1>5. pc[p] = "unlink" /\ idlock' = Free BY <1>1, <1>3, OthersRemoved
<1>6. PICK j \in JobType : j = job[p] BY <1>3, OthersStay
<1>7. job' = [job EXCEPT ![p] = j] BY <1>1, <1>6, OthersStay
<1>8. /\ ckpt' \in [States -> Records] /\ TrueRecords(ckpt)'
      /\ classes' \in [Reprobes -> 0..2] /\ faults' \in 0..MaxFaults
      /\ fresh' \in [Reprobes -> Writes] /\ fresh' = fresh
  BY <1>1, OthersStay DEF TrueRecords
<1>9. to \in {"off", "push", "conclude"} /\ to # "off" BY <1>2
<1>10. oplock' = IF oplock = p /\ to = "off" THEN Free ELSE oplock BY <1>1, <1>9
<1> QED BY <1>1, <1>2, <1>3, <1>4, <1>5, <1>6, <1>7, <1>8, <1>9, <1>10, UnlinkStep

LEMMA ExportMovedIInv == ASSUME IInv, ExportMoved PROVE IInv'
<1>1. /\ RemoveOthers(Export)
      /\ UNCHANGED <<oplock, ckpt, classes, issued, spent, accepted, runs, faults, fresh,
                     stored, mislaid>>
  BY DEF ExportMoved, world
<1>2. PICK to \in {"push", "off"}, j \in JobType :
         /\ pc' = [pc EXCEPT ![Export] = to] /\ job' = [job EXCEPT ![Export] = j]
         /\ j = job[Export] \/ (j = NoJob /\ to = "off")
  <2>1. CASE job[Export].dest = "verified"
    <3>1. pc' = [pc EXCEPT ![Export] = "push"] /\ job' = job BY <2>1 DEF ExportMoved, Goto
    <3>2. PICK j \in JobType : j = job[Export] BY Ids, OthersStay
    <3>3. job' = [job EXCEPT ![Export] = j] BY <3>1, <3>2, OthersStay
    <3> QED BY <3>1, <3>2, <3>3
  <2>2. CASE job[Export].dest # "verified"
    <3>1. pc' = [pc EXCEPT ![Export] = "off"] /\ job' = [job EXCEPT ![Export] = NoJob]
      BY <2>2 DEF ExportMoved, EndJob, Goto
    <3> QED BY <3>1, NoJobTyped
  <2> QED BY <2>1, <2>2
<1>3. Export \in Actors BY Ids
<1>4. PICK K \in SUBSET States :
         /\ job[Export].dest \in K
         /\ file' = [s \in States |-> IF s \in K THEN file[s] ELSE None]
         /\ newer' = {r \in newer : r[1] \in K /\ r[2] \in K}
  BY <1>1, <1>3, OthersRemoved
<1>5. pc[Export] = "unlink" /\ idlock' = Free BY <1>1, <1>3, OthersRemoved
<1>6. /\ ckpt' \in [States -> Records] /\ TrueRecords(ckpt)'
      /\ classes' \in [Reprobes -> 0..2] /\ faults' \in 0..MaxFaults
      /\ fresh' \in [Reprobes -> Writes] /\ fresh' = fresh
  BY <1>1, OthersStay DEF TrueRecords
<1>7. to \in {"off", "push", "conclude"} /\ to # "conclude" BY <1>2
<1>8. oplock # Export BY Ids DEF IInv, TypeOK
<1>9. oplock' = IF oplock = Export /\ to = "off" THEN Free ELSE oplock BY <1>1, <1>8
<1>10. \A p \in Reprobes \ {Export} : fresh'[p] = fresh[p] BY <1>1
<1> QED BY <1>1, <1>2, <1>3, <1>4, <1>5, <1>6, <1>7, <1>9, <1>10, UnlinkStep

LEMMA ExportUnlinkRaisesIInv == ASSUME IInv, ExportUnlinkRaises PROVE IInv'
<1>1. /\ UnlinkRaises(Export)
      /\ pc' = [pc EXCEPT ![Export] = "off"] /\ job' = [job EXCEPT ![Export] = NoJob]
      /\ UNCHANGED <<oplock, ckpt, classes, issued, spent, accepted, runs, fresh, stored,
                     mislaid>>
  BY DEF ExportUnlinkRaises, EndJob, Goto, world
<1>2. Export \in Actors BY Ids
<1>3. PICK K \in SUBSET States :
         /\ job[Export].dest \in K
         /\ file' = [s \in States |-> IF s \in K THEN file[s] ELSE None]
         /\ newer' = {r \in newer : r[1] \in K /\ r[2] \in K}
  BY <1>1, <1>2, SomeRemoved
<1>4. pc[Export] = "unlink" /\ idlock' = Free /\ faults' \in 0..MaxFaults
  BY <1>1, <1>2, SomeRemoved
<1>5. /\ ckpt' \in [States -> Records] /\ TrueRecords(ckpt)'
      /\ classes' \in [Reprobes -> 0..2]
      /\ fresh' \in [Reprobes -> Writes] /\ fresh' = fresh
  BY <1>1, OthersStay DEF TrueRecords
<1>6. PICK to \in {"off"} : to = "off" OBVIOUS
<1>7. PICK j \in JobType : j = NoJob BY NoJobTyped
<1>8. to \in {"off", "push", "conclude"} /\ to # "conclude" BY <1>6
<1>9. oplock # Export BY Ids DEF IInv, TypeOK
<1>10. oplock' = IF oplock = Export /\ to = "off" THEN Free ELSE oplock BY <1>1, <1>9
<1>11. \A p \in Reprobes \ {Export} : fresh'[p] = fresh[p] BY <1>1
<1>12. pc' = [pc EXCEPT ![Export] = to] /\ job' = [job EXCEPT ![Export] = j]
  BY <1>1, <1>6, <1>7
<1> QED BY <1>1, <1>2, <1>3, <1>4, <1>5, <1>6, <1>7, <1>8, <1>10, <1>11, <1>12, UnlinkStep

LEMMA MoveUnlinkRaisesIInv ==
  ASSUME IInv, NEW p \in Reprobes, MoveUnlinkRaises(p)
  PROVE  IInv'
<1>1. /\ UnlinkRaises(p)
      /\ pc' = [pc EXCEPT ![p] = "off"] /\ job' = [job EXCEPT ![p] = NoJob]
      /\ ckpt' = [job[p].mem EXCEPT ![job[p].path] = ErrorRecord]
      /\ oplock' = (IF oplock = p THEN Free ELSE oplock)
      /\ classes' = [classes EXCEPT ![p] = 1] /\ fresh' = [fresh EXCEPT ![p] = NoWrites]
      /\ UNCHANGED <<issued, spent, accepted, runs, stored, mislaid>>
  BY DEF MoveUnlinkRaises, Raise, Finish, EndJob, Goto, world
<1>2. p \in Actors BY Ids
<1>3. PICK K \in SUBSET States :
         /\ job[p].dest \in K
         /\ file' = [s \in States |-> IF s \in K THEN file[s] ELSE None]
         /\ newer' = {r \in newer : r[1] \in K /\ r[2] \in K}
  BY <1>1, <1>2, SomeRemoved
<1>4. pc[p] = "unlink" /\ idlock' = Free /\ faults' \in 0..MaxFaults
  BY <1>1, <1>2, SomeRemoved
<1>5. ckpt' \in [States -> Records] /\ TrueRecords(ckpt)'
  <2>1. job[p].mem \in [States -> Records] BY <1>2, JobTyped DEF IInv
  <2>2. ErrorRecord \in Records /\ ErrorRecord.pushed # "yes"
    BY RecordsTyped DEF ErrorRecord, Record
  <2>3. \A s \in States : ckpt'[s] = IF s = job[p].path THEN ErrorRecord ELSE job[p].mem[s]
    BY <1>1, <2>1
  <2>4. TrueRecords(job[p].mem) BY DEF IInv, RecordsTrue
  <2>5. TrueRecords(ckpt)' BY <1>1, <2>2, <2>3, <2>4 DEF TrueRecords
  <2> QED BY <1>1, <2>1, <2>2, <2>5
<1>6. /\ classes' \in [Reprobes -> 0..2] /\ fresh' \in [Reprobes -> Writes]
      /\ \A q \in Reprobes \ {p} : fresh'[q] = fresh[q]
  BY <1>1, OthersStay, NoWritesTyped
<1>7. PICK to \in {"off"} : to = "off" OBVIOUS
<1>8. PICK j \in JobType : j = NoJob BY NoJobTyped
<1>9. to \in {"off", "push", "conclude"} /\ to # "conclude" BY <1>7
<1>10. oplock' = IF oplock = p /\ to = "off" THEN Free ELSE oplock BY <1>1, <1>7
<1>11. pc' = [pc EXCEPT ![p] = to] /\ job' = [job EXCEPT ![p] = j] BY <1>1, <1>7, <1>8
<1> QED BY <1>1, <1>2, <1>3, <1>4, <1>5, <1>6, <1>7, <1>8, <1>9, <1>10, <1>11, UnlinkStep

-----------------------------------------------------------------------------
(* Every step.                                                             *)

LEMMA InitIInv == ASSUME Init PROVE IInv
<1>1. /\ file = [s \in States |-> None] /\ newer = {} /\ idlock = Free /\ oplock = Free
      /\ ckpt = NoCheckpoint /\ pc = [a \in Actors |-> "off"] /\ job = [a \in Actors |-> NoJob]
      /\ classes = [p \in Reprobes |-> 0] /\ issued = 0 /\ spent = {} /\ accepted = {}
      /\ runs = 0 /\ faults = 0 /\ fresh = [p \in Reprobes |-> NoWrites]
      /\ stored = FALSE /\ mislaid = FALSE
  BY DEF Init
<1>2. /\ NoJob.cand = None /\ NoJob.fp = None /\ NoJob.pushed = "none"
      /\ NoJob.mem = NoCheckpoint /\ NoJob \in JobType
  BY NoJobTyped
<1>3. \A p \in Reprobes : pc[p] = "off" /\ ~Working(p) /\ p # Free /\ job[p] = NoJob
  BY <1>1, Ids DEF Working
<1>4. TypeOK
  <2>1. classes \in [Reprobes -> 0..2] BY <1>1
  <2>2. issued \in 0..MaxTokens /\ runs \in 0..MaxRuns /\ faults \in 0..MaxFaults
    BY <1>1, ConstantsOK
  <2>3. pc \in [Actors -> Stages] BY <1>1 DEF Stages
  <2>4. spent \subseteq 1..issued /\ accepted \subseteq Tokens BY <1>1
  <2> QED BY <1>1, <1>2, <2>1, <2>2, <2>3, <2>4, RecordsTyped, NoWritesTyped DEF TypeOK
<1>5. LocksHeld BY <1>1, <1>3, Ids DEF LocksHeld
<1>6. FilesOrdered BY <1>1 DEF FilesOrdered, Newer
<1>7. ExportAlone BY <1>1, Ids DEF ExportAlone
<1>8. IssuedOnly BY <1>1, <1>2 DEF IssuedOnly, None
<1>9. Unlinking BY <1>1 DEF Unlinking
<1>10. InMemory BY <1>2, <1>3 DEF InMemory
<1>11. ChangeIsSeen BY <1>3 DEF ChangeIsSeen
<1>12. NewestIsOther BY <1>3 DEF NewestIsOther
<1>13. NewestUsable BY <1>1 DEF NewestUsable
<1>14. RecordsTrue
  <2>1. TrueRecords(NoCheckpoint) BY DEF TrueRecords, NoCheckpoint, ErrorRecord, Record
  <2> QED BY <1>1, <1>2, <1>3, <2>1 DEF RecordsTrue
<1> QED BY <1>4, <1>5, <1>6, <1>7, <1>8, <1>9, <1>10, <1>11, <1>12, <1>13, <1>14 DEF IInv

LEMMA StutterIInv == ASSUME IInv, UNCHANGED vars PROVE IInv'
<1>1. UNCHANGED <<file, newer, idlock, oplock, ckpt, pc, job, classes, issued, spent, accepted,
                  runs, faults, fresh, stored, mislaid>>
  BY DEF vars, disk, locks, world
<1>2. TypeOK' BY <1>1 DEF IInv, TypeOK
<1>3. LocksHeld' BY <1>1 DEF IInv, LocksHeld, Working
<1>4. FilesOrdered' BY <1>1 DEF IInv, FilesOrdered, Newer
<1>5. ExportAlone' BY <1>1 DEF IInv, ExportAlone
<1>6. IssuedOnly' BY <1>1 DEF IInv, IssuedOnly
<1>7. Unlinking' BY <1>1 DEF IInv, Unlinking, Newer
<1>8. InMemory' BY <1>1 DEF IInv, InMemory, Working
<1>9. ChangeIsSeen' BY <1>1 DEF IInv, ChangeIsSeen, Working, Newer
<1>10. NewestIsOther' BY <1>1 DEF IInv, NewestIsOther, Newest, Newer
<1>11. NewestUsable' BY <1>1 DEF IInv, NewestUsable, Newest, Newer
<1>12. RecordsTrue' BY <1>1 DEF IInv, RecordsTrue, TrueRecords, Working
<1> QED BY <1>2, <1>3, <1>4, <1>5, <1>6, <1>7, <1>8, <1>9, <1>10, <1>11, <1>12 DEF IInv

LEMMA NextIInv == ASSUME IInv, Next PROVE IInv'
<1>1. ASSUME NEW p \in Reprobes, StartRun(p) PROVE IInv' BY <1>1, StartRunIInv
<1>2. ASSUME NEW p \in Reprobes, RunStep(p) PROVE IInv'
  <2>1. CASE \/ OperationLockTimeout(p) \/ ReadMissing(p) \/ StoreFails(p) \/ WriteRaises(p)
             \/ MoveRefused(p) \/ PushRaises(p)
    BY <2>1, GivesUpIInv
  <2>2. CASE Read(p) BY <2>2, ReadIInv
  <2>3. CASE Skip(p) BY <2>3, SkipIInv
  <2>4. CASE Probe(p) BY <2>4, ProbeIInv
  <2>5. CASE Refresh(p) BY <2>5, RefreshIInv
  <2>6. CASE Revoked(p) BY <2>6, RevokedIInv
  <2>7. CASE Store(p) BY <2>7, StoreIInv
  <2>8. CASE Move(p) BY <2>8, Ids, MoveIInv
  <2>9. CASE Moved(p) BY <2>9, MovedIInv
  <2>10. CASE MoveUnlinkRaises(p) BY <2>10, MoveUnlinkRaisesIInv
  <2>11. CASE Push(p) BY <2>11, PushIInv
  <2>12. CASE Conclude(p) BY <2>12, ConcludeIInv
  <2> QED BY <1>2, <2>1, <2>2, <2>3, <2>4, <2>5, <2>6, <2>7, <2>8, <2>9, <2>10, <2>11, <2>12
          DEF RunStep
<1>3. CASE ExportMint \/ ExportProbeAgain \/ ExportRefresh BY <1>3, ExportWorksIInv
<1>4. CASE ExportStep
  <2>1. CASE ExportProbeAgain \/ ExportRefresh BY <2>1, ExportWorksIInv
  <2>2. CASE Move(Export) BY <2>2, Ids, MoveIInv
  <2>3. CASE ExportMoved BY <2>3, ExportMovedIInv
  <2>4. CASE ExportUnlinkRaises BY <2>4, ExportUnlinkRaisesIInv
  <2>5. CASE ExportLockTimeout \/ ExportPush BY <2>5, ExportEndIInv
  <2> QED BY <1>4, <2>1, <2>2, <2>3, <2>4, <2>5 DEF ExportStep
<1>5. ASSUME NEW a \in Actors, Crash(a) PROVE IInv' BY <1>5, CrashIInv
<1>6. CASE ClearLocks BY <1>6, ClearLocksIInv
<1> QED BY <1>1, <1>2, <1>3, <1>4, <1>5, <1>6 DEF Next

-----------------------------------------------------------------------------
(* What a run does to files written since its read.                        *)

\* A step of one actor that is not a run has nothing to say of the runs.
LEMMA ChangesOne ==
  ASSUME IInv, NEW a \in Actors, NEW to, Goto(a, to), NEW p \in Reprobes, pc'[p] # pc[p]
  PROVE  p = a
BY Ids DEF IInv, TypeOK, Goto

\* A step of a run that replaces or removes files finds no file that others
\* wrote since its read or its store; what they wrote between the two goes only
\* where the refreshed token is left.
LEMMA NoneOverwritten ==
  ASSUME IInv, NEW p \in Reprobes,
         Move(p) \/ Store(p) \/ Moved(p) \/ MoveUnlinkRaises(p)
  PROVE  /\ \A s \in fresh[p].new : file'[s] = file[s]
         /\ \A s \in fresh[p].old : file'[s] = file[s] \/ MovesRefreshed(p)
<1> PICK d \in States : d = job[p].dest BY Ids, JobTyped DEF IInv
<1>1. CASE Move(p)
  <2>1. /\ pc[p] = "move" /\ SourceUnchanged(p)
        /\ file' = [file EXCEPT ![d] = job[p].cand]
    BY <1>1 DEF Move, WriteFile
  <2>2. fresh[p].new = {} BY <2>1, MayMove
  <2>3. file'[d] = job[p].cand BY <2>1 DEF IInv, TypeOK
  <2>4. MovesRefreshed(p) BY <2>1, <2>3 DEF MovesRefreshed
  <2> QED BY <2>2, <2>4
<1>2. CASE Store(p)
  <2>1. /\ pc[p] = "store" /\ file[job[p].path] = job[p].fp
        /\ file' = [file EXCEPT ![job[p].path] = job[p].cand]
    BY <1>2 DEF Store
  <2>2. job[p].path \notin fresh[p].new /\ fresh[p].old = {}
    BY <2>1 DEF IInv, ChangeIsSeen, Working
  <2>3. fresh[p].new \subseteq States BY DEF IInv, TypeOK, Writes
  <2> QED BY <2>1, <2>2, <2>3 DEF IInv, TypeOK
<1>3. CASE Moved(p) \/ MoveUnlinkRaises(p)
  <2>1. pc[p] = "unlink" BY <1>3 DEF Moved, MoveUnlinkRaises, RemoveOthers, UnlinkRaises
  <2>2. fresh[p].new = {} BY <2>1 DEF IInv, ChangeIsSeen, Working
  <2>3. file[d] = job[p].cand BY <2>1, Ids DEF IInv, Unlinking
  <2>4. file'[d] = file[d]
    <3>1. CASE RemoveOthers(p) BY <3>1 DEF RemoveOthers
    <3>2. CASE UnlinkRaises(p) BY <3>2 DEF UnlinkRaises
    <3> QED BY <1>3, <3>1, <3>2 DEF Moved, MoveUnlinkRaises
  <2>5. MovesRefreshed(p) BY <2>1, <2>3, <2>4 DEF MovesRefreshed
  <2> QED BY <2>2, <2>5
<1> QED BY <1>1, <1>2, <1>3

LEMMA NoLostUpdateStep ==
  ASSUME IInv, [Next]_vars, NEW p \in Reprobes, pc'[p] # pc[p]
  PROVE  /\ \A s \in fresh[p].new : file'[s] = file[s]
         /\ \A s \in fresh[p].old : file'[s] = file[s] \/ MovesRefreshed(p)
<1> DEFINE Kept == /\ \A s \in fresh[p].new : file'[s] = file[s]
                   /\ \A s \in fresh[p].old : file'[s] = file[s] \/ MovesRefreshed(p)
<1> SUFFICES Kept OBVIOUS
<1>1. file' = file => Kept OBVIOUS
<1> HIDE DEF Kept
<1>2. ASSUME NEW q \in Reprobes, RunStep(q) PROVE Kept
  <2>1. CASE Move(q) \/ Store(q) \/ Moved(q) \/ MoveUnlinkRaises(q)
    <3>1. \E to : Goto(q, to)
      BY <2>1 DEF Move, Store, Moved, MoveUnlinkRaises, Raise, Finish, EndJob
    <3>2. p = q BY <3>1, Ids, ChangesOne
    <3> QED BY <2>1, <3>2, NoneOverwritten DEF Kept
  <2>2. CASE \/ OperationLockTimeout(q) \/ ReadMissing(q) \/ StoreFails(q) \/ WriteRaises(q)
             \/ MoveRefused(q) \/ PushRaises(q)
    <3>1. file' = file
      BY <2>2 DEF OperationLockTimeout, ReadMissing, StoreFails, WriteRaises, MoveRefused,
                  PushRaises, disk
    <3> QED BY <1>1, <3>1
  <2>3. CASE Read(q) \/ Skip(q) \/ Probe(q) \/ Refresh(q) \/ Revoked(q) \/ Push(q) \/ Conclude(q)
    <3>1. file' = file
      BY <2>3 DEF Read, Skip, Probe, Refresh, Revoked, Push, Conclude, disk
    <3> QED BY <1>1, <3>1
  <2> QED BY <1>2, <2>1, <2>2, <2>3 DEF RunStep
<1>3. CASE ExportMint \/ ExportProbeAgain \/ ExportRefresh \/ ExportLockTimeout \/ ExportPush
  <2>1. file' = file
    BY <1>3 DEF ExportMint, ExportProbeAgain, ExportRefresh, ExportLockTimeout, ExportPush, disk
  <2> QED BY <1>1, <2>1
<1>4. CASE Move(Export) \/ ExportMoved \/ ExportUnlinkRaises
  <2>1. \E to : Goto(Export, to) BY <1>4 DEF Move, ExportMoved, ExportUnlinkRaises, EndJob
  <2>2. p = Export BY <2>1, Ids, ChangesOne
  <2> QED BY <2>2, Ids
<1>5. ASSUME NEW q \in Reprobes, StartRun(q) PROVE Kept
  <2>1. file' = file BY <1>5 DEF StartRun, disk
  <2> QED BY <1>1, <2>1
<1>6. ASSUME NEW a \in Actors, Crash(a) PROVE Kept
  <2>1. file' = file BY <1>6 DEF Crash, disk
  <2> QED BY <1>1, <2>1
<1>7. CASE ClearLocks \/ UNCHANGED vars
  <2>1. file' = file BY <1>7 DEF ClearLocks, disk, vars
  <2> QED BY <1>1, <2>1
<1> QED BY <1>2, <1>3, <1>4, <1>5, <1>6, <1>7 DEF Next, ExportStep

-----------------------------------------------------------------------------

\* The inductive invariant: the locks are held by those inside them, the mtimes
\* order the files, and the newest file has a token that can be refreshed, or
\* the one that the run inside "store" replaces.
THEOREM CredentialsInvariance == Spec => []IInv
<1>1. Init => IInv BY InitIInv
<1>2. IInv /\ [Next]_vars => IInv' BY NextIInv, StutterIInv
<1> QED BY <1>1, <1>2, PTL DEF Spec

\* Whatever races, crashes and failing unlinks do to the files of the identity,
\* a token that can be refreshed, or that Sub2API took over, is in a file or
\* about to be stored, save one lost with xAI's answer or a dying process.
THEOREM LastCredentialKept == Spec => []LastUsableKept
<1>1. ASSUME IInv PROVE LastUsableKept
  <2> SUFFICES ASSUME stored, ~mislaid
               PROVE  \E t \in Tokens :
                         /\ t \notin spent \/ t \in accepted
                         /\ \/ \E s \in States : file[s] = t
                            \/ \E p \in Reprobes : pc[p] = "store" /\ job[p].cand = t
    BY DEF LastUsableKept
  <2>1. PICK s \in States :
           /\ Newest(s)
           /\ \/ file[s] \notin spent \/ file[s] \in accepted
              \/ \E p \in Reprobes : pc[p] = "store" /\ job[p].fp = file[s]
    BY <1>1 DEF IInv, NewestUsable
  <2>2. file[s] \in Tokens BY <1>1, <2>1 DEF IInv, TypeOK, Newest
  <2>3. CASE file[s] \notin spent \/ file[s] \in accepted BY <2>2, <2>3
  <2>4. ASSUME NEW p \in Reprobes, pc[p] = "store"
        PROVE  job[p].cand \in Tokens /\ job[p].cand \notin spent
    <3>1. job[p].cand \notin spent \cup {None} BY <1>1, <2>4 DEF IInv, InMemory
    <3>2. job[p].cand \in {None} \cup Tokens BY <1>1, Ids, JobTyped DEF IInv
    <3> QED BY <3>1, <3>2
  <2> QED BY <2>1, <2>3, <2>4
<1> QED BY <1>1, CredentialsInvariance, PTL

\* The checkpoint records a push only of a token that the bridge has taken,
\* whichever run wrote it back from whichever copy.
THEOREM CheckpointIsTrue == Spec => []PushedIsTrue
<1>1. IInv => PushedIsTrue BY DEF IInv, RecordsTrue, TrueRecords, PushedIsTrue
<1> QED BY <1>1, CredentialsInvariance, PTL

\* No step of a run replaces or removes what others wrote after its read, in any
\* state directory, with one exception: what they wrote before the run stored a
\* refreshed token, by the transition that leaves that token in a file.
THEOREM NoUpdateLost == Spec => NoLostUpdate
<1>1. IInv /\ [Next]_vars =>
         [\A p \in Reprobes : pc'[p] # pc[p] =>
             /\ \A s \in fresh[p].new : file'[s] = file[s]
             /\ \A s \in fresh[p].old : file'[s] = file[s] \/ MovesRefreshed(p)]_vars
  BY NoLostUpdateStep
<1> QED BY <1>1, CredentialsInvariance, PTL DEF Spec, NoLostUpdate
=============================================================================
