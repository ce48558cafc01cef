------------------------- MODULE Registration_proofs -------------------------
(***************************************************************************)
(* Proofs about Registration, for every number of attempts and workers,    *)
(* every pool, policy and set of faults.                                   *)
(***************************************************************************)
EXTENDS Registration, FiniteSetTheorems, TLAPS

\* A dump of the manifest is not NoDump.
LEMMA DumpIsSome == \A f \in [Attempts -> Statuses] : f # NoDump
<1>1. 1 \in Attempts BY RegistrationAssumption DEF Attempts
<1>2. DOMAIN NoDump = {} BY DEF NoDump
<1> QED BY <1>1, <1>2

\* The batch has a worker.
LEMMA WorkerCountPositive ==
  ASSUME specs \in HealthySets
  PROVE  WorkerCount \in Nat \ {0}
<1>1. Capacity(specs) \in Nat \ {0} /\ Workers \in Nat \ {0} BY RegistrationAssumption
<1>2. \E x \in {Workers, Capacity(specs)} : \A y \in {Workers, Capacity(specs)} : x =< y
  BY <1>1
<1>3. Min({Workers, Capacity(specs)}) \in {Workers, Capacity(specs)}
  BY <1>2 DEF Min
<1> QED BY <1>1, <1>3 DEF WorkerCount

\* The initial states satisfy the inductive invariant.
LEMMA InitIInv == Init => IInv
<1> SUFFICES ASSUME Init PROVE IInv OBVIOUS
<1> USE DEF Init
<1>1. TypeOK
  <2>1. specs \in HealthySets /\ lease \in [Attempts -> Refs \cup {NoRef}]
    BY RegistrationAssumption DEF LeaseInit
  <2>2. /\ memory \in [Attempts -> Statuses] /\ disk \in [Attempts -> Statuses]
        /\ pc \in [Attempts -> Places]
    BY DEF Statuses, Places
  <2>3. saver \in Attempts \cup {Main, Nobody} /\ writing \in [Attempts \cup {Main} -> {NoDump}]
    BY DEF Nobody
  <2>4. /\ mailbox \in [Attempts -> BOOLEAN] /\ made \in [Attempts -> BOOLEAN]
        /\ account \in [Attempts -> BOOLEAN] /\ told \in [Attempts -> BOOLEAN]
    OBVIOUS
  <2>5. failures \in 0..Count /\ consecutive \in 0..Count BY RegistrationAssumption
  <2>7. /\ child \in [Attempts -> {"none", "up", "wrote", "ok", "bad"}]
        /\ result \in [Attempts -> {"none", "not-created", "created", "auth"}]
    OBVIOUS
  <2>8. ready \subseteq pending /\ pending \subseteq Attempts /\ auths \subseteq Attempts OBVIOUS
  <2> QED BY <2>1, <2>2, <2>3, <2>4, <2>5, <2>7, <2>8 DEF TypeOK
<1>2. SaverHolds /\ StatusFollows /\ Recorded /\ ChildKnows
  BY DEF SaverHolds, StatusFollows, StatusAt, Recorded, ChildKnows, Main, Nobody, Attempts
<1>3. Submitted = {} BY DEF Submitted
<1>4. InOrder
  <2>1. Submitted = 1..0 BY <1>3
  <2> QED BY <2>1, RegistrationAssumption DEF InOrder
<1>5. Handled /\ Tallied /\ GoesOn /\ DiskBehind
  BY <1>3, FS_EmptySet DEF Handled, Tallied, GoesOn, DiskBehind, Nobody, Attempts, Progress
<1> QED BY <1>1, <1>2, <1>4, <1>5 DEF IInv

-----------------------------------------------------------------------------
(* Steps of an attempt.                                                    *)

\* What a status says of the progress of its attempt is a number.
LEMMA ProgressType == \A s \in Statuses : Progress(s) \in 0..3
BY DEF Statuses, Progress

LEMMA StatusType == \A w \in Places : StatusAt(w) \subseteq Statuses
BY DEF Places, StatusAt, Statuses

\* An attempt that has not ended goes to another place and, it may be, status:
\* what the main thread has counted stays true.
LEMMA MoveTallies ==
  ASSUME IInv, NEW i \in Attempts, NEW w \in Places \ {"none", "queued", "gone"},
         NEW s \in StatusAt(w),
         pc[i] \notin {"none", "over", "raised", "gone"},
         pc' = [pc EXCEPT ![i] = w], memory' = [memory EXCEPT ![i] = s],
         UNCHANGED <<specs, tally>>
  PROVE  /\ StatusFollows' /\ InOrder' /\ Handled' /\ Tallied' /\ GoesOn'
         /\ pc' \in [Attempts -> Places] /\ memory' \in [Attempts -> Statuses]
         /\ main \notin {"dead", "done"}
<1> USE DEF tally
<1>1. pc \in [Attempts -> Places] /\ memory \in [Attempts -> Statuses]
  BY DEF IInv, TypeOK
<1>2. s \in Statuses BY StatusType
<1>3. pc' \in [Attempts -> Places] /\ memory' \in [Attempts -> Statuses] BY <1>1, <1>2
<1>4. Submitted' = Submitted /\ i \in Submitted BY <1>1 DEF Submitted
<1>5. main \notin {"dead", "done"} /\ i \notin auths /\ (main # "unwinding" => i \in pending)
  BY <1>1, <1>4 DEF IInv, Handled, Tallied, GoesOn
<1>6. StatusFollows' BY <1>1 DEF IInv, StatusFollows
<1>7. InOrder' BY <1>4 DEF IInv, InOrder
<1>8. Handled' BY <1>1, <1>4, <1>5 DEF IInv, Handled, Ended
<1>9. Tallied' BY <1>1, <1>4, <1>5 DEF IInv, Tallied
<1>10. GoesOn' BY <1>4, <1>5 DEF IInv, GoesOn
<1> QED BY <1>3, <1>5, <1>6, <1>7, <1>8, <1>9, <1>10

\* The same for a step that saves nothing and does not set the attempt back.
LEMMA MoveKeeps ==
  ASSUME IInv, NEW i \in Attempts, NEW w \in Places \ {"none", "queued", "gone"},
         NEW s \in StatusAt(w),
         pc[i] \notin {"none", "over", "raised", "gone"}, saver # i,
         pc' = [pc EXCEPT ![i] = w], memory' = [memory EXCEPT ![i] = s],
         Progress(memory[i]) <= Progress(s),
         UNCHANGED <<specs, disk, writing, saver, tally>>
  PROVE  /\ SaverHolds' /\ StatusFollows' /\ InOrder' /\ Handled' /\ Tallied' /\ GoesOn'
         /\ DiskBehind'
         /\ pc' \in [Attempts -> Places] /\ memory' \in [Attempts -> Statuses]
<1>1. /\ pc \in [Attempts -> Places] /\ memory \in [Attempts -> Statuses]
      /\ disk \in [Attempts -> Statuses]
  BY DEF IInv, TypeOK
<1>2. /\ StatusFollows' /\ InOrder' /\ Handled' /\ Tallied' /\ GoesOn'
      /\ pc' \in [Attempts -> Places] /\ memory' \in [Attempts -> Statuses]
      /\ main # "dead"
  BY MoveTallies
<1>3. SaverHolds' BY <1>1 DEF IInv, SaverHolds, tally
<1>4. DiskBehind'
  <2>1. saver # Nobody => \A j \in Attempts : writing[saver][j] \in Statuses
    BY DumpIsSome DEF IInv, SaverHolds, TypeOK
  <2>2. \A j \in Attempts : Progress(memory[j]) <= Progress(memory'[j]) /\ Progress(memory[j]) \in 0..3
    BY <1>1, <1>2, ProgressType
  <2>3. \A j \in Attempts : Progress(memory'[j]) \in 0..3 /\ Progress(disk[j]) \in 0..3
    BY <1>1, <1>2, ProgressType
  <2>4. saver # Nobody => \A j \in Attempts : Progress(writing[saver][j]) \in 0..3
    BY <2>1, ProgressType
  <2> QED BY <1>2, <2>2, <2>3, <2>4 DEF IInv, DiskBehind
<1> QED BY <1>2, <1>3, <1>4

\* A thread takes the attempt.
LEMMA StartIInv ==
  ASSUME IInv, NEW i \in Attempts, Start(i)
  PROVE  IInv'
<1> USE DEF Start, Goto, SetStatus
<1>1. pc[i] = "queued" OBVIOUS
<1>2. memory' = [memory EXCEPT ![i] = "running"] /\ "running" \in StatusAt("leasing") /\ Progress(memory[i]) <= Progress("running")
  BY <1>1, ProgressType DEF IInv, TypeOK, StatusFollows, StatusAt, Progress, manifest
<1>3. "leasing" \in Places \ {"none", "queued", "gone"} BY DEF Places
<1>4. saver # i BY <1>1 DEF IInv, SaverHolds, AfterSave
<1>5. /\ SaverHolds' /\ StatusFollows' /\ InOrder' /\ Handled' /\ Tallied' /\ GoesOn' /\ DiskBehind'
      /\ pc' \in [Attempts -> Places] /\ memory' \in [Attempts -> Statuses]
  BY <1>1, <1>2, <1>3, <1>4, MoveKeeps DEF manifest
<1>6. TypeOK'
  BY <1>5 DEF IInv, TypeOK, world, manifest, tally
<1>7. Recorded'
  BY <1>1 DEF IInv, TypeOK, Recorded, world, manifest
<1>8. ChildKnows'
  BY <1>1 DEF IInv, TypeOK, ChildKnows, world, manifest
<1> QED BY <1>5, <1>6, <1>7, <1>8 DEF IInv

\* It cannot start.
LEMMA StartRaisesIInv ==
  ASSUME IInv, NEW i \in Attempts, StartRaises(i)
  PROVE  IInv'
<1> USE DEF StartRaises, Goto
<1>1. pc[i] = "queued" OBVIOUS
<1>2. memory' = [memory EXCEPT ![i] = memory[i]] /\ memory[i] \in StatusAt("raised") /\ Progress(memory[i]) <= Progress(memory[i])
  BY <1>1, ProgressType DEF IInv, TypeOK, StatusFollows, StatusAt, Progress, manifest
<1>3. "raised" \in Places \ {"none", "queued", "gone"} BY DEF Places
<1>4. saver # i BY <1>1 DEF IInv, SaverHolds, AfterSave
<1>5. /\ SaverHolds' /\ StatusFollows' /\ InOrder' /\ Handled' /\ Tallied' /\ GoesOn' /\ DiskBehind'
      /\ pc' \in [Attempts -> Places] /\ memory' \in [Attempts -> Statuses]
  BY <1>1, <1>2, <1>3, <1>4, MoveKeeps DEF manifest
<1>6. TypeOK'
  BY <1>5 DEF IInv, TypeOK, world, manifest, tally
<1>7. Recorded'
  BY <1>1 DEF IInv, TypeOK, Recorded, world, manifest
<1>8. ChildKnows'
  BY <1>1 DEF IInv, TypeOK, ChildKnows, world, manifest
<1> QED BY <1>5, <1>6, <1>7, <1>8 DEF IInv

\* It gets no lease.
LEMMA AcquireRaisesIInv ==
  ASSUME IInv, NEW i \in Attempts, AcquireRaises(i)
  PROVE  IInv'
<1> USE DEF AcquireRaises, Goto
<1>1. pc[i] = "leasing" OBVIOUS
<1>2. memory' = [memory EXCEPT ![i] = memory[i]] /\ memory[i] \in StatusAt("failing") /\ Progress(memory[i]) <= Progress(memory[i])
  BY <1>1, ProgressType DEF IInv, TypeOK, StatusFollows, StatusAt, Progress, manifest
<1>3. "failing" \in Places \ {"none", "queued", "gone"} BY DEF Places
<1>4. saver # i BY <1>1 DEF IInv, SaverHolds, AfterSave
<1>5. /\ SaverHolds' /\ StatusFollows' /\ InOrder' /\ Handled' /\ Tallied' /\ GoesOn' /\ DiskBehind'
      /\ pc' \in [Attempts -> Places] /\ memory' \in [Attempts -> Statuses]
  BY <1>1, <1>2, <1>3, <1>4, MoveKeeps DEF manifest
<1>6. TypeOK'
  BY <1>5 DEF IInv, TypeOK, world, manifest, tally
<1>7. Recorded'
  BY <1>1 DEF IInv, TypeOK, Recorded, world, manifest
<1>8. ChildKnows'
  BY <1>1 DEF IInv, TypeOK, ChildKnows, world, manifest
<1> QED BY <1>5, <1>6, <1>7, <1>8 DEF IInv

\* It gets one.
LEMMA AcquireIInv ==
  ASSUME IInv, NEW i \in Attempts, Acquire(i)
  PROVE  IInv'
<1> USE DEF Acquire, Goto
<1>1. pc[i] = "leasing" OBVIOUS
<1>2. memory' = [memory EXCEPT ![i] = memory[i]] /\ memory[i] \in StatusAt("recording") /\ Progress(memory[i]) <= Progress(memory[i])
  BY <1>1, ProgressType DEF IInv, TypeOK, StatusFollows, StatusAt, Progress, manifest
<1>3. "recording" \in Places \ {"none", "queued", "gone"} BY DEF Places
<1>4. saver # i BY <1>1 DEF IInv, SaverHolds, AfterSave
<1>5. /\ SaverHolds' /\ StatusFollows' /\ InOrder' /\ Handled' /\ Tallied' /\ GoesOn' /\ DiskBehind'
      /\ pc' \in [Attempts -> Places] /\ memory' \in [Attempts -> Statuses]
  BY <1>1, <1>2, <1>3, <1>4, MoveKeeps DEF manifest, Lease
<1>6. TypeOK'
  BY <1>5, RegistrationAssumption DEF IInv, TypeOK, world, manifest, tally, Lease
<1>7. Recorded'
  BY <1>1 DEF IInv, TypeOK, Recorded, world, manifest
<1>8. ChildKnows'
  BY <1>1 DEF IInv, TypeOK, ChildKnows, world, manifest
<1> QED BY <1>5, <1>6, <1>7, <1>8 DEF IInv

\* It creates its mailbox.
LEMMA CreateMailboxIInv ==
  ASSUME IInv, NEW i \in Attempts, CreateMailbox(i)
  PROVE  IInv'
<1> USE DEF CreateMailbox, Goto
<1>1. pc[i] = "mailing" OBVIOUS
<1>2. memory' = [memory EXCEPT ![i] = memory[i]] /\ memory[i] \in StatusAt("signing") /\ Progress(memory[i]) <= Progress(memory[i])
  BY <1>1, ProgressType DEF IInv, TypeOK, StatusFollows, StatusAt, Progress, manifest
<1>3. "signing" \in Places \ {"none", "queued", "gone"} BY DEF Places
<1>4. saver # i BY <1>1 DEF IInv, SaverHolds, AfterSave
<1>5. /\ SaverHolds' /\ StatusFollows' /\ InOrder' /\ Handled' /\ Tallied' /\ GoesOn' /\ DiskBehind'
      /\ pc' \in [Attempts -> Places] /\ memory' \in [Attempts -> Statuses]
  BY <1>1, <1>2, <1>3, <1>4, MoveKeeps DEF manifest
<1>6. TypeOK'
  BY <1>5 DEF IInv, TypeOK, world, manifest, tally
<1>7. Recorded'
  BY <1>1 DEF IInv, TypeOK, Recorded, world, manifest
<1>8. ChildKnows'
  BY <1>1 DEF IInv, TypeOK, ChildKnows, world, manifest
<1> QED BY <1>5, <1>6, <1>7, <1>8 DEF IInv

\* It cannot.
LEMMA CreateMailboxRaisesIInv ==
  ASSUME IInv, NEW i \in Attempts, CreateMailboxRaises(i)
  PROVE  IInv'
<1> USE DEF CreateMailboxRaises, Goto
<1>1. pc[i] = "mailing" OBVIOUS
<1>2. memory' = [memory EXCEPT ![i] = memory[i]] /\ memory[i] \in StatusAt("failing") /\ Progress(memory[i]) <= Progress(memory[i])
  BY <1>1, ProgressType DEF IInv, TypeOK, StatusFollows, StatusAt, Progress, manifest
<1>3. "failing" \in Places \ {"none", "queued", "gone"} BY DEF Places
<1>4. saver # i BY <1>1 DEF IInv, SaverHolds, AfterSave
<1>5. /\ SaverHolds' /\ StatusFollows' /\ InOrder' /\ Handled' /\ Tallied' /\ GoesOn' /\ DiskBehind'
      /\ pc' \in [Attempts -> Places] /\ memory' \in [Attempts -> Statuses]
  BY <1>1, <1>2, <1>3, <1>4, MoveKeeps DEF manifest
<1>6. TypeOK'
  BY <1>5 DEF IInv, TypeOK, world, manifest, tally
<1>7. Recorded'
  BY <1>1 DEF IInv, TypeOK, Recorded, world, manifest
<1>8. ChildKnows'
  BY <1>1 DEF IInv, TypeOK, ChildKnows, world, manifest
<1> QED BY <1>5, <1>6, <1>7, <1>8 DEF IInv

\* run.py has registered the account.
LEMMA RegisteredIInv ==
  ASSUME IInv, NEW i \in Attempts, Registered(i)
  PROVE  IInv'
<1> USE DEF Registered, Goto, SetStatus
<1>1. pc[i] = "running" /\ writing[i] = NoDump OBVIOUS
<1>2. memory' = [memory EXCEPT ![i] = "registered"] /\ "registered" \in StatusAt("releasing") /\ Progress(memory[i]) <= Progress("registered")
  BY <1>1, ProgressType DEF IInv, TypeOK, StatusFollows, StatusAt, Progress, manifest
<1>3. "releasing" \in Places \ {"none", "queued", "gone"} BY DEF Places
<1>4. saver # i BY <1>1 DEF IInv, SaverHolds, AfterSave
<1>5. /\ SaverHolds' /\ StatusFollows' /\ InOrder' /\ Handled' /\ Tallied' /\ GoesOn' /\ DiskBehind'
      /\ pc' \in [Attempts -> Places] /\ memory' \in [Attempts -> Statuses]
  BY <1>1, <1>2, <1>3, <1>4, MoveKeeps DEF manifest
<1>6. TypeOK'
  BY <1>5 DEF IInv, TypeOK, world, manifest, tally
<1>7. Recorded'
  BY <1>1 DEF IInv, TypeOK, Recorded, world, manifest
<1>8. ChildKnows'
  BY <1>1 DEF IInv, TypeOK, ChildKnows, world, manifest
<1> QED BY <1>5, <1>6, <1>7, <1>8 DEF IInv

\* run.py has failed.
LEMMA RunFailedIInv ==
  ASSUME IInv, NEW i \in Attempts, RunFailed(i)
  PROVE  IInv'
<1> USE DEF RunFailed, Goto
<1>1. pc[i] = "running" /\ writing[i] = NoDump OBVIOUS
<1>2. memory' = [memory EXCEPT ![i] = memory[i]] /\ memory[i] \in StatusAt("failing") /\ Progress(memory[i]) <= Progress(memory[i])
  BY <1>1, ProgressType DEF IInv, TypeOK, StatusFollows, StatusAt, Progress, manifest
<1>3. "failing" \in Places \ {"none", "queued", "gone"} BY DEF Places
<1>4. saver # i BY <1>1 DEF IInv, SaverHolds, AfterSave
<1>5. /\ SaverHolds' /\ StatusFollows' /\ InOrder' /\ Handled' /\ Tallied' /\ GoesOn' /\ DiskBehind'
      /\ pc' \in [Attempts -> Places] /\ memory' \in [Attempts -> Statuses]
  BY <1>1, <1>2, <1>3, <1>4, MoveKeeps DEF manifest
<1>6. TypeOK'
  BY <1>5 DEF IInv, TypeOK, world, manifest, tally
<1>7. Recorded'
  BY <1>1 DEF IInv, TypeOK, Recorded, world, manifest
<1>8. ChildKnows'
  BY <1>1 DEF IInv, TypeOK, ChildKnows, world, manifest
<1> QED BY <1>5, <1>6, <1>7, <1>8 DEF IInv

\* The attempt has failed.
LEMMA FailIInv ==
  ASSUME IInv, NEW i \in Attempts, Fail(i)
  PROVE  IInv'
<1> USE DEF Fail, Goto, SetStatus
<1> DEFINE w == IF CleanUp /\ made[i] THEN "cleaning" ELSE "releasing"
<1>1. pc[i] = "failing" OBVIOUS
<1>2. memory' = [memory EXCEPT ![i] = "failed"] /\ "failed" \in StatusAt(w) /\ Progress(memory[i]) <= Progress("failed")
  BY <1>1, ProgressType DEF IInv, TypeOK, StatusFollows, StatusAt, Progress, manifest
<1>3. w \in Places \ {"none", "queued", "gone"} BY DEF Places
<1>4. saver # i BY <1>1 DEF IInv, SaverHolds, AfterSave
<1>5. /\ SaverHolds' /\ StatusFollows' /\ InOrder' /\ Handled' /\ Tallied' /\ GoesOn' /\ DiskBehind'
      /\ pc' \in [Attempts -> Places] /\ memory' \in [Attempts -> Statuses]
  BY <1>1, <1>2, <1>3, <1>4, MoveKeeps DEF manifest
<1>6. TypeOK'
  BY <1>5 DEF IInv, TypeOK, world, manifest, tally
<1>7. Recorded'
  BY <1>1 DEF IInv, TypeOK, Recorded, world, manifest
<1>8. ChildKnows'
  BY <1>1 DEF IInv, TypeOK, ChildKnows, world, manifest
<1> QED BY <1>5, <1>6, <1>7, <1>8 DEF IInv

\* It removes its mailbox.
LEMMA CleanIInv ==
  ASSUME IInv, NEW i \in Attempts, Clean(i)
  PROVE  IInv'
<1> USE DEF Clean, Goto
<1>1. pc[i] = "cleaning" OBVIOUS
<1>2. memory' = [memory EXCEPT ![i] = memory[i]] /\ memory[i] \in StatusAt("releasing") /\ Progress(memory[i]) <= Progress(memory[i])
  BY <1>1, ProgressType DEF IInv, TypeOK, StatusFollows, StatusAt, Progress, manifest
<1>3. "releasing" \in Places \ {"none", "queued", "gone"} BY DEF Places
<1>4. saver # i BY <1>1 DEF IInv, SaverHolds, AfterSave
<1>5. /\ SaverHolds' /\ StatusFollows' /\ InOrder' /\ Handled' /\ Tallied' /\ GoesOn' /\ DiskBehind'
      /\ pc' \in [Attempts -> Places] /\ memory' \in [Attempts -> Statuses]
  BY <1>1, <1>2, <1>3, <1>4, MoveKeeps DEF manifest
<1>6. TypeOK'
  BY <1>5 DEF IInv, TypeOK, world, manifest, tally
<1>7. Recorded'
  BY <1>1 DEF IInv, TypeOK, Recorded, world, manifest
<1>8. ChildKnows'
  BY <1>1 DEF IInv, TypeOK, ChildKnows, MayDelete, world, manifest
<1> QED BY <1>5, <1>6, <1>7, <1>8 DEF IInv

\* It returns its lease.
LEMMA ReleaseIInv ==
  ASSUME IInv, NEW i \in Attempts, Release(i)
  PROVE  IInv'
<1> USE DEF Release, Goto
<1>1. pc[i] = "releasing" OBVIOUS
<1>2. memory' = [memory EXCEPT ![i] = memory[i]] /\ memory[i] \in StatusAt("closing") /\ Progress(memory[i]) <= Progress(memory[i])
  BY <1>1, ProgressType DEF IInv, TypeOK, StatusFollows, StatusAt, Progress, manifest
<1>3. "closing" \in Places \ {"none", "queued", "gone"} BY DEF Places
<1>4. saver # i BY <1>1 DEF IInv, SaverHolds, AfterSave
<1>5. /\ SaverHolds' /\ StatusFollows' /\ InOrder' /\ Handled' /\ Tallied' /\ GoesOn' /\ DiskBehind'
      /\ pc' \in [Attempts -> Places] /\ memory' \in [Attempts -> Statuses]
  BY <1>1, <1>2, <1>3, <1>4, MoveKeeps DEF manifest, Return
<1>6. TypeOK'
  BY <1>5 DEF IInv, TypeOK, world, manifest, tally, Return
<1>7. Recorded'
  BY <1>1 DEF IInv, TypeOK, Recorded, world, manifest
<1>8. ChildKnows'
  BY <1>1 DEF IInv, TypeOK, ChildKnows, world, manifest
<1> QED BY <1>5, <1>6, <1>7, <1>8 DEF IInv
-----------------------------------------------------------------------------
(* Saves of the manifest.                                                  *)

\* The main thread is no attempt, and nobody is neither.
LEMMA ThreadsDiffer == Main \notin Attempts /\ Nobody \notin Attempts /\ Main # Nobody
BY RegistrationAssumption DEF Main, Nobody, Attempts

\* A thread takes the lock and dumps the manifest.
LEMMA BeginSaveIInv ==
  ASSUME IInv, NEW a \in Attempts \cup {Main}, BeginSave(a),
         UNCHANGED <<specs, lease, threads, world, tally>>,
         a = Main => main = "saving", a \in Attempts => pc[a] \in DOMAIN AfterSave
  PROVE  IInv'
<1> USE DEF BeginSave, threads, world, tally
<1>1. /\ memory \in [Attempts -> Statuses] /\ disk \in [Attempts -> Statuses] /\ memory # NoDump
      /\ pc \in [Attempts -> Places]
  BY DumpIsSome DEF IInv, TypeOK
<1>2. main # "dead" /\ main # "done"
  BY ThreadsDiffer DEF IInv, Handled, GoesOn, AfterSave, Submitted
<1>3. TypeOK' BY <1>1 DEF IInv, TypeOK
<1>4. SaverHolds'
  BY <1>1, ThreadsDiffer DEF IInv, TypeOK, SaverHolds
<1>5. StatusFollows' /\ InOrder' /\ Handled' /\ Tallied' /\ GoesOn' /\ Recorded' /\ ChildKnows'
  BY DEF IInv, StatusFollows, InOrder, Handled, Tallied, GoesOn, Recorded, ChildKnows, Submitted, Ended
<1>6. DiskBehind'
  <2>1. writing'[a] = memory BY DEF IInv, TypeOK, SaverHolds
  <2>2. \A j \in Attempts : Progress(memory[j]) \in 0..3 BY <1>1, ProgressType
  <2>3. a \in Attempts => memory[a] # "absent"
    BY DEF IInv, StatusFollows, StatusAt, AfterSave
  <2> QED BY <1>2, <2>1, <2>2, <2>3 DEF IInv, DiskBehind
<1> QED BY <1>3, <1>4, <1>5, <1>6 DEF IInv

\* What the end of a save, good or bad, does: nobody holds the lock, and the
\* file has gone on with the dict, or stayed.
LEMMA SaveEnds ==
  ASSUME IInv, NEW a \in Attempts \cup {Main}, EndSave(a) \/ SaveRaises(a)
  PROVE  /\ saver = a /\ saver' = Nobody /\ \A b \in Attempts \cup {Main} : writing'[b] = NoDump
         /\ disk' \in [Attempts -> Statuses]
         /\ \A j \in Attempts : /\ Progress(disk[j]) <= Progress(disk'[j])
                                /\ Progress(disk'[j]) <= Progress(memory[j])
                                /\ disk[j] # "absent" => disk'[j] # "absent"
         /\ a \in Attempts /\ EndSave(a) => disk'[a] # "absent"
         /\ UNCHANGED memory
<1> USE DEF EndSave, SaveRaises
<1>1. writing[a] # NoDump /\ saver = a BY DEF IInv, SaverHolds
<1>2. saver # Nobody BY <1>1, ThreadsDiffer
<1>3. writing[a] \in [Attempts -> Statuses] /\ disk \in [Attempts -> Statuses]
  BY <1>1 DEF IInv, TypeOK
<1>4. disk' \in [Attempts -> Statuses] /\ disk' \in {disk, writing[a]} BY <1>3
<1>5. \A j \in Attempts :
        /\ Progress(disk[j]) <= Progress(writing[a][j]) /\ Progress(writing[a][j]) <= Progress(memory[j])
        /\ Progress(disk[j]) \in 0..3 /\ Progress(writing[a][j]) \in 0..3 /\ Progress(memory[j]) \in 0..3
  BY <1>1, <1>2, <1>3, ProgressType DEF IInv, DiskBehind, TypeOK
<1>6. \A j \in Attempts : Progress(disk[j]) <= Progress(disk'[j]) /\ Progress(disk'[j]) <= Progress(memory[j])
  BY <1>4, <1>5
<1>7. \A j \in Attempts : disk[j] # "absent" => disk'[j] # "absent"
  BY <1>3, <1>4, <1>6 DEF Progress, Statuses
<1>8. \A b \in Attempts \cup {Main} : writing'[b] = NoDump
  BY <1>1 DEF IInv, SaverHolds, TypeOK
<1>9. a \in Attempts /\ EndSave(a) => disk'[a] # "absent"
  BY <1>1 DEF IInv, DiskBehind
<1> QED BY <1>1, <1>4, <1>6, <1>7, <1>8, <1>9

\* The parts of the invariant about saves, when one has ended.
LEMMA SaveEndsKeeps ==
  ASSUME IInv, NEW a \in Attempts \cup {Main}, EndSave(a) \/ SaveRaises(a), UNCHANGED <<specs, lease>>,
         main' # "dead" => main # "dead"
  PROVE  SaverHolds' /\ DiskBehind'
<1>1. /\ saver' = Nobody /\ \A b \in Attempts \cup {Main} : writing'[b] = NoDump
      /\ \A j \in Attempts : Progress(disk'[j]) <= Progress(memory[j])
      /\ UNCHANGED memory
  BY SaveEnds
<1> QED BY <1>1, ThreadsDiffer DEF SaverHolds, DiskBehind
\* An attempt begins to save.
LEMMA SaveIInv ==
  ASSUME IInv, NEW i \in Attempts, Save(i)
  PROVE  IInv'
BY BeginSaveIInv, ThreadsDiffer DEF Save

\* It has saved, and goes on.
LEMMA SavedIInv ==
  ASSUME IInv, NEW i \in Attempts, Saved(i)
  PROVE  IInv'
<1> DEFINE w == AfterSave[pc[i]]
<1> USE DEF Saved, Goto
<1>1. /\ saver = i /\ saver' = Nobody /\ disk' \in [Attempts -> Statuses] /\ UNCHANGED memory
      /\ \A b \in Attempts \cup {Main} : writing'[b] = NoDump
      /\ \A j \in Attempts : disk[j] # "absent" => disk'[j] # "absent"
      /\ disk'[i] # "absent"
  BY SaveEnds
<1>2. pc[i] \in DOMAIN AfterSave BY <1>1 DEF IInv, SaverHolds
<1>3. /\ w \in Places \ {"none", "queued", "gone"} /\ pc[i] \notin {"none", "over", "raised", "gone"}
      /\ memory[i] \in StatusAt(w)
  BY <1>2 DEF IInv, StatusFollows, StatusAt, Places, AfterSave
<1>4. memory' = [memory EXCEPT ![i] = memory[i]] BY <1>1 DEF IInv, TypeOK
<1>5. /\ StatusFollows' /\ InOrder' /\ Handled' /\ Tallied' /\ GoesOn'
      /\ pc' \in [Attempts -> Places] /\ memory' \in [Attempts -> Statuses]
  <2> HIDE DEF w
  <2> QED BY <1>3, <1>4, MoveTallies DEF w
<1>6. SaverHolds' /\ DiskBehind' BY SaveEndsKeeps DEF tally
<1>7. TypeOK'
  <2>1. writing' \in [Attempts \cup {Main} -> [Attempts -> Statuses] \cup {NoDump}]
    BY DEF EndSave, IInv, TypeOK
  <2> QED BY <1>1, <1>5, <2>1 DEF IInv, TypeOK, tally
<1>8. Recorded'
  BY <1>1, <1>2 DEF IInv, TypeOK, Recorded, AfterSave
<1>9. ChildKnows'
  BY <1>1, <1>2 DEF IInv, TypeOK, ChildKnows, AfterSave
<1> QED BY <1>5, <1>6, <1>7, <1>8, <1>9 DEF IInv

\* Its save raises.
LEMMA NotSavedIInv ==
  ASSUME IInv, NEW i \in Attempts, NotSaved(i)
  PROVE  IInv'
<1> DEFINE w == AfterRaise[pc[i]]
<1> USE DEF NotSaved, Goto, world, tally
<1>1. /\ saver = i /\ saver' = Nobody /\ UNCHANGED <<memory, disk>>
      /\ \A b \in Attempts \cup {Main} : writing'[b] = NoDump
  BY SaveEnds DEF SaveRaises
<1>2. pc[i] \in DOMAIN AfterSave BY <1>1 DEF IInv, SaverHolds
<1>3. /\ w \in Places \ {"none", "queued", "gone"} /\ pc[i] \notin {"none", "over", "raised", "gone"}
      /\ memory[i] \in StatusAt(w)
  BY <1>2 DEF IInv, StatusFollows, StatusAt, Places, AfterSave, AfterRaise
<1>4. memory' = [memory EXCEPT ![i] = memory[i]] BY <1>1 DEF IInv, TypeOK
<1>5. /\ StatusFollows' /\ InOrder' /\ Handled' /\ Tallied' /\ GoesOn'
      /\ pc' \in [Attempts -> Places] /\ memory' \in [Attempts -> Statuses]
  <2> HIDE DEF w
  <2> QED BY <1>3, <1>4, MoveTallies DEF w
<1>6. SaverHolds' /\ DiskBehind' BY SaveEndsKeeps
<1>7. TypeOK'
  <2>1. writing' \in [Attempts \cup {Main} -> [Attempts -> Statuses] \cup {NoDump}]
    BY DEF SaveRaises, IInv, TypeOK
  <2> QED BY <1>1, <1>5, <2>1 DEF IInv, TypeOK
<1>8. Recorded'
  BY <1>1, <1>2 DEF IInv, TypeOK, Recorded, AfterSave, AfterRaise
<1>9. ChildKnows'
  BY <1>1, <1>2 DEF IInv, TypeOK, ChildKnows, AfterSave, AfterRaise
<1> QED BY <1>5, <1>6, <1>7, <1>8, <1>9 DEF IInv

-----------------------------------------------------------------------------
(* run.py.                                                                 *)

\* A step of run.py keeps what the batch knows of itself.
LEMMA ChildIInv ==
  ASSUME IInv, NEW i \in Attempts, ChildStep(i)
  PROVE  IInv'
<1> USE DEF ChildStep, SignUp, WriteResult, Exit, ChildDies, ChildTo, threads, manifest, tally
<1>1. UNCHANGED <<specs, lease, threads, manifest, tally, mailbox>> OBVIOUS
<1>2. TypeOK'
  <2>1. CASE SignUp(i) BY <2>1 DEF IInv, TypeOK
  <2>2. CASE WriteResult(i) BY <2>2 DEF IInv, TypeOK
  <2>3. CASE Exit(i) BY <2>3 DEF IInv, TypeOK
  <2>4. CASE ChildDies(i) BY <2>4 DEF IInv, TypeOK
  <2> QED BY <2>1, <2>2, <2>3, <2>4
<1>3. SaverHolds' /\ StatusFollows' /\ InOrder' /\ Handled' /\ Tallied' /\ GoesOn' /\ DiskBehind'
  BY <1>1 DEF IInv, SaverHolds, StatusFollows, InOrder, Handled, Tallied, GoesOn, DiskBehind,
              Submitted, Ended
<1>4. Recorded' BY DEF IInv, TypeOK, Recorded
<1>5. ChildKnows'
  <2>1. CASE SignUp(i) BY <2>1 DEF IInv, TypeOK, ChildKnows
  <2>2. CASE WriteResult(i) BY <2>2 DEF IInv, TypeOK, ChildKnows
  <2>3. CASE Exit(i) BY <2>3 DEF IInv, TypeOK, ChildKnows
  <2>4. CASE ChildDies(i) BY <2>4 DEF IInv, TypeOK, ChildKnows
  <2> QED BY <2>1, <2>2, <2>3, <2>4
<1> QED BY <1>2, <1>3, <1>4, <1>5 DEF IInv
-----------------------------------------------------------------------------
(* The main thread.                                                        *)

\* What it counts are numbers, and the next attempt to submit is a new one.
LEMMA Counts ==
  ASSUME IInv
  PROVE  /\ \A S \in SUBSET Attempts : IsFiniteSet(S) /\ Cardinality(S) \in 0..Count
         /\ Submitted = 1..Cardinality(Submitted) /\ Submitted \subseteq Attempts
         /\ NextIndex \in Nat
         /\ NextIndex <= Count => /\ NextIndex \in Attempts /\ pc[NextIndex] = "none"
                                  /\ NextIndex \notin pending /\ NextIndex \notin auths
         /\ NextIndex > Count => Submitted = Attempts
<1>1. Count \in Nat /\ IsFiniteSet(Attempts) /\ Cardinality(Attempts) = Count
  BY RegistrationAssumption, FS_Interval DEF Attempts
<1>2. \A S \in SUBSET Attempts : IsFiniteSet(S) /\ Cardinality(S) \in 0..Count
  <2> SUFFICES ASSUME NEW S \in SUBSET Attempts PROVE IsFiniteSet(S) /\ Cardinality(S) \in 0..Count
    OBVIOUS
  <2>1. IsFiniteSet(S) /\ Cardinality(S) <= Count BY <1>1, FS_Subset
  <2> QED BY <1>1, <2>1, FS_CardinalityType
<1>3. PICK n \in 0..Count : Submitted = 1..n BY DEF IInv, InOrder
<1>4. Cardinality(Submitted) = n BY <1>1, <1>3, FS_Interval
<1>5. NextIndex = n + 1 BY <1>4 DEF NextIndex
<1>6. NextIndex <= Count => NextIndex \in Attempts /\ NextIndex \notin Submitted
  BY <1>1, <1>3, <1>5 DEF Attempts
<1>7. auths \subseteq Submitted /\ pending \subseteq Submitted BY DEF IInv, Handled, Tallied
<1>8. NextIndex > Count => Submitted = Attempts BY <1>1, <1>3, <1>5 DEF Attempts
<1> QED BY <1>2, <1>3, <1>4, <1>5, <1>6, <1>7, <1>8 DEF Submitted

\* The submission of the next attempt, as far as it is no matter of counting.
LEMMA SubmitKeeps ==
  ASSUME IInv, Submit, NextIndex <= Count, saver # Main, main # "dead",
         UNCHANGED <<specs, lease, made, world>>
  PROVE  /\ Submitted' = Submitted \cup {NextIndex}
         /\ Cardinality(Submitted') = Cardinality(Submitted) + 1
         /\ \A j \in Attempts \ {NextIndex} : pc'[j] = pc[j] /\ memory'[j] = memory[j]
         /\ SaverHolds' /\ StatusFollows' /\ InOrder' /\ DiskBehind' /\ Recorded' /\ ChildKnows'
         /\ pc' \in [Attempts -> Places] /\ memory' \in [Attempts -> Statuses]
<1> DEFINE k == NextIndex
<1> USE DEF Submit, Goto, SetStatus, world
<1>1. k \in Attempts /\ pc[k] = "none" BY Counts
<1>2. pc \in [Attempts -> Places] /\ memory \in [Attempts -> Statuses] /\ disk \in [Attempts -> Statuses]
  BY DEF IInv, TypeOK
<1> HIDE DEF k
<1>3. pc' = [pc EXCEPT ![k] = "queued"] /\ memory' = [memory EXCEPT ![k] = "queued"]
  BY DEF k
<1>4. pc' \in [Attempts -> Places] /\ memory' \in [Attempts -> Statuses]
  BY <1>2, <1>3 DEF Places, Statuses
<1>5. Submitted' = Submitted \cup {k} /\ k \notin Submitted BY <1>1, <1>2, <1>3 DEF Submitted
<1>6. Cardinality(Submitted') = Cardinality(Submitted) + 1 /\ InOrder'
  <2>1. PICK n \in 0..Count : Submitted = 1..n BY DEF IInv, InOrder
  <2>2. Count \in Nat BY RegistrationAssumption
  <2>3. Cardinality(1..n) = n /\ k = n + 1
    <3>1. n \in Nat BY <2>2
    <3>2. Cardinality(1..n) = IF 1 > n THEN 0 ELSE n - 1 + 1 BY <3>1, FS_Interval
    <3> QED BY <2>1, <3>1, <3>2 DEF NextIndex, k
  <2>4. Submitted' = 1..(n + 1) BY <1>5, <2>1, <2>2, <2>3
  <2>5. n + 1 \in 0..Count BY <2>2, <2>3 DEF k
  <2>6. Cardinality(1..(n + 1)) = n + 1 BY <2>5, FS_Interval
  <2> QED BY <2>1, <2>3, <2>4, <2>5, <2>6 DEF InOrder
<1>7. memory[k] = "absent" BY <1>1 DEF IInv, StatusFollows, StatusAt
<1>8. SaverHolds' BY <1>1, <1>2, <1>3 DEF IInv, SaverHolds, AfterSave
<1>9. StatusFollows' BY <1>1, <1>2, <1>3 DEF IInv, StatusFollows, StatusAt
<1>10. DiskBehind'
  <2>1. \A j \in Attempts : Progress(memory[j]) <= Progress(memory'[j]) /\ Progress(memory[j]) \in 0..3
    BY <1>2, <1>3, <1>7, ProgressType DEF Progress
  <2>2. saver # Nobody => \A j \in Attempts : writing[saver][j] \in Statuses
    BY DumpIsSome DEF IInv, SaverHolds, TypeOK
  <2>3. saver # Nobody => \A j \in Attempts : Progress(writing[saver][j]) \in 0..3
    BY <2>2, ProgressType
  <2>4. \A j \in Attempts : Progress(memory'[j]) \in 0..3 /\ Progress(disk[j]) \in 0..3
    BY <1>2, <1>4, ProgressType
  <2> QED BY <2>1, <2>3, <2>4 DEF IInv, DiskBehind
<1>11. Recorded' /\ ChildKnows' BY <1>1, <1>2, <1>3 DEF IInv, Recorded, ChildKnows
<1> QED BY <1>2, <1>3, <1>4, <1>5, <1>6, <1>8, <1>9, <1>10, <1>11 DEF k

\* It submits another attempt before the loop, or goes on to the loop.
LEMMA FillIInv ==
  ASSUME IInv, Fill
  PROVE  IInv'
<1> DEFINE k == NextIndex
<1> USE DEF Fill
<1>1. main = "filling" /\ saver # Main /\ ~aborted BY DEF IInv, SaverHolds, GoesOn
<1>2. CASE k <= Count /\ Cardinality(pending) < WorkerCount
  <2>1. /\ Submitted' = Submitted \cup {k} /\ Cardinality(Submitted') = Cardinality(Submitted) + 1
        /\ \A j \in Attempts \ {k} : pc'[j] = pc[j] /\ memory'[j] = memory[j]
        /\ SaverHolds' /\ StatusFollows' /\ InOrder' /\ DiskBehind' /\ Recorded' /\ ChildKnows'
        /\ pc' \in [Attempts -> Places] /\ memory' \in [Attempts -> Statuses]
    BY <1>1, <1>2, SubmitKeeps
  <2>2. k \in Attempts /\ k \notin pending /\ k \notin auths /\ Submitted \subseteq Attempts
    BY <1>2, Counts
  <2>3. Cardinality(pending') = Cardinality(pending) + 1
    <3>1. IsFiniteSet(pending) BY Counts DEF IInv, TypeOK
    <3> QED BY <1>2, <2>2, <3>1, FS_AddElement
  <2>4. UNCHANGED <<main, auths, failures, consecutive, aborted, disk, writing, saver>>
    BY <1>2 DEF Submit, SetStatus
  <2> HIDE DEF k
  <2>5. pending' = pending \cup {k} BY <1>2 DEF k
  <2>6. TypeOK' BY <2>1, <2>2, <2>4, <2>5 DEF IInv, TypeOK, world
  <2>7. Handled' BY <1>1, <2>1, <2>2, <2>4, <2>5 DEF IInv, Handled, TypeOK
  <2>8. Tallied'
    <3>1. Cardinality(pending) \in Nat /\ Cardinality(auths) \in Nat /\ Cardinality(Submitted) \in Nat
      BY Counts DEF IInv, TypeOK, Submitted
    <3>2. auths' \subseteq Submitted' \ pending' BY <2>1, <2>2, <2>4, <2>5 DEF IInv, Tallied
    <3>3. \A j \in auths' : pc'[j] = "over" /\ memory'[j] = "registered"
      BY <2>1, <2>2, <2>4 DEF IInv, Tallied, TypeOK
    <3>4. \A j \in Submitted' \ (pending' \cup auths') : memory'[j] = "failed"
      BY <1>1, <2>1, <2>2, <2>4, <2>5 DEF IInv, Tallied
    <3>5. Cardinality(auths') + failures' + Cardinality(pending') = Cardinality(Submitted')
      BY <1>1, <2>1, <2>3, <2>4, <3>1 DEF IInv, Tallied, TypeOK
    <3>6. consecutive' <= failures' BY <2>4 DEF IInv, Tallied
    <3> QED BY <2>1, <2>4, <3>1, <3>2, <3>3, <3>4, <3>5, <3>6 DEF Tallied
  <2>9. GoesOn' BY <1>1, <2>4 DEF GoesOn
  <2> QED BY <2>1, <2>6, <2>7, <2>8, <2>9 DEF IInv
<1>3. CASE ~ (k <= Count /\ Cardinality(pending) < WorkerCount)
  <2>1. main' = "saving" /\ UNCHANGED <<pc, manifest, pending, specs, lease, made, world, ready, auths,
                                        failures, consecutive, aborted>>
    BY <1>3
  <2>2. pending # {} \/ Submitted = Attempts
    <3>1. WorkerCount \in Nat \ {0} BY WorkerCountPositive DEF IInv, TypeOK
    <3>2. k > Count => Submitted = Attempts BY Counts
    <3>3. k \in Nat /\ Count \in Nat BY Counts, RegistrationAssumption
    <3> QED BY <1>3, <3>1, <3>2, <3>3, FS_EmptySet
  <2> HIDE DEF Fill
  <2>3. TypeOK' BY <2>1 DEF IInv, TypeOK, manifest, world
  <2>4. SaverHolds' /\ StatusFollows' /\ InOrder' /\ DiskBehind' /\ Recorded' /\ ChildKnows'
    BY <1>1, <2>1 DEF IInv, SaverHolds, StatusFollows, InOrder, DiskBehind, Recorded, ChildKnows,
                      manifest, world, Submitted
  <2>5. Handled' /\ Tallied' /\ GoesOn'
    BY <1>1, <2>1, <2>2 DEF IInv, Handled, Tallied, GoesOn, Submitted, manifest
  <2> QED BY <2>3, <2>4, <2>5 DEF IInv
<1> QED BY <1>2, <1>3
\* It begins to save.
LEMMA MainSaveIInv ==
  ASSUME IInv, MainSave
  PROVE  IInv'
BY BeginSaveIInv, ThreadsDiffer DEF MainSave

\* A step of the main thread that changes no attempt and saves nothing keeps
\* what is said of attempts and saves.
LEMMA MainKeeps ==
  ASSUME IInv, saver # Main, UNCHANGED <<specs, lease, threads, world, manifest>>,
         main' # "dead" => main # "dead"
  PROVE  SaverHolds' /\ StatusFollows' /\ InOrder' /\ DiskBehind' /\ Recorded' /\ ChildKnows'
BY DEF IInv, SaverHolds, StatusFollows, InOrder, DiskBehind, Recorded, ChildKnows, Submitted,
       threads, world, manifest

\* It has saved, and goes on with the loop or leaves it.
LEMMA MainSavedIInv ==
  ASSUME IInv, MainSaved
  PROVE  IInv'
<1> USE DEF MainSaved, threads, world
<1>1. /\ saver = Main /\ saver' = Nobody /\ disk' \in [Attempts -> Statuses] /\ UNCHANGED memory
      /\ \A j \in Attempts : disk[j] # "absent" => disk'[j] # "absent"
  BY SaveEnds
<1>2. main = "saving" BY <1>1 DEF IInv, SaverHolds
<1>3. TypeOK'
  <2>1. writing' \in [Attempts \cup {Main} -> [Attempts -> Statuses] \cup {NoDump}]
    BY DEF EndSave, IInv, TypeOK
  <2> QED BY <1>1, <2>1 DEF IInv, TypeOK
<1>4. SaverHolds' /\ DiskBehind' BY <1>2, SaveEndsKeeps
<1>5. StatusFollows' /\ InOrder' /\ ChildKnows' BY <1>1 DEF IInv, StatusFollows, InOrder, ChildKnows, Submitted
<1>6. Recorded' BY <1>1 DEF IInv, Recorded
<1>7. Handled' BY <1>2 DEF IInv, Handled, Submitted
<1>8. Tallied' BY <1>1, <1>2 DEF IInv, Tallied, Submitted
<1>9. GoesOn' BY <1>2 DEF IInv, GoesOn, Submitted
<1> QED BY <1>3, <1>4, <1>5, <1>6, <1>7, <1>8, <1>9 DEF IInv

\* Its save raises, and the executor unwinds.
LEMMA MainNotSavedIInv ==
  ASSUME IInv, MainNotSaved
  PROVE  IInv'
<1> USE DEF MainNotSaved, threads, world
<1>1. saver = Main /\ saver' = Nobody /\ UNCHANGED <<memory, disk>>
  BY SaveEnds DEF SaveRaises
<1>2. main = "saving" BY <1>1 DEF IInv, SaverHolds
<1>3. TypeOK'
  <2>1. writing' \in [Attempts \cup {Main} -> [Attempts -> Statuses] \cup {NoDump}]
    BY DEF SaveRaises, IInv, TypeOK
  <2> QED BY <1>1, <2>1 DEF IInv, TypeOK
<1>4. SaverHolds' /\ DiskBehind' BY <1>2, SaveEndsKeeps
<1>5. StatusFollows' /\ InOrder' /\ ChildKnows' /\ Recorded'
  BY <1>1 DEF IInv, StatusFollows, InOrder, ChildKnows, Recorded, Submitted
<1>6. Handled' BY DEF IInv, Handled, Submitted
<1>7. Tallied' BY <1>1 DEF IInv, Tallied, Submitted
<1>8. GoesOn' BY DEF GoesOn
<1> QED BY <1>3, <1>4, <1>5, <1>6, <1>7, <1>8 DEF IInv

\* Futures are done.
LEMMA WaitIInv ==
  ASSUME IInv, Wait
  PROVE  IInv'
<1> USE DEF Wait
<1>1. saver # Main BY DEF IInv, SaverHolds
<1>2. SaverHolds' /\ StatusFollows' /\ InOrder' /\ DiskBehind' /\ Recorded' /\ ChildKnows'
  BY <1>1, MainKeeps
<1>3. TypeOK' BY DEF IInv, TypeOK, threads, world, manifest
<1>4. Handled' BY DEF IInv, Handled, Submitted, Ended, threads
<1>5. Tallied' /\ GoesOn' BY DEF IInv, Tallied, GoesOn, Submitted, threads, manifest
<1> QED BY <1>2, <1>3, <1>4, <1>5 DEF IInv

\* A future raises what its thread raised.
LEMMA HandleRaisesIInv ==
  ASSUME IInv, NEW i \in Attempts, HandleRaises(i)
  PROVE  IInv'
<1> USE DEF HandleRaises
<1>1. saver # Main BY DEF IInv, SaverHolds
<1>2. SaverHolds' /\ StatusFollows' /\ InOrder' /\ DiskBehind' /\ Recorded' /\ ChildKnows'
  BY <1>1, MainKeeps
<1>3. TypeOK' BY DEF IInv, TypeOK, threads, world, manifest
<1>4. Handled' BY DEF IInv, Handled, Submitted, threads
<1>5. i \in pending BY DEF IInv, TypeOK
<1>6. Tallied'
  <2>1. Cardinality(pending') = Cardinality(pending) - 1
    <3>1. IsFiniteSet(pending) BY Counts DEF IInv, TypeOK
    <3> QED BY <1>5, <3>1, FS_RemoveElement
  <2>2. /\ Cardinality(pending) \in Nat /\ Cardinality(auths) \in Nat /\ Cardinality(Submitted) \in Nat
        /\ failures \in Nat
    BY Counts, RegistrationAssumption DEF IInv, TypeOK, Submitted
  <2>3. Submitted' = Submitted BY DEF Submitted, threads
  <2> QED BY <2>1, <2>2, <2>3 DEF IInv, Tallied, threads, manifest
<1>7. GoesOn' BY DEF GoesOn
<1> QED BY <1>2, <1>3, <1>4, <1>6, <1>7 DEF IInv

\* The threads have ended, and the batch raises.
LEMMA UnwindIInv ==
  ASSUME IInv, Unwind
  PROVE  IInv'
<1> USE DEF Unwind
<1>1. saver # Main BY DEF IInv, SaverHolds
<1>2. SaverHolds' /\ StatusFollows' /\ InOrder' /\ DiskBehind' /\ Recorded' /\ ChildKnows'
  BY <1>1, MainKeeps
<1>3. TypeOK' BY DEF IInv, TypeOK, threads, world, manifest
<1>4. Handled' BY DEF IInv, Handled, Submitted, Ended, threads
<1>5. Tallied' BY DEF IInv, Tallied, Submitted, threads, manifest
<1>6. GoesOn' BY DEF GoesOn
<1> QED BY <1>2, <1>3, <1>4, <1>5, <1>6 DEF IInv

\* The batch is complete.
LEMMA FinishIInv ==
  ASSUME IInv, Finish
  PROVE  IInv'
<1> USE DEF Finish, threads, world
<1>1. pending = {} /\ \A j \in Attempts : pc[j] \in {"none", "over"}
  BY DEF IInv, GoesOn, Handled, Submitted
<1>2. saver = Nobody BY <1>1, ThreadsDiffer DEF IInv, TypeOK, SaverHolds, AfterSave
<1>3. TypeOK' BY DEF IInv, TypeOK
<1>4. SaverHolds' BY <1>2, ThreadsDiffer DEF IInv, SaverHolds
<1>5. DiskBehind'
  <2>1. \A j \in Attempts : Progress(memory[j]) \in 0..3 BY ProgressType DEF IInv, TypeOK
  <2> QED BY <1>2, <2>1, ThreadsDiffer DEF DiskBehind
<1>6. StatusFollows' /\ InOrder' /\ ChildKnows' BY DEF IInv, StatusFollows, InOrder, ChildKnows, Submitted
<1>7. Recorded'
  <2>1. \A j \in Attempts : disk[j] # "absent" => memory[j] # "absent"
    <3>1. \A j \in Attempts : Progress(disk[j]) <= Progress(memory[j]) BY DEF IInv, DiskBehind
    <3> QED BY <3>1 DEF Progress, IInv, TypeOK, Statuses
  <2> QED BY <2>1 DEF IInv, Recorded
<1>8. Handled' /\ Tallied' /\ GoesOn' BY <1>1 DEF IInv, Handled, Tallied, GoesOn, Submitted
<1> QED BY <1>3, <1>4, <1>5, <1>6, <1>7, <1>8 DEF IInv
\* A future is done: its attempt is counted, and another one submitted.
LEMMA HandleIInv ==
  ASSUME IInv, NEW i \in Attempts, Handle(i)
  PROVE  IInv'
<1> DEFINE ok == memory[i] = "registered"
           k == NextIndex
           more == ~aborted' /\ k <= Count
<1>1. /\ main = "handling" /\ i \in ready /\ pc[i] = "over"
      /\ auths' = IF ok THEN auths \cup {i} ELSE auths
      /\ failures' = IF ok THEN failures ELSE failures + 1
      /\ consecutive' = IF ok THEN 0 ELSE consecutive + 1
      /\ aborted' = (aborted \/ Stops(ok, consecutive'))
      /\ IF more THEN Submit /\ pending' = (pending \ {i}) \cup {k}
                 ELSE pending' = pending \ {i} /\ UNCHANGED <<pc, manifest>>
      /\ ready' = ready \ {i}
      /\ main' = IF ready' = {} THEN "saving" ELSE "handling"
      /\ UNCHANGED <<specs, lease, made, world>>
  BY DEF Handle, Left
<1> HIDE DEF ok, k
<1>2. /\ i \in pending /\ i \in Submitted /\ i \notin auths /\ saver # Main
      /\ Submitted \subseteq Attempts /\ pending \subseteq Submitted /\ auths \subseteq Submitted
  BY <1>1, Counts DEF IInv, TypeOK, Handled, Tallied, SaverHolds
<1>3. memory[i] = (IF ok THEN "registered" ELSE "failed")
  BY <1>1 DEF IInv, StatusFollows, StatusAt, ok
<1>4. k <= Count => k \in Attempts /\ k \notin Submitted /\ k # i
  BY <1>2, Counts DEF Submitted, k
<1>5. /\ Submitted' = IF more THEN Submitted \cup {k} ELSE Submitted
      /\ Cardinality(Submitted') = IF more THEN Cardinality(Submitted) + 1 ELSE Cardinality(Submitted)
      /\ \A j \in Submitted : pc'[j] = pc[j] /\ memory'[j] = memory[j]
      /\ SaverHolds' /\ StatusFollows' /\ InOrder' /\ DiskBehind' /\ Recorded' /\ ChildKnows'
      /\ pc' \in [Attempts -> Places] /\ memory' \in [Attempts -> Statuses]
      /\ UNCHANGED <<disk, writing, saver>>
  <2>1. CASE more
    <3>1. Submit /\ NextIndex <= Count BY <1>1, <2>1 DEF k
    <3>2. /\ Submitted' = Submitted \cup {NextIndex}
          /\ Cardinality(Submitted') = Cardinality(Submitted) + 1
          /\ \A j \in Attempts \ {NextIndex} : pc'[j] = pc[j] /\ memory'[j] = memory[j]
          /\ SaverHolds' /\ StatusFollows' /\ InOrder' /\ DiskBehind' /\ Recorded' /\ ChildKnows'
          /\ pc' \in [Attempts -> Places] /\ memory' \in [Attempts -> Statuses]
      BY <1>1, <1>2, <3>1, SubmitKeeps
    <3>3. UNCHANGED <<disk, writing, saver>> BY <3>1 DEF Submit, SetStatus
    <3> QED BY <1>2, <1>4, <2>1, <3>2, <3>3 DEF k
  <2>2. CASE ~more
    <3>1. UNCHANGED <<specs, lease, threads, world, manifest>> BY <1>1, <2>2 DEF threads
    <3>2. SaverHolds' /\ StatusFollows' /\ InOrder' /\ DiskBehind' /\ Recorded' /\ ChildKnows'
      BY <1>1, <1>2, <3>1, MainKeeps
    <3> QED BY <2>2, <3>1, <3>2 DEF Submitted, threads, manifest, IInv, TypeOK
  <2> QED BY <2>1, <2>2
<1>6. pending' = IF more THEN (pending \ {i}) \cup {k} ELSE pending \ {i} BY <1>1
<1>7. /\ Cardinality(auths') = IF ok THEN Cardinality(auths) + 1 ELSE Cardinality(auths)
      /\ Cardinality(pending') = IF more THEN Cardinality(pending) ELSE Cardinality(pending) - 1
      /\ Cardinality(pending) \in Nat /\ Cardinality(auths) \in Nat /\ Cardinality(Submitted) \in Nat
      /\ Cardinality(Submitted') \in 0..Count
  <2>1. \A S \in SUBSET Attempts : IsFiniteSet(S) /\ Cardinality(S) \in 0..Count BY Counts
  <2>2. IsFiniteSet(auths) /\ IsFiniteSet(pending) BY <1>2, <2>1
  <2>3. Cardinality(auths \cup {i}) = Cardinality(auths) + 1 BY <1>2, <2>2, FS_AddElement
  <2>4. IsFiniteSet(pending \ {i}) /\ Cardinality(pending \ {i}) = Cardinality(pending) - 1
    BY <1>2, <2>2, FS_RemoveElement
  <2>5. Count \in Nat BY RegistrationAssumption
  <2>6. /\ Cardinality(pending) \in Nat /\ Cardinality(auths) \in Nat /\ Cardinality(Submitted) \in Nat
    BY <1>2, <2>1, <2>5
  <2>7. more => Cardinality((pending \ {i}) \cup {k}) = Cardinality(pending)
    <3> SUFFICES ASSUME more PROVE Cardinality((pending \ {i}) \cup {k}) = Cardinality(pending)
      OBVIOUS
    <3>1. k \notin pending \ {i} BY <1>1, <1>2, <1>4
    <3>2. Cardinality((pending \ {i}) \cup {k}) = Cardinality(pending \ {i}) + 1
      BY <2>4, <3>1, FS_AddElement
    <3> QED BY <2>4, <2>6, <3>2
  <2>8. Submitted' \in SUBSET Attempts BY <1>2, <1>4, <1>5
  <2> QED BY <1>1, <1>6, <2>1, <2>3, <2>4, <2>6, <2>7, <2>8
<1>8. Tallied'
  <2>1. auths' \subseteq Submitted' \ pending' BY <1>1, <1>2, <1>4, <1>5, <1>6 DEF IInv, Tallied
  <2>2. \A j \in auths' : pc'[j] = "over" /\ memory'[j] = "registered"
    BY <1>1, <1>2, <1>3, <1>5 DEF IInv, Tallied
  <2>3. \A j \in Submitted' \ (pending' \cup auths') : memory'[j] = "failed"
    BY <1>1, <1>2, <1>3, <1>5, <1>6 DEF IInv, Tallied
  <2>4. consecutive' <= failures' /\ failures \in Nat
    BY <1>1, RegistrationAssumption DEF IInv, Tallied, TypeOK
  <2>5. Cardinality(auths') + failures' + Cardinality(pending') = Cardinality(Submitted')
    BY <1>1, <1>5, <1>7, <2>4 DEF IInv, Tallied
  <2> QED BY <1>5, <1>7, <2>1, <2>2, <2>3, <2>4, <2>5 DEF Tallied
<1>9. TypeOK'
  <2>1. failures' \in 0..Count /\ consecutive' \in 0..Count
    <3>1. Count \in Nat BY RegistrationAssumption
    <3>2. failures' \in Nat /\ consecutive' \in Nat BY <1>1, <3>1 DEF IInv, TypeOK
    <3>3. Cardinality(auths') \in Nat /\ Cardinality(pending') \in Nat
      <4>1. auths' \in SUBSET Attempts /\ pending' \in SUBSET Attempts
        BY <1>1, <1>2, <1>4, <1>6
      <4>2. \A S \in SUBSET Attempts : Cardinality(S) \in 0..Count BY Counts
      <4> QED BY <3>1, <4>1, <4>2
    <3> QED BY <1>7, <1>8, <3>1, <3>2, <3>3 DEF Tallied
  <2>2. ready' \subseteq pending' /\ pending' \subseteq Attempts /\ auths' \subseteq Attempts
    BY <1>1, <1>2, <1>4, <1>6 DEF IInv, TypeOK
  <2>3. aborted' \in BOOLEAN /\ main' \in {"saving", "handling"} BY <1>1 DEF Stops, IInv, TypeOK
  <2> QED BY <1>1, <1>5, <2>1, <2>2, <2>3 DEF IInv, TypeOK, world
<1>10. Handled'
  <2>1. pending' \subseteq Submitted' BY <1>2, <1>5, <1>6
  <2>2. \A j \in Submitted' \ pending' : pc'[j] = "over"
    BY <1>1, <1>2, <1>5, <1>6 DEF IInv, Handled
  <2>3. \A j \in ready' : pc'[j] = pc[j] /\ Ended(j)
    BY <1>1, <1>2, <1>5 DEF IInv, Handled, TypeOK
  <2> QED BY <1>1, <2>1, <2>2, <2>3 DEF Handled, Ended
<1>11. GoesOn'
  <2>1. ~aborted' => pending' # {} \/ Submitted' = Attempts
    <3>1. CASE more BY <1>6, <3>1
    <3>2. CASE ~aborted' /\ ~ (k <= Count)
      <4>1. k > Count BY <3>2, Counts, RegistrationAssumption DEF k
      <4> QED BY <1>5, <3>2, <4>1, Counts DEF k
    <3> QED BY <3>1, <3>2
  <2> QED BY <1>1, <2>1 DEF GoesOn
<1> QED BY <1>5, <1>8, <1>9, <1>10, <1>11 DEF IInv

\* The batch is killed.
LEMMA KillIInv ==
  ASSUME IInv, Kill
  PROVE  IInv'
<1> USE DEF Kill, world
<1>1. Submitted' = Attempts BY DEF Submitted
<1>2. TypeOK'
  <2>1. /\ pc' \in [Attempts -> Places] /\ memory' \in [Attempts -> Statuses]
        /\ writing' \in [Attempts \cup {Main} -> [Attempts -> Statuses] \cup {NoDump}]
        /\ lease' \in [Attempts -> Refs \cup {NoRef}] /\ made' \in [Attempts -> BOOLEAN]
        /\ failures' \in 0..Count /\ consecutive' \in 0..Count
    BY RegistrationAssumption DEF Places, Statuses
  <2> QED BY <2>1 DEF IInv, TypeOK
<1>3. SaverHolds' BY ThreadsDiffer DEF SaverHolds
<1>4. StatusFollows' BY DEF StatusFollows, StatusAt
<1>5. InOrder'
  <2>1. Count \in 0..Count BY RegistrationAssumption
  <2>2. Submitted' = 1..Count BY <1>1 DEF Attempts
  <2> QED BY <2>1, <2>2 DEF InOrder
<1>6. Handled' BY DEF Handled
<1>7. Tallied'
  <2>1. Cardinality({}) = 0 BY FS_EmptySet
  <2>2. Cardinality(Attempts) \in Nat BY Counts, RegistrationAssumption
  <2> QED BY <1>1, <2>1, <2>2 DEF Tallied
<1>8. GoesOn' BY DEF GoesOn
<1>9. DiskBehind' BY ThreadsDiffer DEF DiskBehind
<1>10. Recorded' BY DEF IInv, Recorded
<1>11. ChildKnows' BY DEF IInv, ChildKnows
<1> QED BY <1>2, <1>3, <1>4, <1>5, <1>6, <1>7, <1>8, <1>9, <1>10, <1>11 DEF IInv

-----------------------------------------------------------------------------
(* The theorems.                                                           *)

\* Every step keeps the inductive invariant.
LEMMA NextIInv == IInv /\ [Next]_vars => IInv'
<1> SUFFICES ASSUME IInv, [Next]_vars PROVE IInv' OBVIOUS
<1>1. ASSUME NEW i \in Attempts, AttemptStep(i) PROVE IInv'
  BY <1>1, StartIInv, StartRaisesIInv, AcquireIInv, AcquireRaisesIInv, SaveIInv, SavedIInv,
     NotSavedIInv, CreateMailboxIInv, CreateMailboxRaisesIInv, RegisteredIInv, RunFailedIInv,
     FailIInv, CleanIInv, ReleaseIInv DEF AttemptStep
<1>2. ASSUME NEW i \in Attempts, ChildStep(i) PROVE IInv' BY <1>2, ChildIInv
<1>3. CASE MainStep
  BY <1>3, FillIInv, MainSaveIInv, MainSavedIInv, MainNotSavedIInv, WaitIInv, HandleIInv,
     HandleRaisesIInv, UnwindIInv, FinishIInv DEF MainStep
<1>4. CASE Kill BY <1>4, KillIInv
<1>5. CASE UNCHANGED vars
  <2> USE <1>5 DEF vars, threads, world, manifest, tally
  <2>1. TypeOK' BY DEF IInv, TypeOK
  <2>2. SaverHolds' /\ StatusFollows' /\ InOrder' /\ DiskBehind' /\ Recorded' /\ ChildKnows'
    BY DEF IInv, SaverHolds, StatusFollows, InOrder, DiskBehind, Recorded, ChildKnows, Submitted
  <2>3. Handled' /\ Tallied' /\ GoesOn' BY DEF IInv, Handled, Tallied, GoesOn, Submitted, Ended
  <2> QED BY <2>1, <2>2, <2>3 DEF IInv
<1> QED BY <1>1, <1>2, <1>3, <1>4, <1>5 DEF Next

\* The parts of the inductive invariant hold in every reachable state.
THEOREM RegistrationInvariance == Spec => []IInv
<1> QED BY InitIInv, NextIInv, PTL DEF Spec

\* manifest.json names every attempt that has left a mailbox or an account,
\* wherever the batch was killed and whichever saves have raised.
THEOREM EverythingRecorded == Spec => []NothingUnrecorded
<1>1. IInv => NothingUnrecorded BY DEF IInv, Recorded, NothingUnrecorded
<1> QED BY <1>1, RegistrationInvariance, PTL

\* The mailbox of an account that run.py knows of is never deleted.
THEOREM MailboxesKept == Spec => []KnownAccountKeepsMailbox
<1>1. IInv => KnownAccountKeepsMailbox BY DEF IInv, ChildKnows, KnownAccountKeepsMailbox
<1> QED BY <1>1, RegistrationInvariance, PTL

\* A batch that ends has counted each attempt once, and its bundle is what
\* manifest.json calls registered.
THEOREM AttemptsCounted == Spec => []EveryAttemptCounted
<1>1. IInv => EveryAttemptCounted
  <2> SUFFICES ASSUME IInv, main = "done" PROVE EveryAttemptCounted BY DEF EveryAttemptCounted
  <2>1. pending = {} /\ disk = memory /\ (~aborted => Submitted = Attempts) BY DEF IInv, GoesOn
  <2>2. Cardinality(auths) + failures = Cardinality(Submitted)
    <3>1. Cardinality(pending) = 0 BY <2>1, FS_EmptySet
    <3>2. Cardinality(auths) \in Nat /\ failures \in Nat
      BY Counts, RegistrationAssumption DEF IInv, TypeOK
    <3> QED BY <3>1, <3>2 DEF IInv, Tallied
  <2>3. auths = {i \in Attempts : disk[i] = "registered"}
    <3>1. \A i \in Attempts : i \notin Submitted => memory[i] = "absent"
      BY DEF Submitted, IInv, StatusFollows, StatusAt
    <3> QED BY <2>1, <3>1, Counts DEF IInv, Tallied
  <2> QED BY <2>1, <2>2, <2>3 DEF EveryAttemptCounted
<1> QED BY <1>1, RegistrationInvariance, PTL

\* No save of manifest.json overwrites a later one.
THEOREM ManifestAdvances == Spec => ManifestNeverGoesBack
<1> DEFINE Advances == \A i \in Attempts : Progress(disk[i]) <= Progress(disk'[i])
<1>1. IInv /\ [Next]_vars => [Advances]_vars
  <2> SUFFICES ASSUME IInv, Next PROVE Advances OBVIOUS
  <2>1. \A i \in Attempts : Progress(disk[i]) \in 0..3 BY ProgressType DEF IInv, TypeOK
  <2>2. CASE UNCHANGED disk BY <2>1, <2>2
  <2>3. ASSUME NEW a \in Attempts \cup {Main}, EndSave(a) PROVE Advances BY <2>3, SaveEnds
  <2>4. ASSUME NEW i \in Attempts, AttemptStep(i) PROVE Advances
    BY <2>2, <2>3, <2>4 DEF AttemptStep, Start, StartRaises, Acquire, AcquireRaises, Save, Saved, NotSaved,
         CreateMailbox, CreateMailboxRaises, Registered, RunFailed, Fail, Clean, Release,
         SetStatus, BeginSave, SaveRaises, manifest
  <2>5. ASSUME NEW i \in Attempts, ChildStep(i) PROVE Advances
    BY <2>2, <2>5 DEF ChildStep, SignUp, WriteResult, Exit, ChildDies, ChildTo, manifest
  <2>6. CASE MainStep \/ Kill
    <3>1. CASE Finish BY <3>1 DEF Finish, IInv, DiskBehind
    <3>2. CASE ~Finish
      BY <2>2, <2>3, <2>6, <3>2 DEF MainStep, Kill, Fill, MainSave, MainSaved, MainNotSaved, Wait, Handle,
         HandleRaises, Unwind, Submit, SetStatus, BeginSave, SaveRaises, manifest
    <3> QED BY <3>1, <3>2
  <2> QED BY <2>4, <2>5, <2>6 DEF Next
<1> QED BY <1>1, RegistrationInvariance, PTL DEF Spec, ManifestNeverGoesBack
=============================================================================
