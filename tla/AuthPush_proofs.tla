--------------------------- MODULE AuthPush_proofs ---------------------------
(***************************************************************************)
(* Proofs about AuthPush, for every value of its constants that pushes an  *)
(* identity under one email only (OneEmailPerSubject).                     *)
(*                                                                         *)
(* The argument: a handler holds the lock of its email (LockHeld), every   *)
(* row keeps the email of its grant as name (NamesOwn) and a handler only  *)
(* works on a row of its email (TargetsOwned), so nobody else writes a     *)
(* row in a saga; hence the row still holds the grant the saga wrote       *)
(* (HoldsCandidate), which was vetted before the promotion                 *)
(* (PromotesVetted), and a restore writes back what was trusted before     *)
(* (SnapsSound, HeldSound).                                                *)
(***************************************************************************)
EXTENDS AuthPush, TLAPS

\* What a credential of a freshly pushed grant is.
LEMMA CandidateType ==
  ASSUME NEW l \in Lineages, NEW n \in Emails, NEW b \in BOOLEAN
  PROVE  /\ Candidate(l, n, b) \in Account
         /\ ~Candidate(l, n, b).grouped
         /\ Candidate(l, n, b).name = n
         /\ Candidate(l, n, b).cred.lin = l
  BY ConstantsAssumption DEF Candidate, Account, Cred, Iat

\* The initial states satisfy the inductive invariant.
LEMMA InitIInv == Init => IInv
  <1> SUFFICES ASSUME Init PROVE IInv
    OBVIOUS
  <1>1. ASSUME NEW a \in Ids, acct[a] # None
        PROVE acct[a] \in Account /\ acct[a].name = EmailOf[acct[a].cred.lin]
    <2>1. PICK l \in Lineages, b \in BOOLEAN, g \in BOOLEAN :
            acct[a] = [Candidate(l, EmailOf[l], b) EXCEPT !.grouped = g]
      BY <1>1 DEF Init
    <2>2. EmailOf[l] \in Emails
      BY ConstantsAssumption
    <2>3. acct[a] = [status |-> "live", name |-> EmailOf[l],
                     cred |-> [lin |-> l, iat |-> MintedAt[l]], sched |-> b, grouped |-> g]
      BY <2>1 DEF Candidate
    <2>4. QED
      BY <2>2, <2>3, ConstantsAssumption DEF Account, Cred
  <1>2. acct = [a \in Ids |-> acct[a]]
    BY DEF Init
  <1>3. TypeOK
    BY <1>1, <1>2, ConstantsAssumption DEF Init, TypeOK, Stages
  <1>4. GroupedIsTrusted
    BY DEF Init, GroupedIsTrusted, Trusted
  <1>5. QED
    BY <1>1, <1>3, <1>4 DEF Init, IInv, LockHeld, NamesOwn, TargetsOwned, SnapsSound,
       HoldsCandidate, PromotesVetted, HeldSound, Active, OnRow, Restoring

\* Two handlers never work on one row: they would hold the same lock.
LEMMA OneOwner ==
  ASSUME IInv, NEW i \in Handlers, NEW j \in Handlers, acc[i] # None, acc[i] = acc[j]
  PROVE  i = j
  BY DEF IInv, LockHeld, TargetsOwned

\* Read access to the types the invariant gives a handler that has a row.
LEMMA RowType ==
  ASSUME TypeOK, TargetsOwned, NEW i \in Handlers, acc[i] # None
  PROVE  acc[i] \in Ids /\ acct[acc[i]] \in Account /\ cand[i] \in Lineages \cup {None}
  BY DEF TypeOK, TargetsOwned

-----------------------------------------------------------------------------
(* Steps that write a row.                                                *)

\* One write to a handler's own row, and what it leaves true of the table.
LEMMA RowWrite ==
  ASSUME IInv, NEW i \in Handlers, acc[i] # None, NEW out,
         NEW row \in Account,
         row.name = EmailOf[cand[i]],
         EmailOf[row.cred.lin] = EmailOf[cand[i]],
         row.status = "live" /\ row.grouped => Trusted(row.cred),
         Store(acc[i], out, row), UNCHANGED vetted
  PROVE  /\ acct' \in [Ids -> Account \cup {None}]
         /\ NamesOwn' /\ GroupedIsTrusted'
         /\ \A j \in Handlers : acc[j] # None =>
              /\ acct'[acc[j]] # None
              /\ acct'[acc[j]].name = acct[acc[j]].name
              /\ j # i => acct'[acc[j]] = acct[acc[j]]
         /\ acct'[acc[i]] = row \/ acct'[acc[i]] = acct[acc[i]]
  <1>1. acc[i] \in Ids /\ acct \in [Ids -> Account \cup {None}] /\ acct[acc[i]] \in Account
    BY RowType DEF IInv, TypeOK
  <1>2. row # None
    BY NoneAssumption
  <1>3. acct[acc[i]] # None /\ acct[acc[i]].name = EmailOf[cand[i]]
    BY DEF IInv, TargetsOwned
  <1>4. \A a \in Ids : a # acc[i] => acct'[a] = acct[a]
    BY <1>1 DEF Store
  <1>5. acct'[acc[i]] = row \/ acct'[acc[i]] = acct[acc[i]]
    BY <1>1 DEF Store
  <1>6. acct' \in [Ids -> Account \cup {None}]
    BY <1>1 DEF Store
  <1>7. NamesOwn'
    BY <1>3, <1>4, <1>5 DEF NamesOwn, IInv
  <1>8. GroupedIsTrusted'
    BY <1>4, <1>5 DEF GroupedIsTrusted, Grouped, Live, Trusted, Rotated, IInv
  <1>9. ASSUME NEW j \in Handlers, acc[j] # None
        PROVE  /\ acct'[acc[j]] # None
               /\ acct'[acc[j]].name = acct[acc[j]].name
               /\ j # i => acct'[acc[j]] = acct[acc[j]]
    <2>1. CASE acc[j] = acc[i]
      BY <1>2, <1>3, <1>5, <1>9, <2>1, OneOwner
    <2>2. CASE acc[j] # acc[i]
      BY <1>4, <1>9, <2>2 DEF IInv, TypeOK, TargetsOwned
    <2>3. QED
      BY <2>1, <2>2
  <1>10. QED
    BY <1>5, <1>6, <1>7, <1>8, <1>9

\* What a write and the stage it leads to must satisfy to keep the invariant.
LEMMA RowStep ==
  ASSUME IInv, NEW i \in Handlers, acc[i] # None, NEW out,
         NEW row \in Account,
         row.name = EmailOf[cand[i]],
         EmailOf[row.cred.lin] = EmailOf[cand[i]],
         row.status = "live" /\ row.grouped => Trusted(row.cred),
         Store(acc[i], out, row),
         UNCHANGED <<head, late, vetted, lock, cand, acc, snap, held>>,
         NEW next \in Stages \ {"idle", "lock", "lookup", "restore"}, Goto(i, next),
         cause' \in [Handlers -> Causes \cup {None}],
         resp' \in [Handlers -> Answers \cup {None}],
         \A j \in Handlers : j # i => cause'[j] = cause[j],
         pc[i] \in OnRow,
         next \in Restoring => snap[i] # None,
         \/ next \in {"isolate", "test", "verify", "group", "enable", "confirm"}
         \/ next \in {"rollback", "delete", "deleteCheck"} /\ cause'[i] \in Preserving
         => acct'[acc[i]].cred.lin = cand[i],
         next \in {"verify", "group", "enable", "confirm"} => cand[i] \in vetted
  PROVE  IInv'
  <1>1. /\ acct' \in [Ids -> Account \cup {None}]
        /\ NamesOwn' /\ GroupedIsTrusted'
        /\ \A j \in Handlers : acc[j] # None =>
              /\ acct'[acc[j]] # None
              /\ acct'[acc[j]].name = acct[acc[j]].name
              /\ j # i => acct'[acc[j]] = acct[acc[j]]
    BY RowWrite
  <1>2. pc \in [Handlers -> Stages] /\ pc' = [pc EXCEPT ![i] = next]
    BY DEF IInv, TypeOK, Goto
  <1>3. TypeOK'
    BY <1>1, <1>2 DEF IInv, TypeOK
  <1>4. LockHeld'
    BY <1>2 DEF IInv, LockHeld, Active, OnRow
  <1>5. TargetsOwned'
    BY <1>1, <1>2 DEF IInv, TargetsOwned, Active, OnRow
  <1>6. SnapsSound'
    BY <1>2 DEF IInv, SnapsSound, Trusted, Rotated
  <1>7. HoldsCandidate'
    BY <1>1, <1>2 DEF IInv, HoldsCandidate, TargetsOwned, OnRow, Preserving
  <1>8. PromotesVetted' /\ HeldSound'
    BY <1>2 DEF IInv, PromotesVetted, HeldSound, Trusted, Rotated
  <1>9. QED
    BY <1>1, <1>3, <1>4, <1>5, <1>6, <1>7, <1>8 DEF IInv

\* The row facts shared by the steps that only change a row's flags.
LEMMA FlagRow ==
  ASSUME IInv, NEW i \in Handlers, acc[i] # None, NEW row \in Account,
         row.name = acct[acc[i]].name, row.cred = acct[acc[i]].cred,
         \/ row.status = "deleted"
         \/ ~row.grouped
         \/ row.status = acct[acc[i]].status /\ row.grouped = acct[acc[i]].grouped
         \/ Trusted(row.cred)
  PROVE  /\ row.name = EmailOf[cand[i]]
         /\ EmailOf[row.cred.lin] = EmailOf[cand[i]]
         /\ row.status = "live" /\ row.grouped => Trusted(row.cred)
  BY RowType DEF IInv, TargetsOwned, NamesOwn, GroupedIsTrusted, Grouped, Live

\* A call of the forward path keeps the invariant if its row holds the pushed
\* grant, and if only a vetted grant goes on to the promotion.
LEMMA CallStep ==
  ASSUME IInv, NEW i \in Handlers, acc[i] # None, NEW row \in Account,
         row.name = EmailOf[cand[i]],
         EmailOf[row.cred.lin] = EmailOf[cand[i]],
         row.status = "live" /\ row.grouped => Trusted(row.cred),
         row.cred.lin = cand[i],
         NEW from \in OnRow, NEW next \in {"isolate", "test", "enable", "confirm"},
         NEW c \in Causes,
         Call(i, from, row, next, c),
         c \in Preserving => acct[acc[i]].cred.lin = cand[i],
         next \in {"enable", "confirm"} => cand[i] \in vetted
  PROVE  IInv'
  <1>1. PICK out \in Outcomes(acc[i]) :
          /\ Store(acc[i], out, row)
          /\ IF out = "ok" THEN Goto(i, next) /\ UNCHANGED cause
                           ELSE RollBack(i, c)
    BY DEF Call
  <1>2. pc[i] \in OnRow /\ UNCHANGED <<head, late, vetted, lock, cand, acc, snap, held, resp>>
    BY DEF Call
  <1>3. acc[i] \in Ids /\ acct \in [Ids -> Account \cup {None}]
    BY DEF IInv, TypeOK
  <1>4. acct'[acc[i]] = row \/ acct'[acc[i]] = acct[acc[i]]
    BY <1>1, <1>3 DEF Store
  <1>5. CASE out = "ok"
    <2>1. Goto(i, next) /\ UNCHANGED cause
      BY <1>1, <1>5
    <2>2. acct'[acc[i]] = row
      BY <1>1, <1>3, <1>5 DEF Store
    <2>3. next \in Stages \ {"idle", "lock", "lookup", "restore"} /\ next \notin Restoring
      BY DEF Stages, Restoring
    <2>4. QED
      BY <1>1, <1>2, <2>1, <2>2, <2>3, RowStep DEF IInv, TypeOK
  <1>6. CASE out # "ok"
    <2>1. Goto(i, "rollback") /\ cause' = [cause EXCEPT ![i] = c]
      BY <1>1, <1>6 DEF RollBack
    <2>2. "rollback" \in Stages \ {"idle", "lock", "lookup", "restore"}
          /\ "rollback" \notin Restoring
      BY DEF Stages, Restoring
    <2>3. cause' \in [Handlers -> Causes \cup {None}] /\ cause'[i] = c
          /\ \A j \in Handlers : j # i => cause'[j] = cause[j]
      BY <2>1 DEF IInv, TypeOK
    <2>4. cause'[i] \in Preserving => acct'[acc[i]].cred.lin = cand[i]
      BY <1>4, <2>3
    <2>5. QED
      BY <1>1, <1>2, <2>1, <2>2, <2>3, <2>4, RowStep DEF IInv, TypeOK
  <1>7. QED
    BY <1>5, <1>6

\* The PUT of the candidate: the row takes the pushed grant, ungrouped, under the
\* name the snapshot has, which is the locked email.
LEMMA UpdateIInv == ASSUME IInv, NEW i \in Handlers, Update(i) PROVE IInv'
  <1>1. PICK sched \in {FALSE, acct[acc[i]].sched} :
          Call(i, "update", Candidate(cand[i], snap[i].name, sched), "isolate", "write")
    BY DEF Update
  <1>2. acc[i] # None /\ snap[i] # None /\ cand[i] # None
    BY DEF Update, IInv, TargetsOwned, SnapsSound, OnRow, Restoring, LockHeld
  <1>3. cand[i] \in Lineages /\ snap[i] \in Account /\ sched \in BOOLEAN
    BY <1>2, RowType DEF IInv, TypeOK, Account
  <1> DEFINE row == Candidate(cand[i], snap[i].name, sched)
  <1>4. row \in Account /\ ~row.grouped /\ row.name = snap[i].name /\ row.cred.lin = cand[i]
    BY <1>3, CandidateType DEF Account
  <1>5. row.name = EmailOf[cand[i]]
    BY <1>2, <1>4 DEF IInv, SnapsSound
  <1> HIDE DEF row
  <1>6. Call(i, "update", row, "isolate", "write")
    BY <1>1 DEF row
  <1>7. "write" \in Causes /\ "write" \notin Preserving /\ "update" \in OnRow
    BY DEF Causes, Preserving, OnRow
  <1>8. QED
    BY <1>2, <1>4, <1>5, <1>6, <1>7, CallStep

\* Isolation only clears a flag of the row.
LEMMA IsolateIInv == ASSUME IInv, NEW i \in Handlers, Isolate(i) PROVE IInv'
  <1> DEFINE row == [acct[acc[i]] EXCEPT !.sched = FALSE]
  <1>1. Call(i, "isolate", row, "test", "isolate")
    BY DEF Isolate
  <1>2. pc[i] = "isolate"
    BY <1>1 DEF Call
  <1>3. acc[i] # None /\ acct[acc[i]].cred.lin = cand[i]
    BY <1>2 DEF IInv, TargetsOwned, OnRow, HoldsCandidate
  <1>4. acct[acc[i]] \in Account
    BY <1>3, RowType DEF IInv
  <1>5. row \in Account /\ row.name = acct[acc[i]].name /\ row.cred = acct[acc[i]].cred
        /\ row.status = acct[acc[i]].status /\ row.grouped = acct[acc[i]].grouped
    BY <1>4 DEF Account
  <1> HIDE DEF row
  <1>6. "isolate" \in Causes /\ "isolate" \in OnRow
    BY DEF Causes, OnRow
  <1>7. QED
    BY <1>1, <1>3, <1>5, <1>6, FlagRow, CallStep

\* Grouping follows a passed test, so the row becomes routable with a vetted grant.
LEMMA GroupIInv == ASSUME IInv, NEW i \in Handlers, Group(i) PROVE IInv'
  <1> DEFINE row == [acct[acc[i]] EXCEPT !.grouped = TRUE]
  <1>1. Call(i, "group", row, "enable", "promote")
    BY DEF Group
  <1>2. pc[i] = "group"
    BY <1>1 DEF Call
  <1>3. acc[i] # None /\ acct[acc[i]].cred.lin = cand[i] /\ cand[i] \in vetted
    BY <1>2 DEF IInv, TargetsOwned, OnRow, HoldsCandidate, PromotesVetted
  <1>4. acct[acc[i]] \in Account
    BY <1>3, RowType DEF IInv
  <1>5. row \in Account /\ row.name = acct[acc[i]].name /\ row.cred = acct[acc[i]].cred
    BY <1>4 DEF Account
  <1> HIDE DEF row
  <1>6. Trusted(row.cred)
    BY <1>3, <1>5 DEF Trusted
  <1>7. "promote" \in Causes /\ "group" \in OnRow
    BY DEF Causes, OnRow
  <1>8. QED
    BY <1>1, <1>3, <1>5, <1>6, <1>7, FlagRow, CallStep

\* Making the row schedulable follows a passed test too.
LEMMA EnableIInv == ASSUME IInv, NEW i \in Handlers, Enable(i) PROVE IInv'
  <1> DEFINE row == [acct[acc[i]] EXCEPT !.sched = TRUE]
  <1>1. Call(i, "enable", row, "confirm", "promote")
    BY DEF Enable
  <1>2. pc[i] = "enable"
    BY <1>1 DEF Call
  <1>3. acc[i] # None /\ acct[acc[i]].cred.lin = cand[i] /\ cand[i] \in vetted
    BY <1>2 DEF IInv, TargetsOwned, OnRow, HoldsCandidate, PromotesVetted
  <1>4. acct[acc[i]] \in Account
    BY <1>3, RowType DEF IInv
  <1>5. row \in Account /\ row.name = acct[acc[i]].name /\ row.cred = acct[acc[i]].cred
    BY <1>4 DEF Account
  <1> HIDE DEF row
  <1>6. Trusted(row.cred)
    BY <1>3, <1>5 DEF Trusted
  <1>7. "promote" \in Causes /\ "enable" \in OnRow
    BY DEF Causes, OnRow
  <1>8. QED
    BY <1>1, <1>3, <1>5, <1>6, <1>7, FlagRow, CallStep

\* A call of the rollback keeps the invariant if its row does.
LEMMA UndoStep ==
  ASSUME IInv, NEW i \in Handlers, acc[i] # None, NEW row \in Account,
         row.name = EmailOf[cand[i]],
         EmailOf[row.cred.lin] = EmailOf[cand[i]],
         row.status = "live" /\ row.grouped => Trusted(row.cred),
         pc[i] \in OnRow, NEW out, Store(acc[i], out, row),
         NEW next \in {"restoreSched", "restoreCheck", "quarGroup", "quarSched",
                       "quarCheck", "respond"},
         Goto(i, next), next \in Restoring => snap[i] # None,
         resp' \in [Handlers -> Answers \cup {None}],
         UNCHANGED <<head, late, vetted, lock, cand, acc, snap, held, cause>>
  PROVE  IInv'
  <1>1. next \in Stages \ {"idle", "lock", "lookup", "restore"}
    BY DEF Stages
  <1>2. QED
    BY <1>1, RowStep DEF IInv, TypeOK

\* Where a failed call of the rollback leads.
LEMMA FailureTargets ==
  ASSUME TypeOK, NEW i \in Handlers, Unfinished(i) \/ QuarantineFails(i)
  PROVE  /\ UNCHANGED cause
         /\ resp' \in [Handlers -> Answers \cup {None}]
         /\ \E next \in {"quarGroup", "respond"} : Goto(i, next)
  BY DEF TypeOK, Unfinished, QuarantineFails, QuarantineEnds, Answer, Answers, Goto

\* Writing the old row back: grouped only with the credentials the invariant
\* vouches for, the snapshot's or newer ones of the candidate.
LEMMA RestoreRowIInv == ASSUME IInv, NEW i \in Handlers, RestoreRow(i) PROVE IInv'
  <1>1. PICK sched \in {snap[i].sched, acct[acc[i]].sched} :
          UndoCall(i, "restore", [snap[i] EXCEPT !.cred = held[i], !.sched = sched],
                   "restoreSched", Unfinished)
    BY DEF RestoreRow
  <1> DEFINE row == [snap[i] EXCEPT !.cred = held[i], !.sched = sched]
  <1>2. PICK out \in Outcomes(acc[i]) :
          /\ Store(acc[i], out, row)
          /\ IF out = "ok" THEN Goto(i, "restoreSched") /\ UNCHANGED <<cause, resp>>
                           ELSE Unfinished(i)
    BY <1>1 DEF UndoCall
  <1>3. pc[i] = "restore" /\ UNCHANGED <<head, late, vetted, lock, cand, acc, snap, held>>
    BY <1>1 DEF UndoCall
  <1>4. acc[i] # None /\ snap[i] # None /\ held[i] # None /\ pc[i] \in OnRow
    BY <1>3 DEF IInv, TargetsOwned, SnapsSound, HeldSound, OnRow, Restoring
  <1>5. snap[i] \in Account /\ held[i] \in Cred /\ acct[acc[i]] \in Account
    BY <1>4, RowType DEF IInv, TypeOK
  <1>6. sched \in BOOLEAN
    BY <1>5 DEF Account
  <1>7. row \in Account /\ row.name = snap[i].name /\ row.cred = held[i]
        /\ row.grouped = snap[i].grouped
    BY <1>5, <1>6 DEF Account
  <1>8. /\ row.name = EmailOf[cand[i]]
        /\ EmailOf[row.cred.lin] = EmailOf[cand[i]]
        /\ row.grouped => Trusted(row.cred)
    BY <1>3, <1>4, <1>7 DEF IInv, SnapsSound, HeldSound
  <1> HIDE DEF row
  <1>9. CASE out = "ok"
    BY <1>2, <1>3, <1>4, <1>7, <1>8, <1>9, UndoStep DEF IInv, TypeOK
  <1>10. CASE out # "ok"
    <2>1. PICK next \in {"quarGroup", "respond"} : Goto(i, next)
      BY <1>2, <1>10, FailureTargets DEF IInv
    <2>2. UNCHANGED cause /\ resp' \in [Handlers -> Answers \cup {None}]
      BY <1>2, <1>10, FailureTargets DEF IInv
    <2>3. QED
      BY <1>2, <1>3, <1>4, <1>7, <1>8, <2>1, <2>2, UndoStep
  <1>11. QED
    BY <1>9, <1>10

\* Restoring the schedulable flag changes nothing else of the row.
LEMMA RestoreSchedIInv == ASSUME IInv, NEW i \in Handlers, RestoreSched(i) PROVE IInv'
  <1> DEFINE row == [acct[acc[i]] EXCEPT !.sched = snap[i].sched]
  <1>1. PICK out \in Outcomes(acc[i]) :
          /\ Store(acc[i], out, row)
          /\ IF out = "ok" THEN Goto(i, "restoreCheck") /\ UNCHANGED <<cause, resp>>
                           ELSE Unfinished(i)
    BY DEF RestoreSched, UndoCall
  <1>2. pc[i] = "restoreSched" /\ UNCHANGED <<head, late, vetted, lock, cand, acc, snap, held>>
    BY DEF RestoreSched, UndoCall
  <1>3. acc[i] # None /\ snap[i] # None /\ pc[i] \in OnRow
    BY <1>2 DEF IInv, TargetsOwned, SnapsSound, OnRow, Restoring
  <1>4. snap[i] \in Account /\ acct[acc[i]] \in Account
    BY <1>3, RowType DEF IInv, TypeOK
  <1>5. row \in Account /\ row.name = acct[acc[i]].name /\ row.cred = acct[acc[i]].cred
        /\ row.grouped = acct[acc[i]].grouped /\ row.status = acct[acc[i]].status
    BY <1>4 DEF Account
  <1> HIDE DEF row
  <1>6. /\ row.name = EmailOf[cand[i]]
        /\ EmailOf[row.cred.lin] = EmailOf[cand[i]]
        /\ row.status = "live" /\ row.grouped => Trusted(row.cred)
    BY <1>3, <1>5, FlagRow
  <1>7. CASE out = "ok"
    BY <1>1, <1>2, <1>3, <1>5, <1>6, <1>7, UndoStep DEF IInv, TypeOK
  <1>8. CASE out # "ok"
    <2>1. PICK next \in {"quarGroup", "respond"} : Goto(i, next)
      BY <1>1, <1>8, FailureTargets DEF IInv
    <2>2. UNCHANGED cause /\ resp' \in [Handlers -> Answers \cup {None}]
      BY <1>1, <1>8, FailureTargets DEF IInv
    <2>3. QED
      BY <1>1, <1>2, <1>3, <1>5, <1>6, <2>1, <2>2, UndoStep
  <1>9. QED
    BY <1>7, <1>8

\* The quarantine takes the row out of its groups.
LEMMA QuarantineGroupIInv ==
  ASSUME IInv, NEW i \in Handlers, QuarantineGroup(i) PROVE IInv'
  <1> DEFINE row == [acct[acc[i]] EXCEPT !.grouped = FALSE]
  <1>1. PICK out \in Outcomes(acc[i]) :
          /\ Store(acc[i], out, row)
          /\ IF out = "ok" THEN Goto(i, "quarSched") /\ UNCHANGED <<cause, resp>>
                           ELSE QuarantineFails(i)
    BY DEF QuarantineGroup, UndoCall
  <1>2. pc[i] = "quarGroup" /\ UNCHANGED <<head, late, vetted, lock, cand, acc, snap, held>>
    BY DEF QuarantineGroup, UndoCall
  <1>3. acc[i] # None /\ pc[i] \in OnRow
    BY <1>2 DEF IInv, TargetsOwned, OnRow
  <1>4. acct[acc[i]] \in Account
    BY <1>3, RowType DEF IInv
  <1>5. row \in Account /\ row.name = acct[acc[i]].name /\ row.cred = acct[acc[i]].cred
        /\ ~row.grouped
    BY <1>4 DEF Account
  <1> HIDE DEF row
  <1>6. /\ row.name = EmailOf[cand[i]]
        /\ EmailOf[row.cred.lin] = EmailOf[cand[i]]
        /\ row.status = "live" /\ row.grouped => Trusted(row.cred)
    BY <1>3, <1>5, FlagRow
  <1>7. CASE out = "ok"
    BY <1>1, <1>2, <1>3, <1>5, <1>6, <1>7, UndoStep DEF IInv, TypeOK, Restoring
  <1>8. CASE out # "ok"
    <2>1. PICK next \in {"quarGroup", "respond"} : Goto(i, next)
      BY <1>1, <1>8, FailureTargets DEF IInv
    <2>2. UNCHANGED cause /\ resp' \in [Handlers -> Answers \cup {None}]
      BY <1>1, <1>8, FailureTargets DEF IInv
    <2>3. QED
      BY <1>1, <1>2, <1>3, <1>5, <1>6, <2>1, <2>2, UndoStep DEF Restoring
  <1>9. QED
    BY <1>7, <1>8

\* The quarantine makes the row unschedulable.
LEMMA QuarantineSchedIInv ==
  ASSUME IInv, NEW i \in Handlers, QuarantineSched(i) PROVE IInv'
  <1> DEFINE row == [acct[acc[i]] EXCEPT !.sched = FALSE]
  <1>1. PICK out \in Outcomes(acc[i]) :
          /\ Store(acc[i], out, row)
          /\ IF out = "ok" THEN Goto(i, "quarCheck") /\ UNCHANGED <<cause, resp>>
                           ELSE QuarantineFails(i)
    BY DEF QuarantineSched, UndoCall
  <1>2. pc[i] = "quarSched" /\ UNCHANGED <<head, late, vetted, lock, cand, acc, snap, held>>
    BY DEF QuarantineSched, UndoCall
  <1>3. acc[i] # None /\ pc[i] \in OnRow
    BY <1>2 DEF IInv, TargetsOwned, OnRow
  <1>4. acct[acc[i]] \in Account
    BY <1>3, RowType DEF IInv
  <1>5. row \in Account /\ row.name = acct[acc[i]].name /\ row.cred = acct[acc[i]].cred
        /\ row.grouped = acct[acc[i]].grouped /\ row.status = acct[acc[i]].status
    BY <1>4 DEF Account
  <1> HIDE DEF row
  <1>6. /\ row.name = EmailOf[cand[i]]
        /\ EmailOf[row.cred.lin] = EmailOf[cand[i]]
        /\ row.status = "live" /\ row.grouped => Trusted(row.cred)
    BY <1>3, <1>5, FlagRow
  <1>7. CASE out = "ok"
    BY <1>1, <1>2, <1>3, <1>5, <1>6, <1>7, UndoStep DEF IInv, TypeOK, Restoring
  <1>8. CASE out # "ok"
    <2>1. PICK next \in {"quarGroup", "respond"} : Goto(i, next)
      BY <1>1, <1>8, FailureTargets DEF IInv
    <2>2. UNCHANGED cause /\ resp' \in [Handlers -> Answers \cup {None}]
      BY <1>1, <1>8, FailureTargets DEF IInv
    <2>3. QED
      BY <1>1, <1>2, <1>3, <1>5, <1>6, <2>1, <2>2, UndoStep DEF Restoring
  <1>9. QED
    BY <1>7, <1>8

\* Deleting the row, and the three ways its failure is handled; a second rollback
\* after a test still finds the pushed grant in the row.
LEMMA DeleteIInv == ASSUME IInv, NEW i \in Handlers, Delete(i) PROVE IInv'
  <1> DEFINE row == [acct[acc[i]] EXCEPT !.status = "deleted"]
  <1>1. PICK out \in Outcomes(acc[i]) :
          /\ Store(acc[i], out, row)
          /\ \/ Goto(i, "deleteCheck") /\ UNCHANGED <<cause, resp>>
             \/ Raise(i)
             \/ Unfinished(i)
    BY DEF Delete
  <1>2. pc[i] = "delete" /\ UNCHANGED <<head, late, vetted, lock, cand, acc, snap, held>>
    BY DEF Delete
  <1>3. acc[i] # None /\ pc[i] \in OnRow
        /\ (cause[i] \in Preserving => acct[acc[i]].cred.lin = cand[i])
    BY <1>2 DEF IInv, TargetsOwned, OnRow, HoldsCandidate
  <1>4. acct[acc[i]] \in Account /\ acc[i] \in Ids /\ acct \in [Ids -> Account \cup {None}]
    BY <1>3, RowType DEF IInv, TypeOK
  <1>5. row \in Account /\ row.name = acct[acc[i]].name /\ row.cred = acct[acc[i]].cred
        /\ row.status = "deleted"
    BY <1>4 DEF Account
  <1> HIDE DEF row
  <1>6. /\ row.name = EmailOf[cand[i]]
        /\ EmailOf[row.cred.lin] = EmailOf[cand[i]]
        /\ row.status = "live" /\ row.grouped => Trusted(row.cred)
    BY <1>3, <1>5, FlagRow
  <1>7. cause[i] \in Preserving => acct'[acc[i]].cred.lin = cand[i]
    BY <1>1, <1>3, <1>4, <1>5 DEF Store
  <1>8. CASE Goto(i, "deleteCheck") /\ UNCHANGED <<cause, resp>>
    <2>1. "deleteCheck" \in Stages \ {"idle", "lock", "lookup", "restore"}
          /\ "deleteCheck" \notin Restoring
      BY DEF Stages, Restoring
    <2>2. QED
      BY <1>1, <1>2, <1>3, <1>5, <1>6, <1>7, <1>8, <2>1, RowStep DEF IInv, TypeOK
  <1>9. CASE Raise(i) /\ cause[i] = "test"
    <2>1. Goto(i, "rollback") /\ cause' = [cause EXCEPT ![i] = "testError"] /\ UNCHANGED resp
      BY <1>9 DEF Raise, RollBack
    <2>2. "rollback" \in Stages \ {"idle", "lock", "lookup", "restore"}
          /\ "rollback" \notin Restoring
      BY DEF Stages, Restoring
    <2>3. cause' \in [Handlers -> Causes \cup {None}]
          /\ \A j \in Handlers : j # i => cause'[j] = cause[j]
      BY <2>1 DEF IInv, TypeOK, Causes
    <2>4. acct'[acc[i]].cred.lin = cand[i]
      BY <1>7, <1>9 DEF Preserving
    <2>5. QED
      BY <1>1, <1>2, <1>3, <1>5, <1>6, <2>1, <2>2, <2>3, <2>4, RowStep DEF IInv, TypeOK
  <1>10. CASE Raise(i) /\ cause[i] # "test"
    <2>1. Goto(i, "respond") /\ UNCHANGED cause /\ resp' = [resp EXCEPT ![i] = "importFailed"]
      BY <1>10 DEF Raise, Answer
    <2>2. resp' \in [Handlers -> Answers \cup {None}]
      BY <2>1 DEF IInv, TypeOK, Answers
    <2>3. QED
      BY <1>1, <1>2, <1>3, <1>5, <1>6, <2>1, <2>2, UndoStep DEF Restoring
  <1>11. CASE Unfinished(i)
    <2>1. PICK next \in {"quarGroup", "respond"} : Goto(i, next)
      BY <1>11, FailureTargets DEF IInv
    <2>2. UNCHANGED cause /\ resp' \in [Handlers -> Answers \cup {None}]
      BY <1>11, FailureTargets DEF IInv
    <2>3. QED
      BY <1>1, <1>2, <1>3, <1>5, <1>6, <2>1, <2>2, UndoStep DEF Restoring
  <1>12. QED
    BY <1>1, <1>8, <1>9, <1>10, <1>11

-----------------------------------------------------------------------------
(* Steps of a handler that write no row.                                  *)

\* What a step that writes no row must satisfy to keep the invariant.
LEMMA LocalStep ==
  ASSUME IInv, NEW i \in Handlers, Active(i),
         UNCHANGED <<acct, head, late, lock, cand, acc, snap>>,
         vetted \subseteq vetted', vetted' \in SUBSET Lineages,
         NEW next \in Stages \ {"idle", "lock", "lookup"}, Goto(i, next),
         cause' \in [Handlers -> Causes \cup {None}],
         \A j \in Handlers : j # i => cause'[j] = cause[j],
         resp' \in [Handlers -> Answers \cup {None}],
         held' \in [Handlers -> Cred \cup {None}],
         \A j \in Handlers : j # i => held'[j] = held[j],
         next \in OnRow => pc[i] \in OnRow,
         next \in Restoring => snap[i] # None,
         \/ next \in {"isolate", "test", "verify", "group", "enable", "confirm"}
         \/ next \in {"rollback", "delete", "deleteCheck"} /\ cause'[i] \in Preserving
         => acct[acc[i]].cred.lin = cand[i],
         next \in {"verify", "group", "enable", "confirm"} => cand[i] \in vetted',
         next = "restore" => /\ held'[i] # None
                             /\ EmailOf[held'[i].lin] = EmailOf[cand[i]]
                             /\ snap[i].grouped => Trusted(held'[i])
  PROVE  IInv'
  <1>1. pc \in [Handlers -> Stages] /\ pc' = [pc EXCEPT ![i] = next]
    BY DEF IInv, TypeOK, Goto
  <1>2. TypeOK'
    BY <1>1 DEF IInv, TypeOK
  <1>3. LockHeld'
    BY <1>1 DEF IInv, LockHeld, Active
  <1>4. NamesOwn' /\ GroupedIsTrusted'
    BY DEF IInv, NamesOwn, GroupedIsTrusted, Grouped, Live, Trusted, Rotated
  <1>5. TargetsOwned'
    BY <1>1 DEF IInv, TargetsOwned, Active
  <1>6. SnapsSound'
    BY <1>1 DEF IInv, SnapsSound, Trusted, Rotated
  <1>7. HoldsCandidate'
    BY <1>1 DEF IInv, HoldsCandidate
  <1>8. PromotesVetted'
    BY <1>1 DEF IInv, PromotesVetted
  <1>9. HeldSound'
    BY <1>1 DEF IInv, HeldSound, Trusted, Rotated
  <1>10. QED
    BY <1>2, <1>3, <1>4, <1>5, <1>6, <1>7, <1>8, <1>9 DEF IInv

\* A step that only ends the push with an answer keeps the invariant.
LEMMA AnswerStep ==
  ASSUME IInv, NEW i \in Handlers, Active(i), NEW r \in Answers, Answer(i, r),
         UNCHANGED <<remote, lock, cand, acc, snap, held, cause>>
  PROVE  IInv'
  <1>1. Goto(i, "respond") /\ resp' \in [Handlers -> Answers \cup {None}]
    BY DEF Answer, IInv, TypeOK
  <1>2. "respond" \in Stages \ {"idle", "lock", "lookup"}
        /\ "respond" \notin OnRow /\ "respond" \notin Restoring
    BY DEF Stages, OnRow, Restoring
  <1>3. QED
    BY <1>1, <1>2, LocalStep DEF remote, IInv, TypeOK

\* A step that only turns to the rollback keeps the invariant, if the row
\* holds the pushed grant whenever the rollback may keep it.
LEMMA RollBackStep ==
  ASSUME IInv, NEW i \in Handlers, pc[i] \in OnRow, NEW c \in Causes, RollBack(i, c),
         c \in Preserving => acct[acc[i]].cred.lin = cand[i],
         UNCHANGED <<remote, lock, cand, acc, snap, held, resp>>
  PROVE  IInv'
  <1>1. Goto(i, "rollback") /\ cause' = [cause EXCEPT ![i] = c]
    BY DEF RollBack
  <1>2. /\ cause' \in [Handlers -> Causes \cup {None}] /\ cause'[i] = c
        /\ \A j \in Handlers : j # i => cause'[j] = cause[j]
    BY <1>1 DEF IInv, TypeOK
  <1>3. "rollback" \in Stages \ {"idle", "lock", "lookup"} /\ "rollback" \notin Restoring
    BY DEF Stages, Restoring
  <1>4. Active(i)
    BY DEF Active, OnRow
  <1>5. QED
    BY <1>1, <1>2, <1>3, <1>4, LocalStep DEF remote, IInv, TypeOK

\* A raised call of the rollback keeps the invariant.
LEMMA RaiseStep ==
  ASSUME IInv, NEW i \in Handlers, pc[i] \in {"rollback", "deleteCheck"}, Raise(i),
         UNCHANGED <<remote, lock, cand, acc, snap, held>>
  PROVE  IInv'
  <1>1. Active(i) /\ pc[i] \in OnRow
    BY DEF Active, OnRow
  <1>2. CASE cause[i] = "test"
    <2>1. acct[acc[i]].cred.lin = cand[i]
      BY <1>2 DEF IInv, HoldsCandidate, Preserving
    <2>2. "testError" \in Causes
      BY DEF Causes
    <2>3. QED
      BY <1>1, <1>2, <2>1, <2>2, RollBackStep DEF Raise
  <1>3. CASE cause[i] # "test"
    <2>1. "importFailed" \in Answers
      BY DEF Answers
    <2>2. QED
      BY <1>1, <1>3, <2>1, AnswerStep DEF Raise
  <1>4. QED
    BY <1>2, <1>3

\* A check of the rollback that reports failure keeps the invariant.
LEMMA UnfinishedStep ==
  ASSUME IInv, NEW i \in Handlers, pc[i] \in OnRow,
         Unfinished(i) \/ QuarantineFails(i),
         UNCHANGED <<remote, lock, cand, acc, snap, held>>
  PROVE  IInv'
  <1>1. PICK next \in {"quarGroup", "respond"} : Goto(i, next)
    BY FailureTargets DEF IInv
  <1>2. UNCHANGED cause /\ resp' \in [Handlers -> Answers \cup {None}]
    BY FailureTargets DEF IInv
  <1>3. Active(i)
    BY DEF Active, OnRow
  <1>4. next \in Stages \ {"idle", "lock", "lookup"} /\ next \notin Restoring
    BY DEF Stages, Restoring
  <1>5. QED
    BY <1>1, <1>2, <1>3, <1>4, LocalStep DEF remote, IInv, TypeOK

\* The checks before the first write touch no row.
LEMMA PreprobeIInv == ASSUME IInv, NEW i \in Handlers, Preprobe(i) PROVE IInv'
  <1>1. Active(i)
    BY DEF Preprobe, Active
  <1>2. CASE Answer(i, "rejected")
    <2>1. "rejected" \in Answers
      BY DEF Answers
    <2>2. QED
      BY <1>1, <1>2, <2>1, AnswerStep DEF Preprobe
  <1>3. CASE Goto(i, "find") /\ UNCHANGED resp
    <2>1. "find" \in Stages \ {"idle", "lock", "lookup"}
          /\ "find" \notin OnRow /\ "find" \notin Restoring
      BY DEF Stages, OnRow, Restoring
    <2>2. QED
      BY <1>1, <1>3, <2>1, LocalStep DEF Preprobe, remote, IInv, TypeOK
  <1>4. QED
    BY <1>2, <1>3 DEF Preprobe

\* The account test: passing it vets the grant the row holds, the pushed one.
LEMMA TestIInv == ASSUME IInv, NEW i \in Handlers, Test(i) PROVE IInv'
  <1>1. /\ pc[i] = "test" /\ pc[i] \in OnRow /\ Active(i)
        /\ UNCHANGED <<acct, head, late, lock, cand, acc, snap, held, resp>>
    BY DEF Test, OnRow, Active
  <1>2. acc[i] # None /\ acct[acc[i]].cred.lin = cand[i] /\ cand[i] \in Lineages
    BY <1>1 DEF IInv, TypeOK, TargetsOwned, HoldsCandidate, LockHeld
  <1>3. CASE vetted' = vetted \cup {acct[acc[i]].cred.lin} /\ Goto(i, "verify")
             /\ UNCHANGED cause
    <2>1. "verify" \in Stages \ {"idle", "lock", "lookup"} /\ "verify" \notin Restoring
      BY DEF Stages, Restoring
    <2>2. cand[i] \in vetted' /\ vetted \subseteq vetted' /\ vetted' \in SUBSET Lineages
      BY <1>2, <1>3 DEF IInv, TypeOK
    <2>3. QED
      BY <1>1, <1>2, <1>3, <2>1, <2>2, LocalStep DEF IInv, TypeOK
  <1>4. ASSUME NEW c \in {"test", "testError"}, RollBack(i, c), UNCHANGED vetted
        PROVE  IInv'
    <2>1. c \in Causes
      BY DEF Causes
    <2>2. QED
      BY <1>1, <1>2, <1>4, <2>1, RollBackStep DEF remote
  <1>5. QED
    BY <1>3, <1>4 DEF Test

\* Reading the fingerprint before the promotion.
LEMMA VerifyIInv == ASSUME IInv, NEW i \in Handlers, Verify(i) PROVE IInv'
  <1>1. /\ pc[i] = "verify" /\ pc[i] \in OnRow /\ Active(i)
        /\ UNCHANGED <<remote, lock, cand, acc, snap, resp>>
    BY DEF Verify, OnRow, Active
  <1>2. acc[i] # None /\ acct[acc[i]].cred.lin = cand[i] /\ cand[i] \in vetted
    BY <1>1 DEF IInv, TargetsOwned, HoldsCandidate, PromotesVetted
  <1>3. CASE held' = [held EXCEPT ![i] = acct[acc[i]].cred] /\ Goto(i, "group")
             /\ UNCHANGED cause
    <2>1. acct[acc[i]].cred \in Cred
      BY <1>2, RowType DEF IInv, Account
    <2>2. /\ held' \in [Handlers -> Cred \cup {None}]
          /\ \A j \in Handlers : j # i => held'[j] = held[j]
      BY <1>3, <2>1 DEF IInv, TypeOK
    <2>3. "group" \in Stages \ {"idle", "lock", "lookup"} /\ "group" \notin Restoring
      BY DEF Stages, Restoring
    <2>4. QED
      BY <1>1, <1>2, <1>3, <2>2, <2>3, LocalStep DEF remote, IInv, TypeOK
  <1>4. CASE RollBack(i, "promote") /\ UNCHANGED held
    <2>1. "promote" \in Causes
      BY DEF Causes
    <2>2. QED
      BY <1>1, <1>2, <1>4, <2>1, RollBackStep
  <1>5. QED
    BY <1>3, <1>4 DEF Verify

\* Reading the fingerprint after the promotion.
LEMMA ConfirmIInv == ASSUME IInv, NEW i \in Handlers, Confirm(i) PROVE IInv'
  <1>1. /\ pc[i] = "confirm" /\ pc[i] \in OnRow /\ Active(i)
        /\ UNCHANGED <<remote, lock, cand, acc, snap, held>>
    BY DEF Confirm, OnRow, Active
  <1>2. acct[acc[i]].cred.lin = cand[i]
    BY <1>1 DEF IInv, HoldsCandidate
  <1>3. "promote" \in Causes /\ "imported" \in Answers
    BY DEF Causes, Answers
  <1>4. CASE Answer(i, "imported") /\ UNCHANGED cause
    BY <1>1, <1>3, <1>4, AnswerStep
  <1>5. CASE RollBack(i, "promote") /\ UNCHANGED resp
    BY <1>1, <1>2, <1>3, <1>5, RollBackStep
  <1>6. QED
    BY <1>4, <1>5 DEF Confirm

\* The choice between deleting and quarantining a created account.
LEMMA UndoCreateIInv == ASSUME IInv, NEW i \in Handlers, UndoCreate(i) PROVE IInv'
  <1>1. /\ pc[i] = "rollback" /\ pc[i] \in OnRow /\ Active(i)
        /\ UNCHANGED <<remote, lock, cand, acc, snap, held>>
    BY DEF UndoCreate, OnRow, Active
  <1>2. CASE Raise(i)
    BY <1>1, <1>2, RaiseStep
  <1>3. ASSUME NEW next \in {"quarGroup", "delete"}, Goto(i, next), UNCHANGED <<cause, resp>>
        PROVE  IInv'
    <2>1. next \in Stages \ {"idle", "lock", "lookup"} /\ next \notin Restoring
      BY DEF Stages, Restoring
    <2>2. cause[i] \in Preserving => acct[acc[i]].cred.lin = cand[i]
      BY <1>1 DEF IInv, HoldsCandidate
    <2>3. QED
      BY <1>1, <1>3, <2>1, <2>2, LocalStep DEF remote, IInv, TypeOK
  <1>4. QED
    BY <1>2, <1>3 DEF UndoCreate

\* The choice of the credentials a restore writes back: the snapshot's, or newer
\* ones of the candidate, which Sub2API refreshed and which are thus trusted.
LEMMA UndoUpdateIInv == ASSUME IInv, NEW i \in Handlers, UndoUpdate(i) PROVE IInv'
  <1>1. /\ pc[i] = "rollback" /\ pc[i] \in OnRow /\ Active(i) /\ snap[i] # None
        /\ UNCHANGED <<remote, lock, cand, acc, snap>>
    BY DEF UndoUpdate, OnRow, Active
  <1>2. CASE Raise(i) /\ UNCHANGED held
    BY <1>1, <1>2, RaiseStep
  <1>3. ASSUME NEW c, held' = [held EXCEPT ![i] = c],
               \/ c = snap[i].cred
               \/ cause[i] \in Preserving /\ Advanced(acc[i], i) /\ c = acct[acc[i]].cred,
               Goto(i, "restore"), UNCHANGED <<cause, resp>>
        PROVE  IInv'
    <2>1. acc[i] # None /\ snap[i] \in Account /\ acct[acc[i]] \in Account
      BY <1>1, RowType DEF IInv, TypeOK, TargetsOwned
    <2>2. c \in Cred
      BY <1>3, <2>1 DEF Account
    <2>3. EmailOf[c.lin] = EmailOf[cand[i]]
      BY <1>1, <1>3 DEF IInv, SnapsSound, HoldsCandidate
    <2>4. snap[i].grouped => Trusted(c)
      <3>1. CASE c = snap[i].cred
        BY <1>1, <3>1 DEF IInv, SnapsSound
      <3>2. CASE cause[i] \in Preserving /\ Advanced(acc[i], i) /\ c = acct[acc[i]].cred
        BY <1>1, <3>2 DEF IInv, HoldsCandidate, Advanced, Trusted, Rotated
      <3>3. QED
        BY <1>3, <3>1, <3>2
    <2>5. /\ held' \in [Handlers -> Cred \cup {None}] /\ held'[i] = c
          /\ \A j \in Handlers : j # i => held'[j] = held[j]
      BY <1>3, <2>2 DEF IInv, TypeOK
    <2>6. "restore" \in Stages \ {"idle", "lock", "lookup"}
      BY DEF Stages
    <2>7. c # None
      BY <2>2, NoneAssumption
    <2>8. QED
      BY <1>1, <1>3, <2>3, <2>4, <2>5, <2>6, <2>7, LocalStep DEF remote, IInv, TypeOK
  <1>4. QED
    BY <1>2, <1>3 DEF UndoUpdate

\* The GET after the delete.
LEMMA DeleteCheckIInv == ASSUME IInv, NEW i \in Handlers, DeleteCheck(i) PROVE IInv'
  <1>1. /\ pc[i] = "deleteCheck" /\ pc[i] \in OnRow /\ Active(i)
        /\ UNCHANGED <<remote, lock, cand, acc, snap, held>>
    BY DEF DeleteCheck, OnRow, Active
  <1>2. "rolledBack" \in Answers
    BY DEF Answers
  <1>3. CASE Answer(i, "rolledBack") /\ UNCHANGED cause
    BY <1>1, <1>2, <1>3, AnswerStep
  <1>4. CASE Unfinished(i)
    BY <1>1, <1>4, UnfinishedStep
  <1>5. CASE Raise(i)
    BY <1>1, <1>5, RaiseStep
  <1>6. QED
    BY <1>3, <1>4, <1>5 DEF DeleteCheck

\* The read after the restore.
LEMMA RestoreCheckIInv == ASSUME IInv, NEW i \in Handlers, RestoreCheck(i) PROVE IInv'
  <1>1. /\ pc[i] = "restoreCheck" /\ pc[i] \in OnRow /\ Active(i)
        /\ UNCHANGED <<remote, lock, cand, acc, snap, held>>
    BY DEF RestoreCheck, OnRow, Active
  <1>2. "rolledBack" \in Answers
    BY DEF Answers
  <1>3. CASE Answer(i, "rolledBack") /\ UNCHANGED cause
    BY <1>1, <1>2, <1>3, AnswerStep
  <1>4. CASE Unfinished(i)
    BY <1>1, <1>4, UnfinishedStep
  <1>5. QED
    BY <1>3, <1>4 DEF RestoreCheck

\* The read after the quarantine.
LEMMA QuarantineCheckIInv ==
  ASSUME IInv, NEW i \in Handlers, QuarantineCheck(i) PROVE IInv'
  <1>1. /\ pc[i] = "quarCheck" /\ pc[i] \in OnRow /\ Active(i)
        /\ UNCHANGED <<remote, lock, cand, acc, snap, held>>
    BY DEF QuarantineCheck, OnRow, Active
  <1>2. CASE QuarantineFails(i)
    BY <1>1, <1>2, UnfinishedStep
  <1>3. CASE Goto(i, "respond") /\ UNCHANGED <<cause, resp>>
    <2>1. "respond" \in Stages \ {"idle", "lock", "lookup"}
          /\ "respond" \notin OnRow /\ "respond" \notin Restoring
      BY DEF Stages, OnRow, Restoring
    <2>2. QED
      BY <1>1, <1>3, <2>1, LocalStep DEF remote, IInv, TypeOK
  <1>4. CASE Answer(i, "quarantined") /\ UNCHANGED cause
    <2>1. "quarantined" \in Answers
      BY DEF Answers
    <2>2. QED
      BY <1>1, <1>4, <2>1, AnswerStep
  <1>5. QED
    BY <1>2, <1>3, <1>4 DEF QuarantineCheck, QuarantineEnds

-----------------------------------------------------------------------------
(* Steps that choose or add a row, and those of Sub2API and the threads.  *)

\* A handler that holds the lock and has chosen a row of its email: what the
\* steps that choose the row (Find, Lookup, Create) leave true.
LEMMA ChooseStep ==
  ASSUME IInv, NEW i \in Handlers, Active(i), NEW a \in Ids,
         UNCHANGED <<head, late, vetted, lock, cand, held>>,
         acct' \in [Ids -> Account \cup {None}], NamesOwn', GroupedIsTrusted',
         \A b \in Ids : acct[b] # None => acct'[b] = acct[b],
         acct'[a] # None, acct'[a].name = EmailOf[cand[i]],
         acc' = [acc EXCEPT ![i] = a],
         \/ UNCHANGED snap
         \/ /\ snap' = [snap EXCEPT ![i] = acct[a]]
            /\ acct[a] # None /\ acct'[a] = acct[a] /\ Grouped(a) = acct[a].grouped,
         NEW next \in {"update", "isolate", "rollback"}, Goto(i, next),
         next = "update" => snap'[i] # None,
         next = "isolate" => acct'[a].cred.lin = cand[i],
         next = "rollback" => cause[i] = "write",
         UNCHANGED <<cause, resp>>
  PROVE  IInv'
  <1>1. pc \in [Handlers -> Stages] /\ pc' = [pc EXCEPT ![i] = next] /\ next \in Stages
    BY DEF IInv, TypeOK, Goto, Stages
  <1>2. acc \in [Handlers -> Ids \cup {None}] /\ snap \in [Handlers -> Account \cup {None}]
    BY DEF IInv, TypeOK
  <1>3. acct[a] # None => acct[a] \in Account
    BY DEF IInv, TypeOK
  <1>4. TypeOK'
    BY <1>1, <1>2, <1>3 DEF IInv, TypeOK
  <1>5. LockHeld'
    BY <1>1 DEF IInv, LockHeld, Active
  <1>6. a # None
    BY NoneAssumption
  <1>7. TargetsOwned'
    BY <1>1, <1>2, <1>6 DEF IInv, TargetsOwned, Active
  <1>8. SnapsSound'
    <2>1. CASE UNCHANGED snap
      BY <1>1, <1>2, <1>6, <2>1 DEF IInv, SnapsSound, Restoring, Trusted, Rotated
    <2>2. CASE /\ snap' = [snap EXCEPT ![i] = acct[a]]
               /\ acct[a] # None /\ acct'[a] = acct[a] /\ Grouped(a) = acct[a].grouped
      <3>1. EmailOf[acct[a].cred.lin] = EmailOf[cand[i]] /\ acct[a].name = EmailOf[cand[i]]
        BY <2>2 DEF IInv, NamesOwn
      <3>2. acct[a].grouped => Trusted(acct[a].cred)
        BY <2>2 DEF IInv, GroupedIsTrusted
      <3>3. QED
        BY <1>1, <1>2, <1>6, <2>2, <3>1, <3>2
           DEF IInv, SnapsSound, Restoring, Trusted, Rotated
    <2>3. QED
      BY <2>1, <2>2
  <1>9. HoldsCandidate'
    BY <1>1, <1>2 DEF IInv, HoldsCandidate, TargetsOwned, OnRow, Preserving, TypeOK
  <1>10. PromotesVetted'
    BY <1>1 DEF IInv, PromotesVetted
  <1>11. HeldSound'
    BY <1>1, <1>2 DEF IInv, HeldSound, SnapsSound, Restoring, Trusted, Rotated
  <1>12. QED
    BY <1>4, <1>5, <1>7, <1>8, <1>9, <1>10, <1>11 DEF IInv

\* A row is found by name, by the email in it or by subject: each of them means
\* that it has the name of the candidate's email, the one locked.
LEMMA MatchIsOwn ==
  ASSUME IInv, OneEmailPerSubject, NEW i \in Handlers, cand[i] # None,
         NEW a \in Matches(i)
  PROVE  a \in Ids /\ Live(a) /\ acct[a].name = EmailOf[cand[i]]
  <1>1. a \in Ids /\ Live(a) /\ acct[a] # None
    BY DEF Matches, Live
  <1>2. acct[a] \in Account /\ cand[i] \in Lineages
    BY <1>1 DEF IInv, TypeOK
  <1>3. acct[a].cred.lin \in Lineages /\ acct[a].name = EmailOf[acct[a].cred.lin]
    BY <1>1, <1>2 DEF IInv, NamesOwn, Account, Cred
  <1>4. QED
    BY <1>1, <1>2, <1>3 DEF Matches, OneEmailPerSubject

\* The lookup, the one step that needs OneEmailPerSubject: the row that it chooses
\* is one of the email whose lock the handler holds.
LEMMA FindIInv ==
  ASSUME IInv, OneEmailPerSubject, NEW i \in Handlers, Find(i) PROVE IInv'
  <1>1. /\ pc[i] = "find" /\ Active(i) /\ UNCHANGED <<remote, lock, cand, held, cause>>
        /\ cand[i] # None
    BY DEF Find, Active, IInv, LockHeld
  <1>2. ASSUME NEW r \in {"rejected", "importFailed"}, Answer(i, r), UNCHANGED <<acc, snap>>
        PROVE  IInv'
    <2>1. r \in Answers
      BY DEF Answers
    <2>2. QED
      BY <1>1, <1>2, <2>1, AnswerStep
  <1>3. CASE Goto(i, "create") /\ UNCHANGED <<acc, snap, resp>>
    <2>1. "create" \in Stages \ {"idle", "lock", "lookup"}
          /\ "create" \notin OnRow /\ "create" \notin Restoring
      BY DEF Stages, OnRow, Restoring
    <2>2. QED
      BY <1>1, <1>3, <2>1, LocalStep DEF remote, IInv, TypeOK
  <1>4. ASSUME NEW a \in Ids, Matches(i) = {a},
               acc' = [acc EXCEPT ![i] = a], snap' = [snap EXCEPT ![i] = acct[a]],
               Goto(i, "update"), UNCHANGED resp
        PROVE  IInv'
    <2>1. a \in Matches(i)
      BY <1>4
    <2>2. Live(a) /\ acct[a].name = EmailOf[cand[i]]
      BY <1>1, <2>1, MatchIsOwn
    <2>3. acct[a] # None /\ acct[a] \in Account
      BY <2>2 DEF Live, IInv, TypeOK
    <2>4. Grouped(a) = acct[a].grouped
      BY <2>2, <2>3 DEF Grouped, Account
    <2>5. snap'[i] # None
      BY <1>4, <2>3 DEF IInv, TypeOK
    <2>6. acct' \in [Ids -> Account \cup {None}] /\ NamesOwn' /\ GroupedIsTrusted'
      BY <1>1 DEF remote, IInv, TypeOK, NamesOwn, GroupedIsTrusted, Grouped, Live, Trusted, Rotated
    <2>7. QED
      BY <1>1, <1>4, <2>2, <2>3, <2>4, <2>5, <2>6, ChooseStep DEF remote
  <1>5. QED
    BY <1>2, <1>3, <1>4 DEF Find

\* The lookup by name after a create that raised.
LEMMA LookupIInv == ASSUME IInv, NEW i \in Handlers, Lookup(i) PROVE IInv'
  <1>1. /\ pc[i] = "lookup" /\ Active(i) /\ UNCHANGED <<remote, lock, cand, snap, held, cause>>
        /\ cause[i] = "write"
    BY DEF Lookup, Active, IInv, HoldsCandidate
  <1>2. ASSUME NEW r \in {"unknown", "importFailed"}, Answer(i, r), UNCHANGED acc
        PROVE  IInv'
    <2>1. r \in Answers
      BY DEF Answers
    <2>2. QED
      BY <1>1, <1>2, <2>1, AnswerStep
  <1>3. ASSUME NEW a \in Ids, MatchesByName(i) = {a}, acc' = [acc EXCEPT ![i] = a],
               Goto(i, "rollback"), UNCHANGED resp
        PROVE  IInv'
    <2>1. acct[a] # None /\ acct[a].name = EmailOf[cand[i]]
      BY <1>3 DEF MatchesByName, Live
    <2>2. acct' \in [Ids -> Account \cup {None}] /\ NamesOwn' /\ GroupedIsTrusted'
      BY <1>1 DEF remote, IInv, TypeOK, NamesOwn, GroupedIsTrusted, Grouped, Live, Trusted, Rotated
    <2>3. QED
      BY <1>1, <1>3, <2>1, <2>2, ChooseStep DEF remote
  <1>4. QED
    BY <1>2, <1>3 DEF Lookup

\* A row that Sub2API adds for a grant leaves every other row alone, is named
\* after the grant's email and is in no group.
LEMMA NewRow ==
  ASSUME IInv, NEW l \in Lineages, NEW a \in Ids, NEW sched \in BOOLEAN, acct[a] = None,
         acct' = [acct EXCEPT ![a] = Candidate(l, EmailOf[l], sched)],
         UNCHANGED <<head, vetted>>
  PROVE  /\ acct' \in [Ids -> Account \cup {None}] /\ NamesOwn' /\ GroupedIsTrusted'
         /\ \A b \in Ids : acct[b] # None => acct'[b] = acct[b]
         /\ acct'[a] # None /\ acct'[a].name = EmailOf[l] /\ acct'[a].cred.lin = l
  <1> DEFINE row == Candidate(l, EmailOf[l], sched)
  <1>1. EmailOf[l] \in Emails
    BY ConstantsAssumption
  <1>2. row \in Account /\ ~row.grouped /\ row.name = EmailOf[l] /\ row.cred.lin = l
    BY <1>1, CandidateType
  <1>3. acct \in [Ids -> Account \cup {None}] /\ acct' = [acct EXCEPT ![a] = row]
    BY DEF IInv, TypeOK
  <1>4. row # None
    BY <1>2, NoneAssumption
  <1> HIDE DEF row
  <1>5. acct' \in [Ids -> Account \cup {None}]
        /\ (\A b \in Ids : b # a => acct'[b] = acct[b]) /\ acct'[a] = row
    BY <1>2, <1>3
  <1>6. NamesOwn'
    BY <1>2, <1>5 DEF IInv, NamesOwn
  <1>7. GroupedIsTrusted'
    BY <1>2, <1>5 DEF IInv, GroupedIsTrusted, Grouped, Live, Trusted, Rotated
  <1>8. QED
    BY <1>2, <1>4, <1>5, <1>6, <1>7

\* A step that only adds and refreshes rows, and is no handler's, keeps what the
\* invariant says of handlers.
LEMMA RemoteStep ==
  ASSUME IInv, acct' \in [Ids -> Account \cup {None}], NamesOwn', GroupedIsTrusted',
         head' \in [Lineages -> Iat], late' \in SUBSET Lineages,
         \A b \in Ids : acct[b] # None => /\ acct'[b] # None
                                          /\ acct'[b].name = acct[b].name
                                          /\ acct'[b].cred.lin = acct[b].cred.lin,
         UNCHANGED <<vetted, lock, pc, cand, acc, snap, held, cause, resp>>
  PROVE  IInv'
  <1>1. TypeOK' /\ LockHeld'
    BY DEF IInv, TypeOK, LockHeld, Active
  <1>2. \A i \in Handlers : acc[i] # None => acc[i] \in Ids
    BY DEF IInv, TypeOK
  <1>3. TargetsOwned'
    BY <1>2 DEF IInv, TargetsOwned, Active
  <1>4. SnapsSound' /\ PromotesVetted' /\ HeldSound'
    BY DEF IInv, SnapsSound, PromotesVetted, HeldSound, Trusted, Rotated
  <1>5. HoldsCandidate'
    BY <1>2 DEF IInv, HoldsCandidate, TargetsOwned, OnRow
  <1>6. QED
    BY <1>1, <1>3, <1>4, <1>5 DEF IInv

\* A create applied late adds an ungrouped row nobody works on.
LEMMA LateCreateIInv == ASSUME IInv, NEW l \in Lineages, LateCreate(l) PROVE IInv'
  <1>1. PICK a \in Ids, sched \in BOOLEAN :
          acct[a] = None /\ acct' = [acct EXCEPT ![a] = Candidate(l, EmailOf[l], sched)]
    BY DEF LateCreate
  <1>2. UNCHANGED <<head, vetted, lock, pc, local>> /\ late' = late \ {l}
    BY DEF LateCreate
  <1>3. /\ acct' \in [Ids -> Account \cup {None}] /\ NamesOwn' /\ GroupedIsTrusted'
        /\ \A b \in Ids : acct[b] # None => acct'[b] = acct[b]
    BY <1>1, <1>2, NewRow
  <1>4. head' \in [Lineages -> Iat] /\ late' \in SUBSET Lineages
    BY <1>2 DEF IInv, TypeOK
  <1>5. QED
    BY <1>2, <1>3, <1>4, RemoteStep DEF local

\* A refresh keeps the grant and makes the token newer than any the client holds.
LEMMA RotateIInv == ASSUME IInv, NEW a \in Ids, Rotate(a) PROVE IInv'
  <1> DEFINE l == acct[a].cred.lin
  <1>1. PICK n \in Iat : /\ n > head[l]
                         /\ acct' = [acct EXCEPT ![a].cred.iat = n]
                         /\ head' = [head EXCEPT ![l] = n]
    BY DEF Rotate
  <1>2. Live(a) /\ acct[a].cred.iat = head[l] /\ UNCHANGED <<late, vetted, lock, pc, local>>
    BY DEF Rotate
  <1>3. acct[a] # None /\ acct[a] \in Account /\ l \in Lineages
    BY <1>2 DEF Live, IInv, TypeOK, Account, Cred
  <1>4. acct \in [Ids -> Account \cup {None}] /\ head \in [Lineages -> Iat]
    BY DEF IInv, TypeOK
  <1> DEFINE row == [status |-> acct[a].status, name |-> acct[a].name,
                     cred |-> [lin |-> l, iat |-> n],
                     sched |-> acct[a].sched, grouped |-> acct[a].grouped]
  <1>5. acct[a].cred \in Cred /\ acct[a].cred = [lin |-> l, iat |-> acct[a].cred.iat]
    BY <1>3 DEF Account, Cred
  <1>6. [acct[a] EXCEPT !.cred.iat = n] = row
    BY <1>3, <1>5 DEF Account, Cred
  <1>7. acct' = [acct EXCEPT ![a] = row]
    BY <1>1, <1>6
  <1>8. row \in Account
    BY <1>3, <1>5 DEF Account, Cred
  <1>9. row # None
    BY <1>8, NoneAssumption
  <1>10. acct' \in [Ids -> Account \cup {None}]
         /\ (\A b \in Ids : b # a => acct'[b] = acct[b]) /\ acct'[a] = row
    BY <1>4, <1>7, <1>8
  <1>11. NamesOwn'
    BY <1>3, <1>10 DEF IInv, NamesOwn
  <1>12. \A b \in Ids : acct[b] # None => /\ acct'[b] # None
                                          /\ acct'[b].name = acct[b].name
                                          /\ acct'[b].cred.lin = acct[b].cred.lin
    BY <1>9, <1>10
  <1>13. MintedAt[l] \in Int /\ n \in Int /\ head[l] \in Int
    BY <1>3, <1>4, ConstantsAssumption DEF Iat
  <1>14. Trusted(acct[a].cred) => Trusted(row.cred)'
    BY <1>1, <1>2, <1>13 DEF Trusted, Rotated
  <1>15. GroupedIsTrusted'
    BY <1>2, <1>3, <1>10, <1>14 DEF IInv, GroupedIsTrusted, Grouped, Live, Trusted, Rotated
  <1>16. head' \in [Lineages -> Iat] /\ late' \in SUBSET Lineages
    BY <1>1, <1>2, <1>3, <1>4 DEF IInv, TypeOK
  <1>17. QED
    BY <1>2, <1>10, <1>11, <1>12, <1>15, <1>16, RemoteStep DEF local

\* The POST: the new row, seen or not, is named after the locked email.
LEMMA CreateIInv == ASSUME IInv, NEW i \in Handlers, Create(i) PROVE IInv'
  <1> DEFINE l == cand[i]
  <1>1. /\ pc[i] = "create" /\ Active(i)
        /\ UNCHANGED <<head, vetted, lock, cand, snap, held, resp>>
    BY DEF Create, Active
  <1>2. l \in Lineages
    BY <1>1 DEF IInv, TypeOK, LockHeld
  <1>3. ASSUME NEW a \in Ids, NEW sched \in BOOLEAN, acct[a] = None, UNCHANGED late,
               acct' = [acct EXCEPT ![a] = Candidate(l, EmailOf[l], sched)]
        PROVE  /\ acct' \in [Ids -> Account \cup {None}] /\ NamesOwn' /\ GroupedIsTrusted'
               /\ \A b \in Ids : acct[b] # None => acct'[b] = acct[b]
               /\ acct'[a] # None /\ acct'[a].name = EmailOf[l] /\ acct'[a].cred.lin = l
    BY <1>1, <1>2, <1>3, NewRow
  <1>4. ASSUME NEW a \in Ids, NEW sched \in BOOLEAN, acct[a] = None, UNCHANGED late,
               acct' = [acct EXCEPT ![a] = Candidate(l, EmailOf[l], sched)],
               acc' = [acc EXCEPT ![i] = a], Goto(i, "isolate"), UNCHANGED cause
        PROVE  IInv'
    BY <1>1, <1>3, <1>4, ChooseStep
  <1>5. ASSUME acct' \in [Ids -> Account \cup {None}], NamesOwn', GroupedIsTrusted',
               \A b \in Ids : acct[b] # None => acct'[b] = acct[b],
               late' \in SUBSET Lineages,
               Goto(i, "lookup"), cause' = [cause EXCEPT ![i] = "write"], UNCHANGED acc
        PROVE  IInv'
    <2>1. pc \in [Handlers -> Stages] /\ pc' = [pc EXCEPT ![i] = "lookup"]
          /\ "lookup" \in Stages
      BY <1>5 DEF IInv, TypeOK, Goto, Stages
    <2>2. cause \in [Handlers -> Causes \cup {None}] /\ "write" \in Causes
      BY DEF IInv, TypeOK, Causes
    <2>3. TypeOK'
      BY <1>1, <1>5, <2>1, <2>2 DEF IInv, TypeOK
    <2>4. LockHeld'
      BY <1>1, <2>1 DEF IInv, LockHeld, Active
    <2>5. \A j \in Handlers : acc[j] # None => acc[j] \in Ids
      BY DEF IInv, TypeOK
    <2>6. TargetsOwned'
      BY <1>1, <1>5, <2>1, <2>5 DEF IInv, TargetsOwned, Active, OnRow
    <2>7. SnapsSound'
      BY <1>1, <1>5, <2>1 DEF IInv, SnapsSound, Restoring, Trusted, Rotated
    <2>8. HoldsCandidate'
      BY <1>1, <1>5, <2>1, <2>2, <2>5 DEF IInv, HoldsCandidate, TargetsOwned, OnRow
    <2>9. PromotesVetted' /\ HeldSound'
      BY <1>1, <2>1 DEF IInv, PromotesVetted, HeldSound, Trusted, Rotated
    <2>10. QED
      BY <1>5, <2>3, <2>4, <2>6, <2>7, <2>8, <2>9 DEF IInv
  <1>6. ASSUME NEW a \in Ids, NEW sched \in BOOLEAN, acct[a] = None, UNCHANGED late,
               acct' = [acct EXCEPT ![a] = Candidate(l, EmailOf[l], sched)],
               Goto(i, "lookup"), cause' = [cause EXCEPT ![i] = "write"], UNCHANGED acc
        PROVE  IInv'
    <2>1. late' \in SUBSET Lineages
      BY <1>6 DEF IInv, TypeOK
    <2>2. QED
      BY <1>3, <1>5, <1>6, <2>1
  <1>7. ASSUME late' \in {late, late \cup {l}}, UNCHANGED <<acct, acc>>,
               Goto(i, "lookup"), cause' = [cause EXCEPT ![i] = "write"]
        PROVE  IInv'
    <2>1. late' \in SUBSET Lineages
      BY <1>2, <1>7 DEF IInv, TypeOK
    <2>2. acct' \in [Ids -> Account \cup {None}] /\ NamesOwn' /\ GroupedIsTrusted'
      BY <1>1, <1>7 DEF IInv, TypeOK, NamesOwn, GroupedIsTrusted, Grouped, Live, Trusted, Rotated
    <2>3. QED
      BY <1>5, <1>7, <2>1, <2>2
  <1>8. QED
    BY <1>4, <1>6, <1>7 DEF Create

\* A request arrives at an idle thread.
LEMMA ReceiveIInv == ASSUME IInv, NEW i \in Handlers, Receive(i) PROVE IInv'
  <1>1. PICK l \in Lineages : cand' = [cand EXCEPT ![i] = l]
    BY DEF Receive
  <1>2. /\ pc[i] = "idle" /\ pc' = [pc EXCEPT ![i] = "lock"]
        /\ UNCHANGED <<remote, lock, acc, snap, held, cause, resp>>
    BY DEF Receive, Goto
  <1>3. acc[i] = None /\ snap[i] = None
    BY <1>2 DEF IInv, TargetsOwned, SnapsSound, Active
  <1>4. pc \in [Handlers -> Stages] /\ cand \in [Handlers -> Lineages \cup {None}]
        /\ "lock" \in Stages
    BY DEF IInv, TypeOK, Stages
  <1>5. l # None
    BY NoneAssumption
  <1>6. TypeOK'
    BY <1>1, <1>2, <1>4 DEF IInv, TypeOK, remote
  <1>7. LockHeld'
    BY <1>1, <1>2, <1>4, <1>5 DEF IInv, LockHeld, Active
  <1>8. NamesOwn' /\ GroupedIsTrusted'
    BY <1>2 DEF remote, IInv, NamesOwn, GroupedIsTrusted, Grouped, Live, Trusted, Rotated
  <1>9. TargetsOwned'
    BY <1>1, <1>2, <1>3, <1>4 DEF remote, IInv, TargetsOwned, Active, OnRow
  <1>10. SnapsSound'
    BY <1>1, <1>2, <1>3, <1>4 DEF remote, IInv, SnapsSound, Restoring, Trusted, Rotated
  <1>11. HoldsCandidate' /\ PromotesVetted'
    BY <1>1, <1>2, <1>4 DEF remote, IInv, HoldsCandidate, PromotesVetted
  <1>12. HeldSound'
    BY <1>1, <1>2, <1>4 DEF remote, IInv, HeldSound, Trusted, Rotated
  <1>13. QED
    BY <1>6, <1>7, <1>8, <1>9, <1>10, <1>11, <1>12 DEF IInv

\* Taking the lock, which no handler of the same email holds.
LEMMA AcquireLockIInv == ASSUME IInv, NEW i \in Handlers, AcquireLock(i) PROVE IInv'
  <1>1. /\ pc[i] = "lock" /\ pc' = [pc EXCEPT ![i] = "probe"]
        /\ lock[EmailOf[cand[i]]] = None
        /\ lock' = [lock EXCEPT ![EmailOf[cand[i]]] = i]
        /\ UNCHANGED <<remote, local>>
    BY DEF AcquireLock, Goto
  <1>2. pc \in [Handlers -> Stages] /\ lock \in [Emails -> Handlers \cup {None}]
        /\ cand \in [Handlers -> Lineages \cup {None}] /\ "probe" \in Stages
    BY DEF IInv, TypeOK, Stages
  <1>3. cand[i] \in Lineages
    BY <1>1, <1>2 DEF IInv, LockHeld
  <1>4. EmailOf[cand[i]] \in Emails
    BY <1>3, ConstantsAssumption
  <1>5. TypeOK'
    BY <1>1, <1>2, <1>4 DEF IInv, TypeOK, remote, local
  <1>6. \A j \in Handlers : Active(j) => EmailOf[cand[j]] # EmailOf[cand[i]]
    BY <1>1, NoneAssumption DEF IInv, LockHeld
  <1>7. LockHeld'
    BY <1>1, <1>2, <1>4, <1>6 DEF local, IInv, LockHeld, Active
  <1>8. NamesOwn' /\ GroupedIsTrusted'
    BY <1>1 DEF remote, IInv, NamesOwn, GroupedIsTrusted, Grouped, Live, Trusted, Rotated
  <1>9. TargetsOwned'
    BY <1>1, <1>2 DEF remote, local, IInv, TargetsOwned, Active, OnRow
  <1>10. SnapsSound'
    BY <1>1, <1>2 DEF remote, local, IInv, SnapsSound, Restoring, Trusted, Rotated
  <1>11. HoldsCandidate' /\ PromotesVetted'
    BY <1>1, <1>2 DEF remote, local, IInv, HoldsCandidate, PromotesVetted
  <1>12. HeldSound'
    BY <1>1, <1>2 DEF remote, local, IInv, HeldSound, Trusted, Rotated
  <1>13. QED
    BY <1>5, <1>7, <1>8, <1>9, <1>10, <1>11, <1>12 DEF IInv

\* The answer, with which the thread forgets its saga and frees its own lock.
LEMMA RespondIInv == ASSUME IInv, NEW i \in Handlers, Respond(i) PROVE IInv'
  <1>1. /\ pc[i] = "respond" /\ pc' = [pc EXCEPT ![i] = "idle"]
        /\ lock' = [lock EXCEPT ![EmailOf[cand[i]]] = None]
        /\ cand' = [cand EXCEPT ![i] = None] /\ acc' = [acc EXCEPT ![i] = None]
        /\ snap' = [snap EXCEPT ![i] = None] /\ held' = [held EXCEPT ![i] = None]
        /\ cause' = [cause EXCEPT ![i] = None] /\ resp' = [resp EXCEPT ![i] = None]
        /\ UNCHANGED <<acct, head, late, vetted>>
    BY DEF Respond, Goto, remote
  <1>2. pc \in [Handlers -> Stages] /\ cand \in [Handlers -> Lineages \cup {None}]
        /\ "idle" \in Stages /\ lock \in [Emails -> Handlers \cup {None}]
        /\ acc \in [Handlers -> Ids \cup {None}] /\ snap \in [Handlers -> Account \cup {None}]
        /\ cause \in [Handlers -> Causes \cup {None}] /\ held \in [Handlers -> Cred \cup {None}]
    BY DEF IInv, TypeOK, Stages
  <1>3. TypeOK'
    BY <1>1, <1>2 DEF IInv, TypeOK
  <1>4. \A j \in Handlers : j # i /\ Active(j) => EmailOf[cand[j]] # EmailOf[cand[i]]
    BY <1>1 DEF IInv, LockHeld, Active
  <1>5. LockHeld'
    BY <1>1, <1>2, <1>4 DEF IInv, LockHeld, Active
  <1>6. NamesOwn' /\ GroupedIsTrusted'
    BY <1>1 DEF IInv, NamesOwn, GroupedIsTrusted, Grouped, Live, Trusted, Rotated
  <1>7. TargetsOwned'
    BY <1>1, <1>2 DEF IInv, TargetsOwned, Active, OnRow
  <1>8. SnapsSound'
    BY <1>1, <1>2 DEF IInv, SnapsSound, Restoring, Trusted, Rotated
  <1>9. HoldsCandidate' /\ PromotesVetted'
    BY <1>1, <1>2 DEF IInv, HoldsCandidate, PromotesVetted
  <1>10. HeldSound'
    BY <1>1, <1>2 DEF IInv, HeldSound, Trusted, Rotated
  <1>11. QED
    BY <1>3, <1>5, <1>6, <1>7, <1>8, <1>9, <1>10 DEF IInv

\* After a crash no thread works on anything and the rows are as they were.
LEMMA CrashIInv == ASSUME IInv, Crash PROVE IInv'
  <1>1. TypeOK'
    BY DEF IInv, TypeOK, Crash, Stages, remote
  <1>2. NamesOwn' /\ GroupedIsTrusted'
    BY DEF Crash, remote, IInv, NamesOwn, GroupedIsTrusted, Grouped, Live, Trusted, Rotated
  <1>3. \A i \in Handlers : pc'[i] = "idle" /\ acc'[i] = None /\ snap'[i] = None
    BY DEF Crash
  <1>4. LockHeld' /\ TargetsOwned' /\ SnapsSound' /\ HoldsCandidate'
        /\ PromotesVetted' /\ HeldSound'
    BY <1>3 DEF LockHeld, Active, TargetsOwned, OnRow, SnapsSound, Restoring, HoldsCandidate,
       PromotesVetted, HeldSound
  <1>5. QED
    BY <1>1, <1>2, <1>4 DEF IInv

-----------------------------------------------------------------------------
(* The theorems.                                                           *)

\* Every step of a handler that has its lock keeps the invariant.
LEMMA SagaIInv == ASSUME IInv, OneEmailPerSubject, NEW i \in Handlers, Saga(i) PROVE IInv'
  BY PreprobeIInv, FindIInv, CreateIInv, UpdateIInv, LookupIInv, IsolateIInv, TestIInv,
     VerifyIInv, GroupIInv, EnableIInv, ConfirmIInv, UndoCreateIInv, UndoUpdateIInv,
     DeleteIInv, DeleteCheckIInv, RestoreRowIInv, RestoreSchedIInv, RestoreCheckIInv,
     QuarantineGroupIInv, QuarantineSchedIInv, QuarantineCheckIInv, RespondIInv
     DEF Saga

\* Every step of the system keeps the invariant, and so does a stutter.
LEMMA NextIInv == ASSUME IInv, OneEmailPerSubject, [Next]_vars PROVE IInv'
  <1>1. ASSUME NEW i \in Handlers, Receive(i) \/ AcquireLock(i) \/ Saga(i) PROVE IInv'
    BY <1>1, ReceiveIInv, AcquireLockIInv, SagaIInv
  <1>2. ASSUME NEW a \in Ids, Rotate(a) PROVE IInv'
    BY <1>2, RotateIInv
  <1>3. ASSUME NEW l \in Lineages, LateCreate(l) PROVE IInv'
    BY <1>3, LateCreateIInv
  <1>4. CASE Crash
    BY <1>4, CrashIInv
  <1>5. CASE UNCHANGED vars
    BY <1>5 DEF vars, IInv, TypeOK, LockHeld, Active, NamesOwn, TargetsOwned, SnapsSound,
       HoldsCandidate, PromotesVetted, HeldSound, GroupedIsTrusted, Grouped, Live, Trusted,
       Rotated
  <1>6. QED
    BY <1>1, <1>2, <1>3, <1>4, <1>5 DEF Next

\* If no identity is pushed under two emails, the invariant always holds
\* (bridge.py:880-1100 as a whole).
THEOREM Invariance == ASSUME OneEmailPerSubject PROVE Spec => []IInv
  <1>1. IInv /\ [Next]_vars => IInv'
    BY NextIInv
  <1>2. QED
    BY <1>1, InitIInv, PTL DEF Spec

\* The state keeps its types.
THEOREM TypeCorrect == ASSUME OneEmailPerSubject PROVE Spec => []TypeOK
  <1>1. IInv => TypeOK
    BY DEF IInv
  <1>2. QED
    BY <1>1, Invariance, PTL

\* Traffic only ever reaches credentials that were tested or refreshed, for any
\* number of handlers, accounts and grants (bridge.py:992).
THEOREM RoutingIsTrusted == ASSUME OneEmailPerSubject PROVE Spec => []RoutableIsTrusted
  <1>1. IInv => RoutableIsTrusted
    BY DEF IInv, GroupedIsTrusted, RoutableIsTrusted, Routable
  <1>2. QED
    BY <1>1, Invariance, PTL

\* The email lock makes each account's saga exclusive (bridge.py:223-238).
THEOREM SagasExclude == ASSUME OneEmailPerSubject PROVE Spec => []OneSagaPerAccount
  <1>1. IInv => OneSagaPerAccount
    BY OneOwner DEF OneSagaPerAccount, Working
  <1>2. QED
    BY <1>1, Invariance, PTL

-----------------------------------------------------------------------------
(* The answers and the principals: PromiseInv.                             *)

\* What a token is compared with: the head of its grant.
NoNewer(c) == c.iat <= head[c.lin]

\* Every handler but i is as it was.
OthersAlone(i) ==
  \A j \in Handlers : j # i =>
    /\ pc'[j] = pc[j] /\ cand'[j] = cand[j] /\ acc'[j] = acc[j]
    /\ snap'[j] = snap[j] /\ held'[j] = held[j] /\ resp'[j] = resp[j]

\* A step of handler i writes its own row only, which keeps its principal, or
\* adds a row in no group.
OwnRows(i) ==
  \A a \in Ids :
    \/ acct'[a] = acct[a]
    \/ acct[a] = None /\ acct'[a] # None /\ NoNewer(acct'[a].cred) /\ ~acct'[a].grouped
    \/ /\ a = acc[i] /\ acct'[a] # None /\ NoNewer(acct'[a].cred)
       /\ SubjectOf[acct'[a].cred.lin] = SubjectOf[cand[i]]

\* What the lemmas below show of each step of a handler.
SagaStep(i) ==
  /\ head' = head /\ vetted \subseteq vetted'
  /\ OthersAlone(i) /\ OwnRows(i)
  /\ snap'[i] # None => NoNewer(snap'[i].cred)
  /\ held'[i] # None => NoNewer(held'[i])
  /\ HandlerInv(i)'

\* A handler whose variables and row a step leaves alone knows what it knew.
LEMMA Untouched ==
  ASSUME NEW j \in Handlers, HandlerInv(j),
         pc'[j] = pc[j], cand'[j] = cand[j], acc'[j] = acc[j],
         snap'[j] = snap[j], held'[j] = held[j], resp'[j] = resp[j],
         vetted \subseteq vetted',
         TargetsOwned, SnapsSound, acc[j] = None \/ acct'[acc[j]] = acct[acc[j]]
  PROVE  HandlerInv(j)'
  <1>1. IdleIsClean(j)' /\ DeletesCreated(j)' /\ RestoresOwn(j)'
    BY DEF HandlerInv, IdleIsClean, DeletesCreated, RestoresOwn, Rotated
  <1>2. PrincipalKnown(j)'
    BY DEF HandlerInv, PrincipalKnown
  <1>3. QuarantinesRotated(j)'
    BY DEF HandlerInv, QuarantinesRotated, HoldsRotated, Rotated, TargetsOwned, OnRow
  <1>4. ASSUME pc[j] = "respond", resp[j] = "imported" PROVE Serves(j)'
    BY <1>4 DEF HandlerInv, AnswerIsTrue, Serves, Routable, Grouped, Live
  <1>5. ASSUME pc[j] = "respond", resp[j] = "rolledBack" PROVE Undone(j)'
    <2>1. Undone(j)
      BY <1>5 DEF HandlerInv, AnswerIsTrue
    <2>2. CASE snap[j] = None
      BY <2>1, <2>2 DEF Undone, Live
    <2>3. CASE snap[j] # None
      <3>1. acc[j] # None
        BY <2>3 DEF SnapsSound
      <3>2. QED
        BY <2>1, <2>3, <3>1 DEF Undone, Live, Rotated
    <2>4. QED
      BY <2>2, <2>3
  <1>6. ASSUME pc[j] = "respond", resp[j] = "quarantined"
        PROVE  (Live(acc[j]) /\ ~Routable(acc[j]) /\ HoldsRotated(j))'
    BY <1>6 DEF HandlerInv, AnswerIsTrue, Routable, Grouped, Live, HoldsRotated, Rotated
  <1>7. AnswerIsTrue(j)'
    BY <1>4, <1>5, <1>6 DEF HandlerInv, AnswerIsTrue
  <1>8. QED
    BY <1>1, <1>2, <1>3, <1>7 DEF HandlerInv

\* The types of what a handler works with.
LEMMA Holdings ==
  ASSUME IInv, NEW i \in Handlers
  PROVE  /\ acc[i] # None => acc[i] \in Ids /\ acct[acc[i]] \in Account
         /\ snap[i] # None => snap[i] \in Account
         /\ held[i] # None => held[i] \in Cred
         /\ pc[i] # "idle" => cand[i] \in Lineages
  BY DEF IInv, TypeOK, TargetsOwned, LockHeld

\* Such a step of one handler keeps the invariant of all.
LEMMA SagaKeeps ==
  ASSUME PromiseInv, IInv', NEW i \in Handlers, SagaStep(i) PROVE PromiseInv'
  <1>1. IInv /\ HeadIsNewest /\ (\A j \in Handlers : HandlerInv(j))
    BY DEF PromiseInv
  <1>2. /\ head' = head /\ vetted \subseteq vetted' /\ OthersAlone(i) /\ OwnRows(i)
        /\ snap'[i] # None => NoNewer(snap'[i].cred)
        /\ held'[i] # None => NoNewer(held'[i])
        /\ HandlerInv(i)'
    BY DEF SagaStep
  <1>3. HeadIsNewest'
    <2>1. \A a \in Ids : acct'[a] # None => NoNewer(acct'[a].cred)
      BY <1>1, <1>2 DEF OwnRows, HeadIsNewest, NoNewer
    <2>2. \A j \in Handlers : /\ snap'[j] # None => NoNewer(snap'[j].cred)
                              /\ held'[j] # None => NoNewer(held'[j])
      BY <1>1, <1>2 DEF OthersAlone, HeadIsNewest, NoNewer
    <2>3. QED
      BY <1>1, <1>2, <2>1, <2>2 DEF HeadIsNewest, NoNewer
  <1>4. ASSUME NEW j \in Handlers, j # i PROVE HandlerInv(j)'
    <2>1. ASSUME acc[j] # None PROVE acct'[acc[j]] = acct[acc[j]]
      <3>1. acc[j] # acc[i]
        BY <1>1, <1>4, <2>1, OneOwner
      <3>2. acc[j] \in Ids /\ acct[acc[j]] # None
        BY <1>1, <2>1, Holdings DEF IInv, TargetsOwned
      <3>3. QED
        BY <1>2, <3>1, <3>2 DEF OwnRows
    <2>2. TargetsOwned /\ SnapsSound
      BY <1>1 DEF IInv
    <2>3. /\ pc'[j] = pc[j] /\ cand'[j] = cand[j] /\ acc'[j] = acc[j]
          /\ snap'[j] = snap[j] /\ held'[j] = held[j] /\ resp'[j] = resp[j]
      BY <1>2, <1>4 DEF OthersAlone
    <2>4. QED
      BY <1>1, <1>2, <2>1, <2>2, <2>3, Untouched
  <1>5. QED
    BY <1>2, <1>3, <1>4 DEF PromiseInv

\* Nor does it put a principal's credentials into another's account.
LEMMA SagaKeepsPrincipals ==
  ASSUME PromiseInv, NEW i \in Handlers, SagaStep(i), NEW a \in Ids, Live(a), Live(a)'
  PROVE  SubjectOf[acct'[a].cred.lin] = SubjectOf[acct[a].cred.lin]
  <1>1. CASE acct'[a] = acct[a]
    BY <1>1
  <1>2. CASE a = acc[i] /\ SubjectOf[acct'[a].cred.lin] = SubjectOf[cand[i]]
    <2>1. a # None
      BY NoneAssumption
    <2>2. QED
      BY <1>2, <2>1 DEF PromiseInv, HandlerInv, PrincipalKnown
  <1>3. QED
    BY <1>1, <1>2 DEF SagaStep, OwnRows, Live

-----------------------------------------------------------------------------
(* The steps of a handler, one by one.                                     *)

\* A write to the own row that keeps the principal.
LEMMA OwnWrite ==
  ASSUME PromiseInv, NEW i \in Handlers, acc[i] # None, NEW out, NEW row \in Account,
         NoNewer(row.cred), SubjectOf[row.cred.lin] = SubjectOf[cand[i]],
         Store(acc[i], out, row)
  PROVE  OwnRows(i)
  <1>1. row # None
    BY NoneAssumption
  <1>2. acct \in [Ids -> Account \cup {None}]
    BY DEF PromiseInv, IInv, TypeOK
  <1>3. QED
    BY <1>1, <1>2 DEF Store, OwnRows

\* The row as it is, with other flags, is such a row.
LEMMA OwnFlags ==
  ASSUME PromiseInv, NEW i \in Handlers, acc[i] # None, NEW row \in Account,
         row.cred = acct[acc[i]].cred
  PROVE  NoNewer(row.cred) /\ SubjectOf[row.cred.lin] = SubjectOf[cand[i]]
  <1>1. acc[i] \in Ids /\ acct[acc[i]] # None
    BY Holdings DEF PromiseInv, IInv, TargetsOwned
  <1>2. QED
    BY <1>1 DEF PromiseInv, HeadIsNewest, NoNewer, HandlerInv, PrincipalKnown

\* What the next stage of a handler asks of a step that keeps its choices.
LEMMA HandlerNext ==
  ASSUME PromiseInv, NEW i \in Handlers, OwnRows(i), NEW next, pc'[i] = next, next # "idle",
         cand'[i] = cand[i], acc'[i] = acc[i], snap'[i] = snap[i],
         next \in {"delete", "deleteCheck"} => snap[i] = None,
         next \in {"restore", "restoreSched", "restoreCheck"} =>
           /\ held'[i] # None
           /\ \/ held'[i].lin = snap[i].cred.lin
              \/ held'[i].lin = cand[i] /\ Rotated(held'[i]),
         next \in {"quarGroup", "quarSched", "quarCheck"} =>
           resp'[i] = "unknown" \/ HoldsRotated(i)',
         next = "respond" => AnswerIsTrue(i)'
  PROVE  HandlerInv(i)'
  <1>1. PrincipalKnown(i)
    BY DEF PromiseInv, HandlerInv
  <1>2. ASSUME acc[i] # None PROVE SubjectOf[acct'[acc[i]].cred.lin] = SubjectOf[cand[i]]
    <2>1. acc[i] \in Ids /\ acct[acc[i]] # None
      BY <1>2, Holdings DEF PromiseInv, IInv, TargetsOwned
    <2>2. QED
      BY <1>1, <1>2, <2>1 DEF OwnRows, PrincipalKnown
  <1>3. PrincipalKnown(i)'
    BY <1>1, <1>2 DEF PrincipalKnown
  <1>4. IdleIsClean(i)' /\ DeletesCreated(i)' /\ QuarantinesRotated(i)' /\ AnswerIsTrue(i)'
    BY DEF IdleIsClean, DeletesCreated, QuarantinesRotated, AnswerIsTrue
  <1>5. RestoresOwn(i)'
    BY DEF RestoresOwn, Rotated
  <1>6. QED
    BY <1>3, <1>4, <1>5 DEF HandlerInv

\* The step does not end in an answer "imported".
Untold(i) == ~(pc'[i] = "respond" /\ resp'[i] = "imported")

\* The frame that most steps share: the choices of handler i stay.
LEMMA ChoicesStay ==
  ASSUME PromiseInv, NEW i \in Handlers, OwnRows(i), HandlerInv(i)',
         vetted \subseteq vetted', UNCHANGED <<head, cand, acc, snap, held>>,
         NEW next \in Stages, Goto(i, next),
         \A j \in Handlers : j # i => resp'[j] = resp[j]
  PROVE  SagaStep(i)
  <1>1. OthersAlone(i)
    BY DEF OthersAlone, Goto, PromiseInv, IInv, TypeOK
  <1>2. /\ snap'[i] # None => NoNewer(snap'[i].cred)
        /\ held'[i] # None => NoNewer(held'[i])
    BY DEF PromiseInv, HeadIsNewest, NoNewer
  <1>3. QED
    BY <1>1, <1>2 DEF SagaStep

\* A call of the forward path.
LEMMA CallSaga ==
  ASSUME PromiseInv, NEW i \in Handlers, acc[i] # None, NEW row \in Account,
         NoNewer(row.cred), SubjectOf[row.cred.lin] = SubjectOf[cand[i]],
         NEW from, NEW next \in {"isolate", "test", "enable", "confirm"}, NEW c,
         Call(i, from, row, next, c)
  PROVE  SagaStep(i) /\ Untold(i)
  <1>1. PICK out \in Outcomes(acc[i]) :
          /\ Store(acc[i], out, row)
          /\ IF out = "ok" THEN Goto(i, next) /\ UNCHANGED cause ELSE RollBack(i, c)
    BY DEF Call
  <1>2. UNCHANGED <<head, late, vetted, lock, cand, acc, snap, held, resp>>
    BY DEF Call
  <1>3. OwnRows(i)
    BY <1>1, OwnWrite
  <1>4. ASSUME NEW n \in {"isolate", "test", "enable", "confirm", "rollback"}, Goto(i, n)
        PROVE  SagaStep(i) /\ Untold(i)
    <2>1. pc'[i] = n
      BY <1>4 DEF Goto, PromiseInv, IInv, TypeOK
    <2>2. n \in Stages
      BY DEF Stages
    <2>3. HandlerInv(i)'
      BY <1>2, <1>3, <2>1, HandlerNext
    <2>4. SagaStep(i)
      BY <1>2, <1>3, <1>4, <2>2, <2>3, ChoicesStay
    <2>5. QED
      BY <2>1, <2>4 DEF Untold
  <1>5. QED
    BY <1>1, <1>4 DEF RollBack

\* The PUT of the candidate, whose principal the lookup compared with the row's.
LEMMA UpdateSaga == ASSUME PromiseInv, NEW i \in Handlers, Update(i) PROVE SagaStep(i) /\ Untold(i)
  <1>1. PICK sched \in {FALSE, acct[acc[i]].sched} :
          Call(i, "update", Candidate(cand[i], snap[i].name, sched), "isolate", "write")
    BY DEF Update
  <1>2. acc[i] # None /\ snap[i] # None /\ cand[i] # None
    BY DEF Update, PromiseInv, IInv, TargetsOwned, SnapsSound, OnRow, Restoring, LockHeld
  <1>3. cand[i] \in Lineages /\ snap[i] \in Account /\ sched \in BOOLEAN
    BY <1>2, RowType DEF PromiseInv, IInv, TypeOK, Account
  <1> DEFINE row == Candidate(cand[i], snap[i].name, sched)
  <1>4. row \in Account /\ row.cred.lin = cand[i] /\ row.cred.iat = MintedAt[cand[i]]
    BY <1>3, CandidateType DEF Account, Candidate
  <1>5. NoNewer(row.cred)
    BY <1>3, <1>4 DEF NoNewer, PromiseInv, HeadIsNewest
  <1> HIDE DEF row
  <1>6. Call(i, "update", row, "isolate", "write")
    BY <1>1 DEF row
  <1>7. QED
    BY <1>2, <1>4, <1>5, <1>6, CallSaga

\* The calls that set a flag of the row.
LEMMA FlagCallSaga ==
  ASSUME PromiseInv, NEW i \in Handlers, Isolate(i) \/ Group(i) \/ Enable(i)
  PROVE  SagaStep(i) /\ Untold(i)
  <1>1. pc[i] \in {"isolate", "group", "enable"}
    BY DEF Isolate, Group, Enable, Call
  <1>2. acc[i] # None
    BY <1>1 DEF PromiseInv, IInv, TargetsOwned, OnRow
  <1>3. acct[acc[i]] \in Account
    BY <1>2, Holdings DEF PromiseInv
  <1>4. ASSUME NEW row \in Account, row.cred = acct[acc[i]].cred,
               NEW from, NEW next \in {"test", "enable", "confirm"}, NEW c,
               Call(i, from, row, next, c)
        PROVE  SagaStep(i) /\ Untold(i)
    BY <1>2, <1>4, OwnFlags, CallSaga
  <1>5. CASE Isolate(i)
    <2> DEFINE row == [acct[acc[i]] EXCEPT !.sched = FALSE]
    <2>1. row \in Account /\ row.cred = acct[acc[i]].cred
      BY <1>3 DEF Account
    <2>2. Call(i, "isolate", row, "test", "isolate")
      BY <1>5 DEF Isolate
    <2> HIDE DEF row
    <2>3. QED
      BY <1>4, <2>1, <2>2
  <1>6. CASE Group(i)
    <2> DEFINE row == [acct[acc[i]] EXCEPT !.grouped = TRUE]
    <2>1. row \in Account /\ row.cred = acct[acc[i]].cred
      BY <1>3 DEF Account
    <2>2. Call(i, "group", row, "enable", "promote")
      BY <1>6 DEF Group
    <2> HIDE DEF row
    <2>3. QED
      BY <1>4, <2>1, <2>2
  <1>7. CASE Enable(i)
    <2> DEFINE row == [acct[acc[i]] EXCEPT !.sched = TRUE]
    <2>1. row \in Account /\ row.cred = acct[acc[i]].cred
      BY <1>3 DEF Account
    <2>2. Call(i, "enable", row, "confirm", "promote")
      BY <1>7 DEF Enable
    <2> HIDE DEF row
    <2>3. QED
      BY <1>4, <2>1, <2>2
  <1>8. QED
    BY <1>5, <1>6, <1>7

\* A step that ends the push with an answer which is true.
LEMMA AnswerSaga ==
  ASSUME PromiseInv, NEW i \in Handlers, NEW r \in Answers, Answer(i, r),
         UNCHANGED <<acct, head, vetted, cand, acc, snap, held>>,
         r \in {"imported", "quarantined"} => acc[i] # None,
         r = "imported" => Serves(i),
         r = "rolledBack" => Undone(i),
         r = "quarantined" => Live(acc[i]) /\ ~Routable(acc[i]) /\ HoldsRotated(i)
  PROVE  SagaStep(i) /\ pc'[i] = "respond" /\ resp'[i] = r
  <1>1. pc'[i] = "respond" /\ resp'[i] = r /\ Goto(i, "respond")
        /\ \A j \in Handlers : j # i => resp'[j] = resp[j]
    BY DEF Answer, Goto, PromiseInv, IInv, TypeOK
  <1>2. OwnRows(i)
    BY DEF OwnRows
  <1>3. r = "imported" => Serves(i)'
    BY DEF Serves, Routable, Grouped, Live
  <1>4. r = "rolledBack" => Undone(i)'
    BY DEF Undone, Live, Rotated
  <1>5. r = "quarantined" => (Live(acc[i]) /\ ~Routable(acc[i]) /\ HoldsRotated(i))'
    BY DEF Routable, Grouped, Live, HoldsRotated, Rotated
  <1>6. AnswerIsTrue(i)'
    BY <1>1, <1>3, <1>4, <1>5 DEF AnswerIsTrue
  <1>7. HandlerInv(i)'
    BY <1>1, <1>2, <1>6, HandlerNext
  <1>8. "respond" \in Stages
    BY DEF Stages
  <1>9. SagaStep(i)
    BY <1>1, <1>2, <1>7, <1>8, ChoicesStay
  <1>10. QED
    BY <1>1, <1>9

\* An answer that promises nothing.
LEMMA RefusalSaga ==
  ASSUME PromiseInv, NEW i \in Handlers, NEW r \in {"rejected", "importFailed", "unknown"},
         Answer(i, r), UNCHANGED <<acct, head, vetted, cand, acc, snap, held>>
  PROVE  SagaStep(i) /\ Untold(i)
  <1>1. r \in Answers /\ r \notin {"imported", "quarantined", "rolledBack"}
    BY DEF Answers
  <1>2. QED
    BY <1>1, AnswerSaga DEF Untold

\* A step that goes on to a stage which asks nothing of it.
LEMMA GoOnSaga ==
  ASSUME PromiseInv, NEW i \in Handlers, UNCHANGED <<acct, head, cand, acc, snap, resp>>,
         vetted \subseteq vetted', UNCHANGED held,
         NEW next \in {"probe", "find", "create", "verify", "group", "rollback"}, Goto(i, next)
  PROVE  SagaStep(i) /\ Untold(i)
  <1>1. pc'[i] = next /\ next \in Stages
    BY DEF Goto, PromiseInv, IInv, TypeOK, Stages
  <1>2. OwnRows(i)
    BY DEF OwnRows
  <1>3. HandlerInv(i)'
    BY <1>1, <1>2, HandlerNext
  <1>4. SagaStep(i)
    BY <1>1, <1>2, <1>3, ChoicesStay
  <1>5. QED
    BY <1>1, <1>4 DEF Untold

\* The checks before the first write.
LEMMA PreprobeSaga ==
  ASSUME PromiseInv, NEW i \in Handlers, Preprobe(i) PROVE SagaStep(i) /\ Untold(i)
  <1>1. UNCHANGED <<remote, lock, cand, acc, snap, held, cause>>
    BY DEF Preprobe
  <1>2. CASE Goto(i, "find") /\ UNCHANGED resp
    BY <1>1, <1>2, GoOnSaga DEF remote
  <1>3. CASE Answer(i, "rejected")
    BY <1>1, <1>3, RefusalSaga DEF remote
  <1>4. QED
    BY <1>2, <1>3 DEF Preprobe

\* The lookup: the row it chooses is the pushed principal's.
LEMMA FindSaga ==
  ASSUME PromiseInv, NEW i \in Handlers, Find(i) PROVE SagaStep(i) /\ Untold(i)
  <1>1. pc[i] = "find" /\ UNCHANGED <<remote, lock, cand, held, cause>>
    BY DEF Find
  <1>2. ASSUME NEW r \in {"rejected", "importFailed"}, Answer(i, r), UNCHANGED <<acc, snap>>
        PROVE  SagaStep(i) /\ Untold(i)
    BY <1>1, <1>2, RefusalSaga DEF remote
  <1>3. CASE Goto(i, "create") /\ UNCHANGED <<acc, snap, resp>>
    BY <1>1, <1>3, GoOnSaga DEF remote
  <1>4. ASSUME NEW a \in Ids, Matches(i) = {a}, ~SubjectMismatch(a, i),
               acc' = [acc EXCEPT ![i] = a], snap' = [snap EXCEPT ![i] = acct[a]],
               Goto(i, "update"), UNCHANGED resp
        PROVE  SagaStep(i) /\ Untold(i)
    <2>1. acct[a] # None /\ SubjectOf[acct[a].cred.lin] = SubjectOf[cand[i]]
      BY <1>4 DEF Matches, Live, SubjectMismatch
    <2>2. pc'[i] = "update" /\ acc'[i] = a /\ snap'[i] = acct[a] /\ OthersAlone(i)
      BY <1>1, <1>4 DEF Goto, OthersAlone, PromiseInv, IInv, TypeOK
    <2>3. NoNewer(acct[a].cred)
      BY <2>1 DEF PromiseInv, HeadIsNewest, NoNewer
    <2>4. HandlerInv(i)'
      BY <1>1, <2>1, <2>2 DEF remote, HandlerInv, IdleIsClean, PrincipalKnown, DeletesCreated,
         RestoresOwn, QuarantinesRotated, AnswerIsTrue
    <2>5. held[i] # None => NoNewer(held[i])
      BY DEF PromiseInv, HeadIsNewest, NoNewer
    <2>6. SagaStep(i)
      BY <1>1, <2>2, <2>3, <2>4, <2>5 DEF remote, SagaStep, OwnRows, NoNewer
    <2>7. QED
      BY <2>2, <2>6 DEF Untold
  <1>5. QED
    BY <1>2, <1>3, <1>4 DEF Find

\* The lookup after a create that raised does the same.
LEMMA LookupSaga ==
  ASSUME PromiseInv, NEW i \in Handlers, Lookup(i) PROVE SagaStep(i) /\ Untold(i)
  <1>1. pc[i] = "lookup" /\ UNCHANGED <<remote, lock, cand, snap, held, cause>>
    BY DEF Lookup
  <1>2. ASSUME NEW r \in {"unknown", "importFailed"}, Answer(i, r), UNCHANGED acc
        PROVE  SagaStep(i) /\ Untold(i)
    BY <1>1, <1>2, RefusalSaga DEF remote
  <1>3. ASSUME NEW a \in Ids, MatchesByName(i) = {a}, ~SubjectMismatch(a, i),
               acc' = [acc EXCEPT ![i] = a], Goto(i, "rollback"), UNCHANGED resp
        PROVE  SagaStep(i) /\ Untold(i)
    <2>1. acct[a] # None /\ SubjectOf[acct[a].cred.lin] = SubjectOf[cand[i]]
      BY <1>3 DEF MatchesByName, Live, SubjectMismatch
    <2>2. pc'[i] = "rollback" /\ acc'[i] = a /\ OthersAlone(i)
      BY <1>1, <1>3 DEF Goto, OthersAlone, PromiseInv, IInv, TypeOK
    <2>3. snap[i] # None => SubjectOf[snap[i].cred.lin] = SubjectOf[cand[i]]
      BY DEF PromiseInv, HandlerInv, PrincipalKnown
    <2>4. HandlerInv(i)'
      BY <1>1, <2>1, <2>2, <2>3 DEF remote, HandlerInv, IdleIsClean, PrincipalKnown,
         DeletesCreated, RestoresOwn, QuarantinesRotated, AnswerIsTrue
    <2>5. /\ snap[i] # None => NoNewer(snap[i].cred)
          /\ held[i] # None => NoNewer(held[i])
      BY DEF PromiseInv, HeadIsNewest, NoNewer
    <2>6. SagaStep(i)
      BY <1>1, <2>2, <2>4, <2>5 DEF remote, SagaStep, OwnRows, NoNewer
    <2>7. QED
      BY <2>2, <2>6 DEF Untold
  <1>4. QED
    BY <1>2, <1>3 DEF Lookup

\* A row that Sub2API adds for a grant is no newer than its head and in no group.
LEMMA AddedRow ==
  ASSUME PromiseInv, NEW l \in Lineages, NEW a \in Ids, NEW sched \in BOOLEAN, acct[a] = None,
         acct' = [acct EXCEPT ![a] = Candidate(l, EmailOf[l], sched)]
  PROVE  /\ acct'[a] # None /\ NoNewer(acct'[a].cred) /\ ~acct'[a].grouped
         /\ acct'[a].cred.lin = l
         /\ \A b \in Ids : b # a => acct'[b] = acct[b]
  <1> DEFINE row == Candidate(l, EmailOf[l], sched)
  <1>1. EmailOf[l] \in Emails
    BY ConstantsAssumption
  <1>2. row \in Account /\ ~row.grouped /\ row.cred.lin = l /\ row.cred.iat = MintedAt[l]
    BY <1>1, CandidateType DEF Candidate
  <1>3. NoNewer(row.cred)
    BY <1>2 DEF NoNewer, PromiseInv, HeadIsNewest
  <1>4. row # None
    BY <1>2, NoneAssumption
  <1>5. acct \in [Ids -> Account \cup {None}] /\ acct' = [acct EXCEPT ![a] = row]
    BY DEF PromiseInv, IInv, TypeOK
  <1> HIDE DEF row
  <1>6. QED
    BY <1>2, <1>3, <1>4, <1>5

\* The POST: a row is added, whether the bridge learns its id or not.
LEMMA CreateSaga ==
  ASSUME PromiseInv, NEW i \in Handlers, Create(i) PROVE SagaStep(i) /\ Untold(i)
  <1>1. pc[i] = "create" /\ UNCHANGED <<head, vetted, lock, cand, snap, held, resp>>
    BY DEF Create
  <1>2. cand[i] \in Lineages
    BY <1>1, Holdings DEF PromiseInv
  <1>3. acc[i] = None \/ (acc[i] \in Ids /\ acct[acc[i]] # None)
    BY Holdings DEF PromiseInv, IInv, TargetsOwned
  <1>4. /\ snap[i] # None => NoNewer(snap[i].cred)
        /\ held[i] # None => NoNewer(held[i])
    BY DEF PromiseInv, HeadIsNewest, NoNewer
  <1>5. ASSUME NEW a \in Ids, NEW sched \in BOOLEAN, acct[a] = None,
               acct' = [acct EXCEPT ![a] = Candidate(cand[i], EmailOf[cand[i]], sched)]
        PROVE  OwnRows(i) /\ acct'[a].cred.lin = cand[i]
    <2>1. PICK l \in Lineages : l = cand[i]
      BY <1>2
    <2>2. acct[a] = None /\ acct' = [acct EXCEPT ![a] = Candidate(l, EmailOf[l], sched)]
      BY <1>5, <2>1
    <2>3. \A b \in Ids : b # a => acct'[b] = acct[b]
      BY <2>2, AddedRow
    <2>4. acct'[a].cred.lin = l /\ acct'[a] # None /\ NoNewer(acct'[a].cred) /\ ~acct'[a].grouped
      BY <2>2, AddedRow
    <2>5. OwnRows(i)
      BY <2>2, <2>3, <2>4 DEF OwnRows
    <2>6. QED
      BY <2>1, <2>4, <2>5
  <1>6. ASSUME OwnRows(i), Goto(i, "lookup"), UNCHANGED acc PROVE SagaStep(i) /\ Untold(i)
    <2>1. pc'[i] = "lookup" /\ "lookup" \in Stages
      BY <1>6 DEF Goto, PromiseInv, IInv, TypeOK, Stages
    <2>2. HandlerInv(i)'
      BY <1>1, <1>6, <2>1, HandlerNext
    <2>3. SagaStep(i)
      BY <1>1, <1>6, <2>1, <2>2, ChoicesStay
    <2>4. QED
      BY <2>1, <2>3 DEF Untold
  <1>7. ASSUME NEW a \in Ids, OwnRows(i), acct'[a].cred.lin = cand[i],
               acc' = [acc EXCEPT ![i] = a], Goto(i, "isolate")
        PROVE  SagaStep(i) /\ Untold(i)
    <2>1. pc'[i] = "isolate" /\ acc'[i] = a /\ OthersAlone(i)
      BY <1>1, <1>7 DEF Goto, OthersAlone, PromiseInv, IInv, TypeOK
    <2>2. snap[i] # None => SubjectOf[snap[i].cred.lin] = SubjectOf[cand[i]]
      BY DEF PromiseInv, HandlerInv, PrincipalKnown
    <2>3. HandlerInv(i)'
      BY <1>1, <1>7, <2>1, <2>2 DEF HandlerInv, IdleIsClean, PrincipalKnown, DeletesCreated,
         RestoresOwn, QuarantinesRotated, AnswerIsTrue
    <2>4. SagaStep(i)
      BY <1>1, <1>4, <1>7, <2>1, <2>3 DEF SagaStep, NoNewer
    <2>5. QED
      BY <2>1, <2>4 DEF Untold
  <1>8. UNCHANGED acct => OwnRows(i)
    BY DEF OwnRows
  <1>9. QED
    BY <1>5, <1>6, <1>7, <1>8 DEF Create

\* The account test.
LEMMA TestSaga ==
  ASSUME PromiseInv, NEW i \in Handlers, Test(i) PROVE SagaStep(i) /\ Untold(i)
  <1>1. UNCHANGED <<acct, head, late, lock, cand, acc, snap, held, resp>>
    BY DEF Test
  <1>2. CASE vetted' = vetted \cup {acct[acc[i]].cred.lin} /\ Goto(i, "verify")
    BY <1>1, <1>2, GoOnSaga
  <1>3. ASSUME NEW c, RollBack(i, c), UNCHANGED vetted PROVE SagaStep(i) /\ Untold(i)
    BY <1>1, <1>3, GoOnSaga DEF RollBack
  <1>4. QED
    BY <1>2, <1>3 DEF Test

\* The fingerprint before the promotion.
LEMMA VerifySaga ==
  ASSUME PromiseInv, NEW i \in Handlers, Verify(i) PROVE SagaStep(i) /\ Untold(i)
  <1>1. pc[i] = "verify" /\ UNCHANGED <<remote, lock, cand, acc, snap, resp>>
    BY DEF Verify
  <1>2. CASE RollBack(i, "promote") /\ UNCHANGED held
    BY <1>1, <1>2, GoOnSaga DEF RollBack, remote
  <1>3. CASE held' = [held EXCEPT ![i] = acct[acc[i]].cred] /\ Goto(i, "group")
    <2>1. pc'[i] = "group" /\ held'[i] = acct[acc[i]].cred /\ OthersAlone(i)
      BY <1>1, <1>3 DEF Goto, OthersAlone, PromiseInv, IInv, TypeOK
    <2>2. acc[i] \in Ids /\ acct[acc[i]] # None
      BY <1>1, Holdings DEF PromiseInv, IInv, TargetsOwned, OnRow
    <2>3. NoNewer(acct[acc[i]].cred) /\ (snap[i] # None => NoNewer(snap[i].cred))
      BY <2>2 DEF PromiseInv, HeadIsNewest, NoNewer
    <2>4. OwnRows(i)
      BY <1>1 DEF OwnRows, remote
    <2>5. HandlerInv(i)'
      BY <1>1, <2>1, <2>4, HandlerNext
    <2>6. SagaStep(i)
      BY <1>1, <2>1, <2>3, <2>4, <2>5 DEF SagaStep, NoNewer, remote
    <2>7. QED
      BY <2>1, <2>6 DEF Untold
  <1>4. QED
    BY <1>2, <1>3 DEF Verify

\* The fingerprint after the promotion: what it compares makes the answer true.
LEMMA ConfirmSaga ==
  ASSUME PromiseInv, NEW i \in Handlers, Confirm(i)
  PROVE  /\ SagaStep(i) /\ UNCHANGED remote
         /\ Untold(i) \/ (Serves(i) /\ pc'[i] = "respond" /\ resp'[i] = "imported")
  <1>1. pc[i] = "confirm" /\ UNCHANGED <<remote, lock, cand, acc, snap, held>>
    BY DEF Confirm
  <1>2. CASE RollBack(i, "promote") /\ UNCHANGED resp
    BY <1>1, <1>2, GoOnSaga DEF RollBack, remote
  <1>3. CASE Routable(acc[i]) /\ Answer(i, "imported")
    <2>1. acc[i] # None /\ acct[acc[i]].cred.lin = cand[i] /\ cand[i] \in vetted
      BY <1>1 DEF PromiseInv, IInv, TargetsOwned, OnRow, HoldsCandidate, PromotesVetted
    <2>2. Serves(i)
      BY <1>3, <2>1 DEF Serves
    <2>3. "imported" \in Answers
      BY DEF Answers
    <2>4. QED
      BY <1>1, <1>3, <2>1, <2>2, <2>3, AnswerSaga DEF remote
  <1>4. QED
    BY <1>2, <1>3 DEF Confirm

-----------------------------------------------------------------------------
(* The way back.                                                           *)

\* A call of the rollback raised.
LEMMA RaiseSaga ==
  ASSUME PromiseInv, NEW i \in Handlers, Raise(i),
         UNCHANGED <<remote, lock, cand, acc, snap, held>>
  PROVE  SagaStep(i) /\ Untold(i)
  <1>1. CASE RollBack(i, "testError") /\ UNCHANGED resp
    BY <1>1, GoOnSaga DEF RollBack, remote
  <1>2. CASE Answer(i, "importFailed")
    BY <1>2, RefusalSaga DEF remote
  <1>3. QED
    BY <1>1, <1>2 DEF Raise

\* A rollback that failed says so, or leaves a quarantine to be tried.
LEMMA UnfinishedSaga ==
  ASSUME PromiseInv, NEW i \in Handlers, Unfinished(i) \/ QuarantineFails(i), OwnRows(i),
         UNCHANGED <<head, vetted, lock, cand, acc, snap, held>>
  PROVE  SagaStep(i) /\ Untold(i)
  <1>1. PICK next \in {"quarGroup", "respond"} : Goto(i, next)
    BY DEF Unfinished, QuarantineFails, QuarantineEnds
  <1>2. pc'[i] = next /\ resp'[i] = "unknown" /\ \A j \in Handlers : j # i => resp'[j] = resp[j]
    BY <1>1 DEF Unfinished, QuarantineFails, QuarantineEnds, Goto, PromiseInv, IInv, TypeOK
  <1>3. AnswerIsTrue(i)' /\ next \in Stages
    BY <1>2 DEF AnswerIsTrue, Stages
  <1>4. HandlerInv(i)'
    BY <1>2, <1>3, HandlerNext
  <1>5. SagaStep(i)
    BY <1>1, <1>2, <1>3, <1>4, ChoicesStay
  <1>6. QED
    BY <1>2, <1>5 DEF Untold

\* The choice of what to undo for a created account: a token that Sub2API has
\* rotated since is kept, and it is the candidate's.
LEMMA UndoCreateSaga ==
  ASSUME PromiseInv, NEW i \in Handlers, UndoCreate(i) PROVE SagaStep(i) /\ Untold(i)
  <1>1. /\ pc[i] = "rollback" /\ snap[i] = None
        /\ UNCHANGED <<remote, lock, cand, acc, snap, held>>
    BY DEF UndoCreate
  <1>2. CASE Raise(i)
    BY <1>1, <1>2, RaiseSaga
  <1>3. ASSUME NEW next \in {"quarGroup", "delete"}, Goto(i, next), UNCHANGED resp,
               next = "quarGroup" => cause[i] \in Preserving /\ Advanced(acc[i], i)
        PROVE  SagaStep(i) /\ Untold(i)
    <2>1. pc'[i] = next /\ next \in Stages
      BY <1>3 DEF Goto, PromiseInv, IInv, TypeOK, Stages
    <2>2. next = "quarGroup" => HoldsRotated(i)
      BY <1>1, <1>3 DEF PromiseInv, IInv, HoldsCandidate, Advanced, HoldsRotated, Rotated
    <2>3. next = "quarGroup" => HoldsRotated(i)'
      BY <1>1, <2>2 DEF HoldsRotated, Rotated, remote
    <2>4. OwnRows(i)
      BY <1>1 DEF OwnRows, remote
    <2>5. HandlerInv(i)'
      BY <1>1, <2>1, <2>3, <2>4, HandlerNext
    <2>6. SagaStep(i)
      BY <1>1, <1>3, <2>1, <2>4, <2>5, ChoicesStay DEF remote
    <2>7. QED
      BY <2>1, <2>6 DEF Untold
  <1>4. QED
    BY <1>2, <1>3 DEF UndoCreate

\* The choice of the credentials a restore writes back.
LEMMA UndoUpdateSaga ==
  ASSUME PromiseInv, NEW i \in Handlers, UndoUpdate(i) PROVE SagaStep(i) /\ Untold(i)
  <1>1. /\ pc[i] = "rollback" /\ snap[i] # None
        /\ UNCHANGED <<remote, lock, cand, acc, snap>>
    BY DEF UndoUpdate
  <1>2. CASE Raise(i) /\ UNCHANGED held
    BY <1>1, <1>2, RaiseSaga
  <1>3. ASSUME NEW c, held' = [held EXCEPT ![i] = c],
               \/ c = snap[i].cred
               \/ cause[i] \in Preserving /\ Advanced(acc[i], i) /\ c = acct[acc[i]].cred,
               Goto(i, "restore"), UNCHANGED <<cause, resp>>
        PROVE  SagaStep(i) /\ Untold(i)
    <2>1. acc[i] \in Ids /\ snap[i] \in Account /\ acct[acc[i]] \in Account
          /\ acct[acc[i]] # None
      BY <1>1, Holdings DEF PromiseInv, IInv, SnapsSound, TargetsOwned
    <2>2. c \in Cred /\ c # None
      BY <1>3, <2>1, NoneAssumption DEF Account
    <2>3. NoNewer(c)
      BY <1>1, <1>3, <2>1 DEF PromiseInv, HeadIsNewest, NoNewer
    <2>4. c.lin = snap[i].cred.lin \/ (c.lin = cand[i] /\ Rotated(c))
      BY <1>1, <1>3 DEF PromiseInv, IInv, HoldsCandidate, Advanced, Rotated
    <2>5. pc'[i] = "restore" /\ held'[i] = c /\ OthersAlone(i)
      BY <1>1, <1>3 DEF Goto, OthersAlone, PromiseInv, IInv, TypeOK
    <2>6. OwnRows(i) /\ (snap[i] # None => NoNewer(snap[i].cred))
      BY <1>1 DEF OwnRows, remote, PromiseInv, HeadIsNewest, NoNewer
    <2>7. HandlerInv(i)'
      BY <1>1, <2>2, <2>4, <2>5, <2>6, HandlerNext
    <2>8. SagaStep(i)
      BY <1>1, <2>3, <2>5, <2>6, <2>7 DEF SagaStep, NoNewer, remote
    <2>9. QED
      BY <2>5, <2>8 DEF Untold
  <1>4. QED
    BY <1>2, <1>3 DEF UndoUpdate

\* The GET after the delete: the account that the push created is gone.
LEMMA DeleteCheckSaga ==
  ASSUME PromiseInv, NEW i \in Handlers, DeleteCheck(i) PROVE SagaStep(i) /\ Untold(i)
  <1>1. pc[i] = "deleteCheck" /\ UNCHANGED <<remote, lock, cand, acc, snap, held>>
    BY DEF DeleteCheck
  <1>2. CASE ~Live(acc[i]) /\ Answer(i, "rolledBack")
    <2>1. Undone(i) /\ "rolledBack" \in Answers
      BY <1>1, <1>2 DEF Undone, PromiseInv, HandlerInv, DeletesCreated, Answers
    <2>2. QED
      BY <1>1, <1>2, <2>1, AnswerSaga DEF remote, Untold
  <1>3. CASE Unfinished(i)
    <2>1. OwnRows(i)
      BY <1>1 DEF OwnRows, remote
    <2>2. QED
      BY <1>1, <1>3, <2>1, UnfinishedSaga DEF remote
  <1>4. CASE Raise(i)
    BY <1>1, <1>4, RaiseSaga
  <1>5. QED
    BY <1>2, <1>3, <1>4 DEF DeleteCheck

\* The read after the restore: the old row is back.
LEMMA RestoreCheckSaga ==
  ASSUME PromiseInv, NEW i \in Handlers, RestoreCheck(i) PROVE SagaStep(i) /\ Untold(i)
  <1>1. pc[i] = "restoreCheck" /\ UNCHANGED <<remote, lock, cand, acc, snap, held>>
    BY DEF RestoreCheck
  <1>2. CASE /\ Live(acc[i]) /\ acct[acc[i]].cred = held[i]
             /\ acct[acc[i]].grouped = snap[i].grouped
             /\ acct[acc[i]].sched = snap[i].sched
             /\ Answer(i, "rolledBack")
    <2>1. snap[i] # None /\ acc[i] # None /\ acct[acc[i]].name = snap[i].name
      BY <1>1 DEF PromiseInv, IInv, SnapsSound, TargetsOwned, Restoring
    <2>2. held[i].lin = snap[i].cred.lin \/ (held[i].lin = cand[i] /\ Rotated(held[i]))
      BY <1>1 DEF PromiseInv, HandlerInv, RestoresOwn
    <2>3. Undone(i) /\ "rolledBack" \in Answers
      BY <1>2, <2>1, <2>2 DEF Undone, Answers
    <2>4. QED
      BY <1>1, <1>2, <2>3, AnswerSaga DEF remote, Untold
  <1>3. CASE Unfinished(i)
    <2>1. OwnRows(i)
      BY <1>1 DEF OwnRows, remote
    <2>2. QED
      BY <1>1, <1>3, <2>1, UnfinishedSaga DEF remote
  <1>4. QED
    BY <1>2, <1>3 DEF RestoreCheck

\* The read after the quarantine: the rotated token is there, out of traffic.
LEMMA QuarantineCheckSaga ==
  ASSUME PromiseInv, NEW i \in Handlers, QuarantineCheck(i) PROVE SagaStep(i) /\ Untold(i)
  <1>1. pc[i] = "quarCheck" /\ UNCHANGED <<remote, lock, cand, acc, snap, held>>
    BY DEF QuarantineCheck
  <1>2. OwnRows(i)
    BY <1>1 DEF OwnRows, remote
  <1>3. CASE QuarantineFails(i)
    BY <1>1, <1>2, <1>3, UnfinishedSaga DEF remote
  <1>4. CASE resp[i] = "unknown" /\ Goto(i, "respond") /\ UNCHANGED <<cause, resp>>
    <2>1. pc'[i] = "respond" /\ resp'[i] = "unknown" /\ "respond" \in Stages
      BY <1>4 DEF Goto, PromiseInv, IInv, TypeOK, Stages
    <2>2. AnswerIsTrue(i)'
      BY <2>1 DEF AnswerIsTrue
    <2>3. HandlerInv(i)'
      BY <1>1, <1>2, <2>1, <2>2, HandlerNext
    <2>4. SagaStep(i)
      BY <1>1, <1>2, <1>4, <2>1, <2>3, ChoicesStay DEF remote
    <2>5. QED
      BY <2>1, <2>4 DEF Untold
  <1>5. CASE /\ resp[i] # "unknown" /\ Answer(i, "quarantined")
             /\ Live(acc[i]) /\ ~acct[acc[i]].sched
    <2>1. HoldsRotated(i) /\ acc[i] # None
      BY <1>1, <1>5 DEF PromiseInv, HandlerInv, QuarantinesRotated, IInv, TargetsOwned, OnRow
    <2>2. ~Routable(acc[i]) /\ "quarantined" \in Answers
      BY <1>5 DEF Routable, Answers
    <2>3. QED
      BY <1>1, <1>5, <2>1, <2>2, AnswerSaga DEF remote, Untold
  <1>6. QED
    BY <1>3, <1>4, <1>5 DEF QuarantineCheck, QuarantineEnds

\* A call of the rollback, which changes the row or fails.
LEMMA UndoSaga ==
  ASSUME PromiseInv, NEW i \in Handlers, acc[i] # None, NEW row \in Account,
         NoNewer(row.cred), SubjectOf[row.cred.lin] = SubjectOf[cand[i]],
         NEW out, Store(acc[i], out, row),
         NEW next \in {"restoreSched", "restoreCheck", "quarSched", "quarCheck", "deleteCheck"},
         next = "deleteCheck" => pc[i] = "delete",
         next \in {"restoreSched", "restoreCheck"} => pc[i] \in {"restore", "restoreSched"},
         next \in {"quarSched", "quarCheck"} =>
           pc[i] \in {"quarGroup", "quarSched"} /\ row.cred = acct[acc[i]].cred,
         \/ Goto(i, next) /\ UNCHANGED resp
         \/ Unfinished(i) \/ QuarantineFails(i),
         UNCHANGED <<head, late, vetted, lock, cand, acc, snap, held>>
  PROVE  SagaStep(i) /\ Untold(i)
  <1>1. OwnRows(i)
    BY OwnWrite
  <1>2. CASE Unfinished(i) \/ QuarantineFails(i)
    BY <1>1, <1>2, UnfinishedSaga
  <1>3. CASE Goto(i, next) /\ UNCHANGED resp
    <2>1. pc'[i] = next /\ next \in Stages
      BY <1>3 DEF Goto, PromiseInv, IInv, TypeOK, Stages
    <2>2. next = "deleteCheck" => snap[i] = None
      BY DEF PromiseInv, HandlerInv, DeletesCreated
    <2>3. next \in {"restoreSched", "restoreCheck"} =>
            /\ held'[i] # None
            /\ held'[i].lin = snap[i].cred.lin \/ (held'[i].lin = cand[i] /\ Rotated(held'[i]))
      BY DEF PromiseInv, HandlerInv, RestoresOwn, Rotated
    <2>4. next \in {"quarSched", "quarCheck"} => resp'[i] = "unknown" \/ HoldsRotated(i)'
      <3>1. SUFFICES ASSUME next \in {"quarSched", "quarCheck"}, resp[i] # "unknown"
                     PROVE  HoldsRotated(i)'
        BY <1>3
      <3>2. HoldsRotated(i)
        BY <3>1 DEF PromiseInv, HandlerInv, QuarantinesRotated
      <3>3. acc[i] \in Ids /\ acct \in [Ids -> Account \cup {None}]
        BY DEF PromiseInv, IInv, TypeOK
      <3>4. acct'[acc[i]].cred = acct[acc[i]].cred
        BY <3>1, <3>3 DEF Store
      <3>5. QED
        BY <3>2, <3>4 DEF HoldsRotated, Rotated
    <2>5. HandlerInv(i)'
      BY <1>1, <2>1, <2>2, <2>3, <2>4, HandlerNext
    <2>6. SagaStep(i)
      BY <1>1, <1>3, <2>1, <2>5, ChoicesStay
    <2>7. QED
      BY <2>1, <2>6 DEF Untold
  <1>4. QED
    BY <1>2, <1>3

\* The DELETE.
LEMMA DeleteSaga ==
  ASSUME PromiseInv, NEW i \in Handlers, Delete(i) PROVE SagaStep(i) /\ Untold(i)
  <1> DEFINE row == [acct[acc[i]] EXCEPT !.status = "deleted"]
  <1>1. PICK out \in Outcomes(acc[i]) :
          /\ Store(acc[i], out, row)
          /\ \/ Goto(i, "deleteCheck") /\ UNCHANGED <<cause, resp>>
             \/ Raise(i) \/ Unfinished(i)
    BY DEF Delete
  <1>2. pc[i] = "delete" /\ UNCHANGED <<head, late, vetted, lock, cand, acc, snap, held>>
    BY DEF Delete
  <1>3. acc[i] # None
    BY <1>2 DEF PromiseInv, IInv, TargetsOwned, OnRow
  <1>4. acct[acc[i]] \in Account
    BY <1>3, Holdings DEF PromiseInv
  <1>5. row \in Account /\ row.cred = acct[acc[i]].cred
    BY <1>4 DEF Account
  <1> HIDE DEF row
  <1>6. NoNewer(row.cred) /\ SubjectOf[row.cred.lin] = SubjectOf[cand[i]]
    BY <1>3, <1>5, OwnFlags
  <1>7. OwnRows(i)
    BY <1>1, <1>3, <1>5, <1>6, OwnWrite
  <1>8. CASE (Goto(i, "deleteCheck") /\ UNCHANGED resp) \/ Unfinished(i)
    BY <1>1, <1>2, <1>3, <1>5, <1>6, <1>8, UndoSaga
  <1>9. CASE RollBack(i, "testError") /\ UNCHANGED resp
    <2>1. pc'[i] = "rollback" /\ "rollback" \in Stages /\ Goto(i, "rollback")
      BY <1>9 DEF RollBack, Goto, PromiseInv, IInv, TypeOK, Stages
    <2>2. HandlerInv(i)'
      BY <1>2, <1>7, <2>1, HandlerNext
    <2>3. SagaStep(i)
      BY <1>2, <1>7, <1>9, <2>1, <2>2, ChoicesStay
    <2>4. QED
      BY <2>1, <2>3 DEF Untold
  <1>10. CASE Answer(i, "importFailed")
    <2>1. /\ pc'[i] = "respond" /\ "respond" \in Stages /\ Goto(i, "respond")
          /\ resp'[i] = "importFailed" /\ \A j \in Handlers : j # i => resp'[j] = resp[j]
      BY <1>10 DEF Answer, Goto, PromiseInv, IInv, TypeOK, Stages
    <2>2. AnswerIsTrue(i)'
      BY <2>1 DEF AnswerIsTrue
    <2>3. HandlerInv(i)'
      BY <1>2, <1>7, <2>1, <2>2, HandlerNext
    <2>4. SagaStep(i)
      BY <1>2, <1>7, <2>1, <2>3, ChoicesStay
    <2>5. QED
      BY <2>1, <2>4 DEF Untold
  <1>11. QED
    BY <1>1, <1>8, <1>9, <1>10 DEF Raise

\* The PUT of the old row.
LEMMA RestoreRowSaga ==
  ASSUME PromiseInv, NEW i \in Handlers, RestoreRow(i) PROVE SagaStep(i) /\ Untold(i)
  <1>1. PICK sched \in {snap[i].sched, acct[acc[i]].sched} :
          UndoCall(i, "restore", [snap[i] EXCEPT !.cred = held[i], !.sched = sched],
                   "restoreSched", Unfinished)
    BY DEF RestoreRow
  <1> DEFINE row == [snap[i] EXCEPT !.cred = held[i], !.sched = sched]
  <1>2. PICK out \in Outcomes(acc[i]) :
          /\ Store(acc[i], out, row)
          /\ IF out = "ok" THEN Goto(i, "restoreSched") /\ UNCHANGED <<cause, resp>>
                           ELSE Unfinished(i)
    BY <1>1 DEF UndoCall
  <1>3. pc[i] = "restore" /\ UNCHANGED <<head, late, vetted, lock, cand, acc, snap, held>>
    BY <1>1 DEF UndoCall
  <1>4. acc[i] # None /\ snap[i] # None /\ held[i] # None
    BY <1>3 DEF PromiseInv, IInv, TargetsOwned, SnapsSound, HeldSound, OnRow, Restoring
  <1>5. snap[i] \in Account /\ held[i] \in Cred /\ acct[acc[i]] \in Account
    BY <1>4, Holdings DEF PromiseInv
  <1>6. sched \in BOOLEAN
    BY <1>5 DEF Account
  <1>7. row \in Account /\ row.cred = held[i]
    BY <1>5, <1>6 DEF Account
  <1> HIDE DEF row
  <1>8. NoNewer(row.cred)
    BY <1>4, <1>7 DEF NoNewer, PromiseInv, HeadIsNewest
  <1>9. SubjectOf[row.cred.lin] = SubjectOf[cand[i]]
    BY <1>3, <1>4, <1>7 DEF PromiseInv, HandlerInv, RestoresOwn, PrincipalKnown
  <1>10. QED
    BY <1>2, <1>3, <1>4, <1>7, <1>8, <1>9, UndoSaga

\* The calls of the rollback that set a flag of the row.
LEMMA FlagUndoSaga ==
  ASSUME PromiseInv, NEW i \in Handlers,
         RestoreSched(i) \/ QuarantineGroup(i) \/ QuarantineSched(i)
  PROVE  SagaStep(i) /\ Untold(i)
  <1>1. /\ pc[i] \in {"restoreSched", "quarGroup", "quarSched"}
        /\ UNCHANGED <<head, late, vetted, lock, cand, acc, snap, held>>
    BY DEF RestoreSched, QuarantineGroup, QuarantineSched, UndoCall
  <1>2. acc[i] # None
    BY <1>1 DEF PromiseInv, IInv, TargetsOwned, OnRow
  <1>3. acct[acc[i]] \in Account
    BY <1>2, Holdings DEF PromiseInv
  <1>4. CASE RestoreSched(i)
    <2> DEFINE row == [acct[acc[i]] EXCEPT !.sched = snap[i].sched]
    <2>1. PICK out \in Outcomes(acc[i]) :
            /\ Store(acc[i], out, row)
            /\ (Goto(i, "restoreCheck") /\ UNCHANGED resp) \/ Unfinished(i)
      BY <1>4 DEF RestoreSched, UndoCall
    <2>2. pc[i] = "restoreSched" /\ snap[i] # None
      BY <1>4 DEF RestoreSched, UndoCall, PromiseInv, IInv, SnapsSound, Restoring
    <2>3. snap[i] \in Account
      BY <2>2, Holdings DEF PromiseInv
    <2>4. row \in Account /\ row.cred = acct[acc[i]].cred
      BY <1>3, <2>3 DEF Account
    <2> HIDE DEF row
    <2>5. NoNewer(row.cred) /\ SubjectOf[row.cred.lin] = SubjectOf[cand[i]]
      BY <1>2, <2>4, OwnFlags
    <2>6. QED
      BY <1>1, <1>2, <2>1, <2>2, <2>4, <2>5, UndoSaga
  <1>5. CASE QuarantineGroup(i)
    <2> DEFINE row == [acct[acc[i]] EXCEPT !.grouped = FALSE]
    <2>1. PICK out \in Outcomes(acc[i]) :
            /\ Store(acc[i], out, row)
            /\ (Goto(i, "quarSched") /\ UNCHANGED resp) \/ QuarantineFails(i)
      BY <1>5 DEF QuarantineGroup, UndoCall
    <2>2. pc[i] = "quarGroup"
      BY <1>5 DEF QuarantineGroup, UndoCall
    <2>3. row \in Account /\ row.cred = acct[acc[i]].cred
      BY <1>3 DEF Account
    <2> HIDE DEF row
    <2>4. NoNewer(row.cred) /\ SubjectOf[row.cred.lin] = SubjectOf[cand[i]]
      BY <1>2, <2>3, OwnFlags
    <2>5. QED
      BY <1>1, <1>2, <2>1, <2>2, <2>3, <2>4, UndoSaga
  <1>6. CASE QuarantineSched(i)
    <2> DEFINE row == [acct[acc[i]] EXCEPT !.sched = FALSE]
    <2>1. PICK out \in Outcomes(acc[i]) :
            /\ Store(acc[i], out, row)
            /\ (Goto(i, "quarCheck") /\ UNCHANGED resp) \/ QuarantineFails(i)
      BY <1>6 DEF QuarantineSched, UndoCall
    <2>2. pc[i] = "quarSched"
      BY <1>6 DEF QuarantineSched, UndoCall
    <2>3. row \in Account /\ row.cred = acct[acc[i]].cred
      BY <1>3 DEF Account
    <2> HIDE DEF row
    <2>4. NoNewer(row.cred) /\ SubjectOf[row.cred.lin] = SubjectOf[cand[i]]
      BY <1>2, <2>3, OwnFlags
    <2>5. QED
      BY <1>1, <1>2, <2>1, <2>2, <2>3, <2>4, UndoSaga
  <1>7. QED
    BY <1>4, <1>5, <1>6

-----------------------------------------------------------------------------
(* Requests, answers, crashes and Sub2API's own steps.                     *)

\* A request arrives.
LEMMA ReceiveSaga ==
  ASSUME PromiseInv, NEW i \in Handlers, Receive(i) PROVE SagaStep(i) /\ Untold(i)
  <1>1. /\ pc[i] = "idle" /\ Goto(i, "lock")
        /\ UNCHANGED <<remote, lock, acc, snap, held, cause, resp>>
        /\ \E l \in Lineages : cand' = [cand EXCEPT ![i] = l]
    BY DEF Receive
  <1>2. acc[i] = None /\ snap[i] = None
    BY <1>1 DEF PromiseInv, IInv, TargetsOwned, SnapsSound, Active
  <1>3. pc'[i] = "lock" /\ OthersAlone(i)
    BY <1>1 DEF Goto, OthersAlone, PromiseInv, IInv, TypeOK
  <1>4. held[i] # None => NoNewer(held[i])
    BY DEF PromiseInv, HeadIsNewest, NoNewer
  <1>5. HandlerInv(i)'
    BY <1>1, <1>2, <1>3 DEF HandlerInv, IdleIsClean, PrincipalKnown, DeletesCreated,
       RestoresOwn, QuarantinesRotated, AnswerIsTrue
  <1>6. SagaStep(i)
    BY <1>1, <1>2, <1>3, <1>4, <1>5 DEF SagaStep, OwnRows, NoNewer, remote
  <1>7. QED
    BY <1>3, <1>6 DEF Untold

\* A push gets its lock.
LEMMA AcquireLockSaga ==
  ASSUME PromiseInv, NEW i \in Handlers, AcquireLock(i) PROVE SagaStep(i) /\ Untold(i)
  BY GoOnSaga DEF AcquireLock, remote, local

\* A push is answered, and its thread forgets it.
LEMMA RespondSaga ==
  ASSUME PromiseInv, NEW i \in Handlers, Respond(i) PROVE SagaStep(i) /\ Untold(i)
  <1>1. /\ pc' = [pc EXCEPT ![i] = "idle"]
        /\ cand' = [cand EXCEPT ![i] = None] /\ acc' = [acc EXCEPT ![i] = None]
        /\ snap' = [snap EXCEPT ![i] = None] /\ held' = [held EXCEPT ![i] = None]
        /\ resp' = [resp EXCEPT ![i] = None] /\ UNCHANGED remote
    BY DEF Respond, Goto
  <1>2. pc'[i] = "idle" /\ cand'[i] = None /\ acc'[i] = None /\ snap'[i] = None
        /\ held'[i] = None /\ OthersAlone(i)
    BY <1>1 DEF OthersAlone, PromiseInv, IInv, TypeOK
  <1>3. HandlerInv(i)'
    BY <1>2 DEF HandlerInv, IdleIsClean, PrincipalKnown, DeletesCreated, RestoresOwn,
       QuarantinesRotated, AnswerIsTrue
  <1>4. SagaStep(i)
    BY <1>1, <1>2, <1>3 DEF SagaStep, OwnRows, remote
  <1>5. QED
    BY <1>2, <1>4 DEF Untold

\* After a crash there is nothing to be known of a handler.
LEMMA CrashPromise == ASSUME PromiseInv, IInv', Crash PROVE PromiseInv'
  <1>1. UNCHANGED remote /\ \A i \in Handlers :
          /\ pc'[i] = "idle" /\ cand'[i] = None /\ acc'[i] = None /\ snap'[i] = None
          /\ held'[i] = None
    BY DEF Crash
  <1>2. HeadIsNewest'
    BY <1>1 DEF PromiseInv, HeadIsNewest, remote
  <1>3. \A i \in Handlers : HandlerInv(i)'
    BY <1>1 DEF HandlerInv, IdleIsClean, PrincipalKnown, DeletesCreated, RestoresOwn,
       QuarantinesRotated, AnswerIsTrue
  <1>4. QED
    BY <1>2, <1>3 DEF PromiseInv

\* A create applied late adds a row that no handler works on.
LEMMA LateCreatePromise ==
  ASSUME PromiseInv, IInv', NEW l \in Lineages, LateCreate(l) PROVE PromiseInv'
  <1>1. PICK a \in Ids, sched \in BOOLEAN :
          acct[a] = None /\ acct' = [acct EXCEPT ![a] = Candidate(l, EmailOf[l], sched)]
    BY DEF LateCreate
  <1>2. UNCHANGED <<head, vetted, lock, pc, local>>
    BY DEF LateCreate
  <1>3. \A b \in Ids : b # a => acct'[b] = acct[b]
    BY <1>1, AddedRow
  <1>4. NoNewer(acct'[a].cred)
    BY <1>1, AddedRow
  <1>5. HeadIsNewest'
    BY <1>2, <1>3, <1>4 DEF PromiseInv, HeadIsNewest, NoNewer, local
  <1>6. ASSUME NEW j \in Handlers PROVE HandlerInv(j)'
    <2>1. acc[j] = None \/ acct'[acc[j]] = acct[acc[j]]
      BY <1>1, <1>3, Holdings DEF PromiseInv, IInv, TargetsOwned
    <2>2. TargetsOwned /\ SnapsSound /\ HandlerInv(j)
      BY DEF PromiseInv, IInv
    <2>3. QED
      BY <1>2, <2>1, <2>2, Untouched DEF local
  <1>7. QED
    BY <1>5, <1>6 DEF PromiseInv

\* What a refresh does to the table.
LEMMA RotatedRow ==
  ASSUME PromiseInv, NEW a \in Ids, Rotate(a)
  PROVE  /\ Live(a) /\ acct[a] # None /\ acct[a].cred.lin \in Lineages
         /\ acct'[a] # None /\ acct'[a].status = acct[a].status
         /\ acct'[a].name = acct[a].name /\ acct'[a].sched = acct[a].sched
         /\ acct'[a].grouped = acct[a].grouped
         /\ acct'[a].cred.lin = acct[a].cred.lin
         /\ acct'[a].cred.iat = head'[acct[a].cred.lin]
         /\ acct'[a].cred.iat > MintedAt[acct[a].cred.lin]
         /\ \A b \in Ids : b # a => acct'[b] = acct[b]
         /\ \A l \in Lineages : head[l] <= head'[l] /\ head[l] \in Int /\ head'[l] \in Int
         /\ UNCHANGED <<late, vetted, lock, pc, local>>
  <1> DEFINE l == acct[a].cred.lin
  <1>1. PICK n \in Iat : /\ n > head[l]
                         /\ acct' = [acct EXCEPT ![a].cred.iat = n]
                         /\ head' = [head EXCEPT ![l] = n]
    BY DEF Rotate
  <1>2. Live(a) /\ UNCHANGED <<late, vetted, lock, pc, local>>
    BY DEF Rotate
  <1>3. acct[a] # None /\ acct[a] \in Account /\ l \in Lineages
    BY <1>2 DEF Live, PromiseInv, IInv, TypeOK, Account, Cred
  <1>4. acct \in [Ids -> Account \cup {None}] /\ head \in [Lineages -> Iat]
    BY DEF PromiseInv, IInv, TypeOK
  <1>5. acct[a].cred \in Cred
    BY <1>3 DEF Account
  <1> DEFINE row == [acct[a] EXCEPT !.cred.iat = n]
  <1>6. /\ row.status = acct[a].status /\ row.name = acct[a].name
        /\ row.sched = acct[a].sched /\ row.grouped = acct[a].grouped
        /\ row.cred.lin = l /\ row.cred.iat = n /\ row \in Account
    BY <1>3, <1>5 DEF Account, Cred
  <1>7. row # None
    BY <1>6, NoneAssumption
  <1>8. acct' = [acct EXCEPT ![a] = row]
    BY <1>1
  <1> HIDE DEF row
  <1>9. acct'[a] = row /\ \A b \in Ids : b # a => acct'[b] = acct[b]
    BY <1>4, <1>8
  <1>10. head'[l] = n /\ \A m \in Lineages : m # l => head'[m] = head[m]
    BY <1>1, <1>3, <1>4
  <1>11. /\ \A m \in Lineages : head[m] \in Int /\ MintedAt[m] \in Int
         /\ n \in Int
    BY <1>4, ConstantsAssumption DEF Iat
  <1>12. MintedAt[l] <= head[l]
    BY <1>3 DEF PromiseInv, HeadIsNewest
  <1>13. n > MintedAt[l]
    BY <1>1, <1>3, <1>11, <1>12
  <1>14. \A m \in Lineages : head[m] <= head'[m] /\ head[m] \in Int /\ head'[m] \in Int
    BY <1>1, <1>10, <1>11
  <1>15. QED
    BY <1>2, <1>3, <1>6, <1>7, <1>9, <1>10, <1>13, <1>14

\* A refresh keeps the grant of the row, and so all that a handler knows of it.
LEMMA RotatePromise == ASSUME PromiseInv, IInv', NEW a \in Ids, Rotate(a) PROVE PromiseInv'
  <1>1. /\ Live(a) /\ acct[a] # None /\ acct[a].cred.lin \in Lineages
        /\ acct'[a] # None /\ acct'[a].status = acct[a].status
        /\ acct'[a].name = acct[a].name /\ acct'[a].sched = acct[a].sched
        /\ acct'[a].grouped = acct[a].grouped
        /\ acct'[a].cred.lin = acct[a].cred.lin
    BY RotatedRow
  <1>2. /\ acct'[a].cred.iat = head'[acct[a].cred.lin]
        /\ acct'[a].cred.iat > MintedAt[acct[a].cred.lin]
    BY RotatedRow
  <1>3. \A b \in Ids : b # a => acct'[b] = acct[b]
    BY RotatedRow
  <1>4. \A l \in Lineages : head[l] <= head'[l] /\ head[l] \in Int /\ head'[l] \in Int
    BY RotatedRow
  <1>5. UNCHANGED <<late, vetted, lock, pc, local>>
    BY RotatedRow
  <1>6. ASSUME NEW c \in Cred, c.iat <= head[c.lin] PROVE c.iat <= head'[c.lin]
    <2>1. c.lin \in Lineages /\ c.iat \in Int
      BY DEF Cred, Iat
    <2>2. QED
      BY <1>4, <1>6, <2>1
  <1>7. HeadIsNewest'
    <2>1. \A l \in Lineages : MintedAt[l] <= head'[l]
      BY <1>4, ConstantsAssumption DEF PromiseInv, HeadIsNewest, Iat
    <2>2. ASSUME NEW b \in Ids, acct'[b] # None
          PROVE  acct'[b].cred.iat <= head'[acct'[b].cred.lin]
      <3>1. CASE b = a
        BY <1>1, <1>2, <1>4, <3>1
      <3>2. CASE b # a
        <4>1. acct'[b] = acct[b] /\ acct[b] \in Account
          BY <1>3, <2>2, <3>2 DEF PromiseInv, IInv, TypeOK
        <4>2. acct[b].cred \in Cred /\ acct[b].cred.iat <= head[acct[b].cred.lin]
          BY <2>2, <4>1 DEF PromiseInv, HeadIsNewest, Account
        <4>3. QED
          BY <1>6, <4>1, <4>2
      <3>3. QED
        BY <3>1, <3>2
    <2>3. ASSUME NEW j \in Handlers, snap[j] # None
          PROVE  snap[j].cred.iat <= head'[snap[j].cred.lin]
      <3>1. snap[j].cred \in Cred /\ snap[j].cred.iat <= head[snap[j].cred.lin]
        BY <2>3, Holdings DEF PromiseInv, HeadIsNewest, Account
      <3>2. QED
        BY <1>6, <3>1
    <2>4. ASSUME NEW j \in Handlers, held[j] # None
          PROVE  held[j].iat <= head'[held[j].lin]
      <3>1. held[j] \in Cred /\ held[j].iat <= head[held[j].lin]
        BY <2>4, Holdings DEF PromiseInv, HeadIsNewest
      <3>2. QED
        BY <1>6, <3>1
    <2>5. QED
      BY <1>5, <2>1, <2>2, <2>3, <2>4 DEF HeadIsNewest, local
  <1>8. ASSUME NEW j \in Handlers PROVE HandlerInv(j)'
    <2>1. TargetsOwned /\ SnapsSound /\ HandlerInv(j)
      BY DEF PromiseInv, IInv
    <2>2. CASE acc[j] # a
      <3>1. acc[j] = None \/ acct'[acc[j]] = acct[acc[j]]
        BY <1>3, <2>2, Holdings DEF PromiseInv
      <3>2. QED
        BY <1>5, <2>1, <3>1, Untouched DEF local
    <2>3. CASE acc[j] = a
      <3>1. IdleIsClean(j)' /\ DeletesCreated(j)' /\ RestoresOwn(j)'
        BY <1>5, <2>1 DEF local, HandlerInv, IdleIsClean, DeletesCreated, RestoresOwn, Rotated
      <3>2. PrincipalKnown(j)'
        BY <1>1, <1>5, <2>1, <2>3 DEF local, HandlerInv, PrincipalKnown
      <3>3. HoldsRotated(j) => HoldsRotated(j)'
        BY <1>1, <1>2, <1>5, <2>3 DEF local, HoldsRotated, Rotated
      <3>4. QuarantinesRotated(j)'
        BY <1>5, <2>1, <3>3 DEF local, HandlerInv, QuarantinesRotated
      <3>5. Live(a)' /\ (Routable(a)' <=> Routable(a))
        BY <1>1 DEF Live, Routable, Grouped
      <3>6. Serves(j) => Serves(j)'
        BY <1>1, <1>5, <2>3, <3>5 DEF local, Serves, Routable, Grouped, Live
      <3>7. Undone(j) => Undone(j)'
        <4>1. a # None
          BY NoneAssumption
        <4>2. CASE snap[j] = None
          BY <1>1, <2>3, <4>1, <4>2 DEF Undone
        <4>3. CASE snap[j] # None
          BY <1>1, <1>2, <1>5, <2>3, <3>5, <4>3 DEF local, Undone, Rotated, Live
        <4>4. QED
          BY <4>2, <4>3
      <3>8. AnswerIsTrue(j)'
        BY <1>1, <1>5, <2>1, <2>3, <3>3, <3>5, <3>6, <3>7
           DEF local, HandlerInv, AnswerIsTrue, Routable, Grouped, Live
      <3>9. QED
        BY <3>1, <3>2, <3>4, <3>8 DEF HandlerInv
    <2>4. QED
      BY <2>2, <2>3
  <1>9. QED
    BY <1>7, <1>8 DEF PromiseInv

\* The initial states: nothing is in progress, every token is the client's.
LEMMA InitPromise == Init => PromiseInv
  <1> SUFFICES ASSUME Init PROVE PromiseInv
    OBVIOUS
  <1>1. IInv
    BY InitIInv
  <1>2. \A l \in Lineages : MintedAt[l] \in Int
    BY ConstantsAssumption DEF Iat
  <1>3. ASSUME NEW a \in Ids, acct[a] # None
        PROVE  acct[a].cred.iat <= head[acct[a].cred.lin]
    <2>1. PICK l \in Lineages, b \in BOOLEAN, g \in BOOLEAN :
            acct[a] = [Candidate(l, EmailOf[l], b) EXCEPT !.grouped = g]
      BY <1>3 DEF Init
    <2>2. acct[a].cred.lin = l /\ acct[a].cred.iat = MintedAt[l]
      BY <2>1 DEF Candidate
    <2>3. QED
      BY <1>2, <2>2 DEF Init
  <1>4. HeadIsNewest
    BY <1>2, <1>3 DEF HeadIsNewest, Init
  <1>5. \A i \in Handlers : HandlerInv(i)
    BY DEF Init, HandlerInv, IdleIsClean, PrincipalKnown, DeletesCreated, RestoresOwn,
       QuarantinesRotated, AnswerIsTrue
  <1>6. QED
    BY <1>1, <1>4, <1>5 DEF PromiseInv

\* All the steps of a handler but the confirmation of a promotion.
LEMMA HandlerSteps ==
  ASSUME PromiseInv, NEW i \in Handlers,
         Receive(i) \/ AcquireLock(i) \/ (Saga(i) /\ ~Confirm(i))
  PROVE  SagaStep(i) /\ Untold(i)
  <1>1. CASE Receive(i) \/ AcquireLock(i)
    BY <1>1, ReceiveSaga, AcquireLockSaga
  <1>2. CASE Saga(i) /\ ~Confirm(i)
    BY <1>2, PreprobeSaga, FindSaga, CreateSaga, UpdateSaga, LookupSaga, FlagCallSaga,
       TestSaga, VerifySaga, UndoCreateSaga, UndoUpdateSaga, DeleteSaga, DeleteCheckSaga,
       RestoreRowSaga, FlagUndoSaga, RestoreCheckSaga, QuarantineCheckSaga, RespondSaga
       DEF Saga
  <1>3. QED
    BY <1>1, <1>2

\* Every step of the system keeps the invariant and every account its principal.
LEMMA NextPromise ==
  ASSUME PromiseInv, OneEmailPerSubject, [Next]_vars
  PROVE  /\ PromiseInv'
         /\ \A a \in Ids : Live(a) /\ Live(a)' =>
              SubjectOf[acct'[a].cred.lin] = SubjectOf[acct[a].cred.lin]
  <1> DEFINE Kept == \A a \in Ids : Live(a) /\ Live(a)' =>
                       SubjectOf[acct'[a].cred.lin] = SubjectOf[acct[a].cred.lin]
  <1>1. IInv'
    BY NextIInv DEF PromiseInv
  <1>2. UNCHANGED acct => Kept
    OBVIOUS
  <1>3. ASSUME NEW i \in Handlers, Receive(i) \/ AcquireLock(i) \/ Saga(i)
        PROVE  PromiseInv' /\ Kept
    <2>1. SagaStep(i)
      BY <1>3, HandlerSteps, ConfirmSaga
    <2>2. PromiseInv'
      BY <1>1, <2>1, SagaKeeps
    <2>3. Kept
      BY <2>1, SagaKeepsPrincipals
    <2>4. QED
      BY <2>2, <2>3
  <1>4. ASSUME NEW a \in Ids, Rotate(a) PROVE PromiseInv' /\ Kept
    <2>1. acct'[a].cred.lin = acct[a].cred.lin /\ \A b \in Ids : b # a => acct'[b] = acct[b]
      BY <1>4, RotatedRow
    <2>2. Kept
      BY <2>1
    <2>3. PromiseInv'
      BY <1>1, <1>4, RotatePromise
    <2>4. QED
      BY <2>2, <2>3
  <1>5. ASSUME NEW l \in Lineages, LateCreate(l) PROVE PromiseInv' /\ Kept
    <2>1. PICK a \in Ids, sched \in BOOLEAN :
            acct[a] = None /\ acct' = [acct EXCEPT ![a] = Candidate(l, EmailOf[l], sched)]
      BY <1>5 DEF LateCreate
    <2>2. \A b \in Ids : b # a => acct'[b] = acct[b]
      BY <2>1, AddedRow
    <2>3. Kept
      BY <2>1, <2>2 DEF Live
    <2>4. PromiseInv'
      BY <1>1, <1>5, LateCreatePromise
    <2>5. QED
      BY <2>3, <2>4
  <1>6. CASE Crash
    <2>1. Kept
      BY <1>2, <1>6 DEF Crash, remote
    <2>2. PromiseInv'
      BY <1>1, <1>6, CrashPromise
    <2>3. QED
      BY <2>1, <2>2
  <1>7. CASE UNCHANGED vars
    <2>1. HeadIsNewest'
      BY <1>7 DEF vars, PromiseInv, HeadIsNewest
    <2>2. ASSUME NEW j \in Handlers PROVE HandlerInv(j)'
      <3>1. TargetsOwned /\ SnapsSound /\ HandlerInv(j)
        BY DEF PromiseInv, IInv
      <3>2. QED
        BY <1>7, <3>1, Untouched DEF vars
    <2>3. PromiseInv'
      BY <1>1, <2>1, <2>2 DEF PromiseInv
    <2>4. QED
      BY <1>2, <1>7, <2>3 DEF vars
  <1>8. QED
    BY <1>3, <1>4, <1>5, <1>6, <1>7 DEF Next

-----------------------------------------------------------------------------
(* The theorems about answers and principals.                              *)

\* If no identity is pushed under two emails, what the answers rest on always
\* holds: the locks, the rows, the heads of the grants and what each handler
\* knows of its row (bridge.py:880-1100).
THEOREM PromiseInvariance == ASSUME OneEmailPerSubject PROVE Spec => []PromiseInv
  <1>1. PromiseInv /\ [Next]_vars => PromiseInv'
    BY NextPromise
  <1>2. QED
    BY <1>1, InitPromise, PTL DEF Spec

\* "imported" is answered for an account that routes a tested token of the grant
\* that was pushed, and is still so when the answer is sent (bridge.py:992-1040).
THEOREM ImportedServes == ASSUME OneEmailPerSubject PROVE Spec => []ImportedIsServing
  <1>1. PromiseInv => ImportedIsServing
    BY DEF PromiseInv, HandlerInv, AnswerIsTrue, ImportedIsServing
  <1>2. QED
    BY <1>1, PromiseInvariance, PTL

\* rollback_succeeded = true is answered for a complete rollback only: nothing is
\* left of a created account, an updated one is as it was (bridge.py:752-860).
THEOREM RolledBackUndoes == ASSUME OneEmailPerSubject PROVE Spec => []RolledBackIsUndone
  <1>1. PromiseInv => RolledBackIsUndone
    BY DEF PromiseInv, HandlerInv, AnswerIsTrue, RolledBackIsUndone
  <1>2. QED
    BY <1>1, PromiseInvariance, PTL

\* "quarantined" is answered when the rotated token is kept, out of traffic.
THEOREM QuarantinedKeeps == ASSUME OneEmailPerSubject PROVE Spec => []QuarantinedIsKept
  <1>1. PromiseInv => QuarantinedIsKept
    BY DEF PromiseInv, HandlerInv, AnswerIsTrue, QuarantinedIsKept
  <1>2. QED
    BY <1>1, PromiseInvariance, PTL

\* No step puts a credential of one principal into an account of another
\* (bridge.py:930, 963).
THEOREM PrincipalsKept == ASSUME OneEmailPerSubject PROVE Spec => PrincipalIsKept
  <1>1. PromiseInv /\ [Next]_vars =>
          [\A a \in Ids : Live(a) /\ Live(a)' =>
             SubjectOf[acct'[a].cred.lin] = SubjectOf[acct[a].cred.lin]]_vars
    BY NextPromise
  <1>2. QED
    BY <1>1, PromiseInvariance, PTL DEF Spec, PrincipalIsKept

-----------------------------------------------------------------------------
(* The promise: AuthPush implements ImportPromise.                         *)

\* What ImportPromise sees: the grant an account serves, the grants that are
\* trusted and the pushes that are being answered "imported".
ServedBy(a) == IF Routable(a) THEN acct[a].cred.lin ELSE None
TrustedNow  == vetted \cup { l \in Lineages : head[l] > MintedAt[l] }
ToldNow     == { i \in Handlers : pc[i] = "respond" /\ resp[i] = "imported" }

\* Sub2API's scheduler and the client see no difference.
LEMMA PromiseStutter ==
  ASSUME \A a \in Ids : ServedBy(a)' = ServedBy(a),
         TrustedNow' = TrustedNow, ToldNow' = ToldNow, cand' = cand
  PROVE  UNCHANGED Promise!vars
  BY DEF Promise!vars, ServedBy, TrustedNow, ToldNow

\* The initial table serves tested grants only.
LEMMA PromiseInit == Init => Promise!Init
  <1> SUFFICES ASSUME Init PROVE Promise!Init
    OBVIOUS
  <1>1. TrustedNow \in SUBSET TrustedNow /\ TrustedNow \subseteq Lineages
    BY DEF Init, TrustedNow
  <1>2. ASSUME NEW a \in Ids PROVE ServedBy(a) \in TrustedNow \cup {None}
    BY DEF Init, ServedBy, TrustedNow, Routable
  <1>3. cand = [i \in Handlers |-> None] /\ ToldNow = {}
    BY DEF Init, ToldNow
  <1>4. QED
    BY <1>1, <1>2, <1>3 DEF Promise!Init, ServedBy, TrustedNow, ToldNow

\* A row that is routed after a step is trusted as ImportPromise sees it.
LEMMA RoutedTrust ==
  ASSUME PromiseInv', NEW a \in Ids, Routable(a)'
  PROVE  acct'[a].cred.lin \in TrustedNow' /\ acct'[a].cred.lin \in Lineages
  <1>1. acct'[a] # None /\ acct'[a] \in Account /\ Trusted(acct[a].cred)'
    BY DEF Routable, Grouped, Live, PromiseInv, IInv, TypeOK, GroupedIsTrusted
  <1> DEFINE c == acct'[a].cred
  <1>2. c \in Cred /\ c.iat <= head'[c.lin]
    BY <1>1 DEF PromiseInv, HeadIsNewest, Account
  <1>3. c.lin \in Lineages /\ c.iat \in Int /\ head'[c.lin] \in Int /\ MintedAt[c.lin] \in Int
    BY <1>2, ConstantsAssumption DEF Cred, Iat, PromiseInv, IInv, TypeOK
  <1>4. QED
    BY <1>1, <1>2, <1>3 DEF Trusted, Rotated, TrustedNow

\* A write to a handler's row serves a trusted grant, or withdraws the account.
LEMMA PromiseWrite ==
  ASSUME PromiseInv, PromiseInv', NEW i \in Handlers, SagaStep(i), Untold(i),
         pc[i] # "respond", cand' = cand, vetted' = vetted
  PROVE  [Promise!Next]_(Promise!vars)
  <1>1. /\ head' = head /\ OthersAlone(i) /\ OwnRows(i)
    BY DEF SagaStep
  <1>2. TrustedNow' = TrustedNow
    BY <1>1 DEF TrustedNow
  <1>3. ToldNow' = ToldNow
    BY <1>1 DEF ToldNow, OthersAlone, Untold
  <1>4. ASSUME NEW a \in Ids, a # acc[i] PROVE ServedBy(a)' = ServedBy(a)
    BY <1>1, <1>4 DEF OwnRows, ServedBy, Routable, Grouped, Live
  <1>5. CASE acc[i] \notin Ids
    <2>1. \A a \in Ids : ServedBy(a)' = ServedBy(a)
      BY <1>4, <1>5
    <2>2. QED
      BY <1>2, <1>3, <2>1, PromiseStutter
  <1>6. CASE acc[i] \in Ids
    <2>1. PICK b \in Ids : b = acc[i]
      BY <1>6
    <2>2. \A a \in Ids : a # b => ServedBy(a)' = ServedBy(a)
      BY <1>4, <2>1
    <2>3. CASE Routable(b)'
      <3>1. PICK l \in Lineages : l = acct'[b].cred.lin /\ l \in TrustedNow'
        BY <2>3, RoutedTrust
      <3>2. ServedBy(b)' = l /\ l \in TrustedNow
        BY <1>2, <2>3, <3>1 DEF ServedBy
      <3>3. Promise!Serve(b, l)
        BY <1>2, <1>3, <2>2, <3>2 DEF Promise!Serve, ServedBy, TrustedNow, ToldNow
      <3>4. QED
        BY <3>3 DEF Promise!Next
    <2>4. CASE ~Routable(b)'
      <3>1. ServedBy(b)' = None
        BY <2>4 DEF ServedBy
      <3>2. Promise!Withdraw(b)
        BY <1>2, <1>3, <2>2, <3>1 DEF Promise!Withdraw, ServedBy, TrustedNow, ToldNow
      <3>3. QED
        BY <3>2 DEF Promise!Next
    <2>5. QED
      BY <2>3, <2>4
  <1>7. QED
    BY <1>5, <1>6

\* Which steps of a handler send nothing, answer nothing and test nothing.
LEMMA QuietSteps ==
  ASSUME NEW i \in Handlers,
         AcquireLock(i) \/ (Saga(i) /\ ~Confirm(i) /\ ~Test(i) /\ ~Respond(i))
  PROVE  pc[i] # "respond" /\ cand' = cand /\ vetted' = vetted
  <1>1. CASE AcquireLock(i) \/ Preprobe(i) \/ Find(i) \/ Create(i) \/ Lookup(i)
    BY <1>1 DEF AcquireLock, Preprobe, Find, Create, Lookup, remote, local
  <1>2. CASE Update(i) \/ Isolate(i) \/ Group(i) \/ Enable(i)
    BY <1>2 DEF Update, Isolate, Group, Enable, Call
  <1>3. CASE Verify(i) \/ UndoCreate(i) \/ UndoUpdate(i)
    BY <1>3 DEF Verify, UndoCreate, UndoUpdate, remote
  <1>4. CASE Delete(i) \/ DeleteCheck(i) \/ RestoreCheck(i) \/ QuarantineCheck(i)
    BY <1>4 DEF Delete, DeleteCheck, RestoreCheck, QuarantineCheck, remote
  <1>5. CASE RestoreRow(i) \/ RestoreSched(i) \/ QuarantineGroup(i) \/ QuarantineSched(i)
    BY <1>5 DEF RestoreRow, RestoreSched, QuarantineGroup, QuarantineSched, UndoCall
  <1>6. QED
    BY <1>1, <1>2, <1>3, <1>4, <1>5 DEF Saga

\* A passed test makes a grant trusted.
LEMMA PromiseTest ==
  ASSUME PromiseInv, NEW i \in Handlers, Test(i) PROVE [Promise!Next]_(Promise!vars)
  <1>1. /\ pc[i] = "test" /\ UNCHANGED <<acct, head, late, lock, cand, acc, snap, held, resp>>
        /\ \/ vetted' = vetted \cup {acct[acc[i]].cred.lin}
           \/ vetted' = vetted
    BY DEF Test
  <1>2. acct[acc[i]].cred.lin = cand[i] /\ cand[i] \in Lineages
    BY <1>1, Holdings DEF PromiseInv, IInv, HoldsCandidate
  <1>3. \A a \in Ids : ServedBy(a)' = ServedBy(a)
    BY <1>1 DEF ServedBy, Routable, Grouped, Live
  <1>4. SagaStep(i) /\ Untold(i)
    BY TestSaga
  <1>5. ToldNow' = ToldNow
    BY <1>1, <1>4 DEF ToldNow, SagaStep, OthersAlone, Untold
  <1>6. CASE vetted' = vetted
    <2>1. TrustedNow' = TrustedNow
      BY <1>1, <1>6 DEF TrustedNow
    <2>2. QED
      BY <1>1, <1>3, <1>5, <2>1, PromiseStutter
  <1>7. CASE vetted' = vetted \cup {acct[acc[i]].cred.lin}
    <2>1. PICK l \in Lineages : l = acct[acc[i]].cred.lin
      BY <1>2
    <2>2. TrustedNow' = TrustedNow \cup {l}
      BY <1>1, <1>7, <2>1 DEF TrustedNow
    <2>3. Promise!Trust(l)
      BY <1>1, <1>3, <1>5, <2>2 DEF Promise!Trust, ServedBy, TrustedNow, ToldNow
    <2>4. QED
      BY <2>3 DEF Promise!Next
  <1>8. QED
    BY <1>1, <1>6, <1>7

\* The answer "imported" is given while an account serves the grant.
LEMMA PromiseConfirm ==
  ASSUME PromiseInv, NEW i \in Handlers, Confirm(i) PROVE [Promise!Next]_(Promise!vars)
  <1>1. pc[i] = "confirm" /\ UNCHANGED <<remote, lock, cand, acc, snap, held>>
    BY DEF Confirm
  <1>2. /\ SagaStep(i)
        /\ Untold(i) \/ (Serves(i) /\ pc'[i] = "respond" /\ resp'[i] = "imported")
    BY ConfirmSaga
  <1>3. (\A a \in Ids : ServedBy(a)' = ServedBy(a)) /\ TrustedNow' = TrustedNow
    BY <1>1 DEF ServedBy, Routable, Grouped, Live, TrustedNow, remote
  <1>4. CASE Untold(i)
    <2>1. ToldNow' = ToldNow
      BY <1>1, <1>2, <1>4 DEF ToldNow, SagaStep, OthersAlone, Untold
    <2>2. QED
      BY <1>1, <1>3, <2>1, PromiseStutter
  <1>5. CASE Serves(i) /\ pc'[i] = "respond" /\ resp'[i] = "imported"
    <2>1. ToldNow' = ToldNow \cup {i}
      BY <1>2, <1>5 DEF ToldNow, SagaStep, OthersAlone
    <2>2. acc[i] \in Ids /\ cand[i] # None
      BY <1>1, Holdings DEF PromiseInv, IInv, TargetsOwned, OnRow, LockHeld
    <2>3. ServedBy(acc[i]) = cand[i]
      BY <1>5 DEF Serves, ServedBy
    <2>4. \E a \in Ids : ServedBy(a) = cand[i]
      BY <2>2, <2>3
    <2>5. Promise!TellImported(i)
      BY <1>1, <1>3, <2>1, <2>2, <2>4
         DEF Promise!TellImported, ServedBy, TrustedNow, ToldNow
    <2>6. QED
      BY <2>5 DEF Promise!Next
  <1>6. QED
    BY <1>2, <1>4, <1>5

\* A request is what a client asks.
LEMMA PromiseReceive ==
  ASSUME PromiseInv, NEW i \in Handlers, Receive(i) PROVE [Promise!Next]_(Promise!vars)
  <1>1. pc[i] = "idle" /\ UNCHANGED <<remote, lock, acc, snap, held, cause, resp>>
    BY DEF Receive
  <1>2. PICK l \in Lineages : cand' = [cand EXCEPT ![i] = l]
    BY DEF Receive
  <1>3. (\A a \in Ids : ServedBy(a)' = ServedBy(a)) /\ TrustedNow' = TrustedNow
    BY <1>1 DEF ServedBy, Routable, Grouped, Live, TrustedNow, remote
  <1>4. SagaStep(i) /\ Untold(i)
    BY ReceiveSaga
  <1>5. ToldNow' = ToldNow
    BY <1>1, <1>4 DEF ToldNow, SagaStep, OthersAlone, Untold
  <1>6. cand[i] = None
    BY <1>1 DEF PromiseInv, HandlerInv, IdleIsClean
  <1>7. Promise!Ask(i, l)
    BY <1>2, <1>3, <1>5, <1>6 DEF Promise!Ask, ServedBy, TrustedNow, ToldNow
  <1>8. QED
    BY <1>7 DEF Promise!Next

\* An answer that was sent is what ends a push.
LEMMA PromiseRespond ==
  ASSUME PromiseInv, NEW i \in Handlers, Respond(i) PROVE [Promise!Next]_(Promise!vars)
  <1>1. cand' = [cand EXCEPT ![i] = None] /\ pc' = [pc EXCEPT ![i] = "idle"] /\ UNCHANGED remote
    BY DEF Respond, Goto
  <1>2. (\A a \in Ids : ServedBy(a)' = ServedBy(a)) /\ TrustedNow' = TrustedNow
    BY <1>1 DEF ServedBy, Routable, Grouped, Live, TrustedNow, remote
  <1>3. SagaStep(i) /\ Untold(i)
    BY RespondSaga
  <1>4. ToldNow' = ToldNow \ {i}
    BY <1>3 DEF ToldNow, SagaStep, OthersAlone, Untold
  <1>5. Promise!Finish(i)
    BY <1>1, <1>2, <1>4 DEF Promise!Finish, ServedBy, TrustedNow, ToldNow
  <1>6. QED
    BY <1>5 DEF Promise!Next

\* A refresh makes a grant trusted, and changes no row otherwise.
LEMMA PromiseRotate ==
  ASSUME PromiseInv, NEW a \in Ids, Rotate(a) PROVE [Promise!Next]_(Promise!vars)
  <1>1. PICK l \in Lineages : l = acct[a].cred.lin
    BY RotatedRow
  <1>2. UNCHANGED <<late, vetted, lock, pc, local>>
    BY RotatedRow
  <1>3. acct'[a].cred.lin = l /\ (Live(a) <=> Live(a)') /\ (Routable(a) <=> Routable(a)')
    BY <1>1, RotatedRow DEF Live, Routable, Grouped
  <1>4. ASSUME NEW b \in Ids PROVE ServedBy(b)' = ServedBy(b)
    <2>1. CASE b = a
      BY <1>1, <1>3, <2>1 DEF ServedBy
    <2>2. CASE b # a
      <3>1. acct'[b] = acct[b]
        BY <2>2, RotatedRow
      <3>2. QED
        BY <3>1 DEF ServedBy, Routable, Grouped, Live
    <2>3. QED
      BY <2>1, <2>2
  <1>5. TrustedNow' = TrustedNow \cup {l}
    <2>1. \E n \in Iat : n > head[l] /\ head' = [head EXCEPT ![l] = n]
      BY <1>1 DEF Rotate
    <2>2. head \in [Lineages -> Iat] /\ MintedAt \in [Lineages -> Iat] /\ MintedAt[l] <= head[l]
      BY ConstantsAssumption DEF PromiseInv, IInv, TypeOK, HeadIsNewest
    <2>3. head'[l] > MintedAt[l] /\ \A m \in Lineages : m # l => head'[m] = head[m]
      BY <2>1, <2>2 DEF Iat
    <2>4. QED
      BY <1>2, <2>3 DEF TrustedNow
  <1>6. ToldNow' = ToldNow /\ cand' = cand
    BY <1>2 DEF ToldNow, local
  <1>7. Promise!Trust(l)
    BY <1>4, <1>5, <1>6 DEF Promise!Trust, ServedBy, TrustedNow, ToldNow
  <1>8. QED
    BY <1>7 DEF Promise!Next

\* A create applied late serves nothing.
LEMMA PromiseLateCreate ==
  ASSUME PromiseInv, NEW l \in Lineages, LateCreate(l) PROVE UNCHANGED Promise!vars
  <1>1. PICK a \in Ids, sched \in BOOLEAN :
          acct[a] = None /\ acct' = [acct EXCEPT ![a] = Candidate(l, EmailOf[l], sched)]
    BY DEF LateCreate
  <1>2. UNCHANGED <<head, vetted, lock, pc, local>>
    BY DEF LateCreate
  <1>3. \A b \in Ids : b # a => acct'[b] = acct[b]
    BY <1>1, AddedRow
  <1>4. ~acct'[a].grouped
    BY <1>1, AddedRow
  <1>5. \A b \in Ids : ServedBy(b)' = ServedBy(b)
    BY <1>1, <1>3, <1>4 DEF ServedBy, Routable, Grouped, Live
  <1>6. TrustedNow' = TrustedNow /\ ToldNow' = ToldNow /\ cand' = cand
    BY <1>2 DEF TrustedNow, ToldNow, local
  <1>7. QED
    BY <1>5, <1>6, PromiseStutter

\* A crash forgets the pushes in progress and leaves the accounts as they are.
LEMMA PromiseCrash == ASSUME Crash PROVE [Promise!Next]_(Promise!vars)
  <1>1. UNCHANGED remote /\ cand' = [i \in Handlers |-> None] /\ pc' = [i \in Handlers |-> "idle"]
    BY DEF Crash
  <1>2. (\A a \in Ids : ServedBy(a)' = ServedBy(a)) /\ TrustedNow' = TrustedNow
    BY <1>1 DEF ServedBy, Routable, Grouped, Live, TrustedNow, remote
  <1>3. ToldNow' = {}
    BY <1>1 DEF ToldNow
  <1>4. Promise!Forget
    BY <1>1, <1>2, <1>3 DEF Promise!Forget, ServedBy, TrustedNow, ToldNow
  <1>5. QED
    BY <1>4 DEF Promise!Next

\* Every step of the push is one of the promise, or nothing it speaks of.
LEMMA PromiseStep ==
  ASSUME PromiseInv, PromiseInv', [Next]_vars PROVE [Promise!Next]_(Promise!vars)
  <1>1. ASSUME NEW i \in Handlers,
               AcquireLock(i) \/ (Saga(i) /\ ~Confirm(i) /\ ~Test(i) /\ ~Respond(i))
        PROVE  [Promise!Next]_(Promise!vars)
    <2>1. SagaStep(i) /\ Untold(i)
      BY <1>1, HandlerSteps
    <2>2. pc[i] # "respond" /\ cand' = cand /\ vetted' = vetted
      BY <1>1, QuietSteps
    <2>3. QED
      BY <2>1, <2>2, PromiseWrite
  <1>2. ASSUME NEW i \in Handlers, Receive(i) \/ Confirm(i) \/ Test(i) \/ Respond(i)
        PROVE  [Promise!Next]_(Promise!vars)
    BY <1>2, PromiseReceive, PromiseConfirm, PromiseTest, PromiseRespond
  <1>3. ASSUME NEW a \in Ids, Rotate(a) PROVE [Promise!Next]_(Promise!vars)
    BY <1>3, PromiseRotate
  <1>4. ASSUME NEW l \in Lineages, LateCreate(l) PROVE [Promise!Next]_(Promise!vars)
    BY <1>4, PromiseLateCreate
  <1>5. CASE Crash
    BY <1>5, PromiseCrash
  <1>6. CASE UNCHANGED vars
    <2>1. (\A a \in Ids : ServedBy(a)' = ServedBy(a)) /\ TrustedNow' = TrustedNow
      BY <1>6 DEF vars, ServedBy, Routable, Grouped, Live, TrustedNow
    <2>2. ToldNow' = ToldNow /\ cand' = cand
      BY <1>6 DEF vars, ToldNow
    <2>3. QED
      BY <2>1, <2>2, PromiseStutter
  <1>7. QED
    BY <1>1, <1>2, <1>3, <1>4, <1>5, <1>6 DEF Next

\* The push implements its promise: accounts only ever serve grants that were
\* tested or refreshed, and a push is told "imported" while an account serves its
\* grant, whatever fails, overlaps or crashes (bridge.py:880-1100).
THEOREM PushImplements == ASSUME OneEmailPerSubject PROVE Spec => KeepsPromise
  <1>1. Init => Promise!Init
    BY PromiseInit
  <1>2. PromiseInv /\ PromiseInv' /\ [Next]_vars => [Promise!Next]_(Promise!vars)
    BY PromiseStep
  <1>3. Spec => Promise!Init /\ [][Promise!Next]_(Promise!vars)
    BY <1>1, <1>2, PromiseInvariance, PTL DEF Spec
  <1>4. QED
    BY <1>3 DEF KeepsPromise, Promise!Spec
=============================================================================
