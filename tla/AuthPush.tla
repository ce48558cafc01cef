------------------------------ MODULE AuthPush ------------------------------
(***************************************************************************)
(* The auth push of bridge/bridge.py: POST /v0/management/auth-files takes *)
(* one OAuth credential, writes it into Sub2API as an isolated candidate,  *)
(* tests it there and promotes it into the routing group, or undoes what   *)
(* it wrote.  Handler threads run concurrently and are serialized per      *)
(* identity by an in-process lock.                                         *)
(*                                                                         *)
(* Every call to Sub2API or its database is one action, whose outcome is   *)
(*   ok      applied, and the bridge saw the answer                        *)
(*   lost    applied, but the call raised (time-out, dropped connection)   *)
(*   failed  not applied, and the call raised                              *)
(* Sub2API itself (accounts, token rotation) is modelled only as the       *)
(* bridge uses it.                                                         *)
(***************************************************************************)
EXTENDS Integers, FiniteSets

CONSTANTS
  Handlers,   \* handler threads of the WSGI server
  Ids,        \* account ids Sub2API may assign
  Lineages,   \* OAuth grants: a minted token and everything rotated from it
  Emails,     \* email addresses, which name the accounts
  EmailOf,    \* the email field of a grant's auth JSON
  SubjectOf,  \* the sub claim of a grant's access token
  MintedAt,   \* the iat of the token the client holds for a grant
  MaxIat,     \* bound on the iat of rotated tokens
  None

Iat == 1..MaxIat

ASSUME ConstantsAssumption ==
  /\ EmailOf \in [Lineages -> Emails]
  /\ DOMAIN SubjectOf = Lineages
  /\ MaxIat \in Nat
  /\ MintedAt \in [Lineages -> Iat]

Cred == [lin : Lineages, iat : Iat]

Account == [status : {"live", "deleted"}, name : Emails, cred : Cred,
            sched : BOOLEAN, grouped : BOOLEAN]

ASSUME NoneAssumption ==
  None \notin Handlers \cup Ids \cup Lineages \cup Cred \cup Account

VARIABLES
  acct,    \* Sub2API's account table
  head,    \* the newest token xAI issued on each grant
  late,    \* creates whose answer was lost and which Sub2API has yet to apply
  vetted,  \* history: grants some account test found usable
  lock,    \* AUTH_PUSH_LOCKS: the handler that holds each identity's lock
  pc,      \* where each handler is
  cand,    \* auth_data: the grant a handler was sent
  acc,     \* account_id
  snap,    \* snapshot: the account as found, None if the push creates it
  held,    \* verified_state, or the credentials a restore writes back
  cause,   \* the step whose failure started the rollback
  resp     \* the answer

remote == <<acct, head, late, vetted>>
local  == <<cand, acc, snap, held, cause, resp>>
vars   == <<acct, head, late, vetted, lock, pc, cand, acc, snap, held, cause, resp>>

-----------------------------------------------------------------------------
(* Sub2API's side of the calls.                                            *)

Live(a)    == acct[a] # None /\ acct[a].status = "live"
Grouped(a) == Live(a) /\ acct[a].grouped

\* The accounts Sub2API's scheduler hands traffic to.
Routable(a) == Grouped(a) /\ acct[a].sched

\* A PUT or POST that an account which is gone always refuses.
Outcomes(a) == IF Live(a) THEN {"ok", "lost", "failed"} ELSE {"failed"}

\* The account row after a call with outcome out that would store new.
Store(a, out, new) ==
  acct' = IF out = "failed" THEN acct ELSE [acct EXCEPT ![a] = new]

\* Mutant of Candidate: the write already names the routing group.
CandidateInGroup(l, name, sched) ==
  [status |-> "live", name |-> name, cred |-> [lin |-> l, iat |-> MintedAt[l]],
   sched |-> sched, grouped |-> TRUE]

\* The row POST /accounts stores for a grant; whether Sub2API honours the
\* schedulable field of a create or an update is left open.
Candidate(l, name, sched) ==
  [status |-> "live", name |-> name, cred |-> [lin |-> l, iat |-> MintedAt[l]],
   sched |-> sched, grouped |-> FALSE]

-----------------------------------------------------------------------------
(* The comparisons of the bridge.                                          *)

Mine(i) == [lin |-> cand[i], iat |-> MintedAt[cand[i]]]

\* Mutant of SubjectMismatch: the principals are not compared.
SubjectNotCompared(a, i) == acct[a].cred # acct[a].cred

\* auth_subject_mismatch
SubjectMismatch(a, i) == SubjectOf[acct[a].cred.lin] # SubjectOf[cand[i]]

\* auth_is_stale: another refresh token, and the access token is no newer
Stale(a, i) == acct[a].cred # Mine(i) /\ MintedAt[cand[i]] <= acct[a].cred.iat

\* credentials_advanced_after_candidate: Sub2API rotated past the candidate
Advanced(a, i) == Live(a) /\ acct[a].cred # Mine(i)
                          /\ acct[a].cred.iat > MintedAt[cand[i]]

\* find_account_snapshot: by name, by email of the credentials, by subject
Matches(i) ==
  { a \in Ids : /\ Live(a)
                /\ \/ acct[a].name = EmailOf[cand[i]]
                   \/ EmailOf[acct[a].cred.lin] = EmailOf[cand[i]]
                   \/ SubjectOf[acct[a].cred.lin] = SubjectOf[cand[i]] }

MatchesByName(i) == { a \in Ids : Live(a) /\ acct[a].name = EmailOf[cand[i]] }

\* The failures after which rollback_import_candidate keeps rotated tokens.
Preserving == {"test", "testError", "promote"}

-----------------------------------------------------------------------------
Goto(i, next) == pc' = [pc EXCEPT ![i] = next]

Answer(i, r) ==
  /\ resp' = [resp EXCEPT ![i] = r]
  /\ Goto(i, "respond")

\* A step raised, or reported failure: roll back because of c.
RollBack(i, c) ==
  /\ cause' = [cause EXCEPT ![i] = c]
  /\ Goto(i, "rollback")

\* One Sub2API call on the handler's account: on to next, or roll back.
Call(i, from, new, next, c) ==
  /\ pc[i] = from
  /\ \E out \in Outcomes(acc[i]) :
       /\ Store(acc[i], out, new)
       /\ IF out = "ok" THEN Goto(i, next) /\ UNCHANGED cause
                        ELSE RollBack(i, c)
  /\ UNCHANGED <<head, late, vetted, lock, cand, acc, snap, held, resp>>

Init ==
  /\ vetted \in SUBSET Lineages
  /\ acct \in [Ids -> {None} \cup { [Candidate(l, EmailOf[l], b) EXCEPT !.grouped = g] :
                                      l \in Lineages, b \in BOOLEAN, g \in BOOLEAN }]
  /\ \A a \in Ids : Grouped(a) => acct[a].cred.lin \in vetted
  /\ \A a, b \in Ids : Live(a) /\ Live(b) /\ acct[a].name = acct[b].name => a = b
  /\ head = MintedAt
  /\ late = {}
  /\ lock = [e \in Emails |-> None]
  /\ pc = [i \in Handlers |-> "idle"]
  /\ cand = [i \in Handlers |-> None]
  /\ acc = [i \in Handlers |-> None]
  /\ snap = [i \in Handlers |-> None]
  /\ held = [i \in Handlers |-> None]
  /\ cause = [i \in Handlers |-> None]
  /\ resp = [i \in Handlers |-> None]

-----------------------------------------------------------------------------
(* From the request to the candidate row.                                  *)

\* A client sends a credential; it may send the same one again later.
Receive(i) ==
  /\ pc[i] = "idle"
  /\ \E l \in Lineages : cand' = [cand EXCEPT ![i] = l]
  /\ Goto(i, "lock")
  /\ UNCHANGED <<remote, lock, acc, snap, held, cause, resp>>

\* Mutant of AcquireLock: pushes of one email are not serialized.
AcquireNoLock(i) ==
  /\ pc[i] = "lock"
  /\ lock' = [lock EXCEPT ![EmailOf[cand[i]]] = i]
  /\ Goto(i, "probe")
  /\ UNCHANGED <<remote, local>>

\* serialize_auth_push: the lock of the email, held until the answer
AcquireLock(i) ==
  /\ pc[i] = "lock"
  /\ lock[EmailOf[cand[i]]] = None
  /\ lock' = [lock EXCEPT ![EmailOf[cand[i]]] = i]
  /\ Goto(i, "probe")
  /\ UNCHANGED <<remote, local>>

\* validate_auth_data and probe_auth_direct: nothing is written before them
Preprobe(i) ==
  /\ pc[i] = "probe"
  /\ \/ Goto(i, "find") /\ UNCHANGED resp
     \/ Answer(i, "rejected")
  /\ UNCHANGED <<remote, lock, cand, acc, snap, held, cause>>

\* The identity lookup, with the refusals that need the account found.
Find(i) ==
  /\ pc[i] = "find"
  /\ \/ \* the query failed, or two accounts match
        /\ Answer(i, "importFailed")
        /\ UNCHANGED <<acc, snap>>
     \/ /\ Matches(i) = {}
        /\ Goto(i, "create")
        /\ UNCHANGED <<acc, snap, resp>>
     \/ \E a \in Ids :
          /\ Matches(i) = {a}
          /\ IF SubjectMismatch(a, i) \/ Stale(a, i)
             THEN Answer(i, "rejected") /\ UNCHANGED <<acc, snap>>
             ELSE /\ acc' = [acc EXCEPT ![i] = a]
                  /\ snap' = [snap EXCEPT ![i] = acct[a]]
                  /\ Goto(i, "update")
                  /\ UNCHANGED resp
  /\ UNCHANGED <<remote, lock, cand, held, cause>>

\* POST /accounts.  A create that timed out may be applied later.
Create(i) ==
  LET l == cand[i] IN
  /\ pc[i] = "create"
  /\ \/ \E a \in Ids, sched \in BOOLEAN :
          /\ acct[a] = None
          /\ acct' = [acct EXCEPT ![a] = Candidate(l, EmailOf[l], sched)]
          /\ \/ acc' = [acc EXCEPT ![i] = a] /\ Goto(i, "isolate") /\ UNCHANGED cause
             \/ Goto(i, "lookup") /\ cause' = [cause EXCEPT ![i] = "write"] /\ UNCHANGED acc
          /\ UNCHANGED late
     \/ /\ late' \in {late, late \cup {l}}
        /\ Goto(i, "lookup")
        /\ cause' = [cause EXCEPT ![i] = "write"]
        /\ UNCHANGED <<acct, acc>>
  /\ UNCHANGED <<head, vetted, lock, cand, snap, held, resp>>

\* PUT /accounts/{id}: the candidate replaces the credentials, no group.
Update(i) ==
  /\ pc[i] = "update"
  /\ \E sched \in {FALSE, acct[acc[i]].sched} :
       Call(i, "update", Candidate(cand[i], snap[i].name, sched), "isolate", "write")

\* After a create that raised: find_account_snapshot by name alone.
Lookup(i) ==
  /\ pc[i] = "lookup"
  /\ \/ Answer(i, "importFailed") /\ UNCHANGED acc
     \/ /\ MatchesByName(i) = {}
        /\ Answer(i, "unknown") /\ UNCHANGED acc
     \/ \E a \in Ids :
          /\ MatchesByName(i) = {a}
          /\ IF SubjectMismatch(a, i)
             THEN Answer(i, "unknown") /\ UNCHANGED acc
             ELSE /\ acc' = [acc EXCEPT ![i] = a]
                  /\ Goto(i, "rollback") /\ UNCHANGED resp
  /\ UNCHANGED <<remote, lock, cand, snap, held, cause>>

\* Mutant of Isolate: the account test is skipped.
IsolateAndPromote(i) ==
  Call(i, "isolate", [acct[acc[i]] EXCEPT !.sched = FALSE], "verify", "isolate")

\* POST schedulable = false.
Isolate(i) ==
  Call(i, "isolate", [acct[acc[i]] EXCEPT !.sched = FALSE], "test", "isolate")

-----------------------------------------------------------------------------
(* Test and promotion.                                                     *)

\* Mutant of Test: a failed test is taken for a usable account.
TestAlwaysUsable(i) ==
  /\ pc[i] = "test"
  /\ \/ vetted' = vetted \cup {acct[acc[i]].cred.lin}
     \/ UNCHANGED vetted
  /\ Live(acc[i])
  /\ Goto(i, "verify")
  /\ UNCHANGED <<acct, head, late, lock, cand, acc, snap, held, cause, resp>>

\* test_sub2api_account_result: usable or exhausted, failed, or raised
Test(i) ==
  /\ pc[i] = "test"
  /\ \/ /\ Live(acc[i])
        /\ vetted' = vetted \cup {acct[acc[i]].cred.lin}
        /\ Goto(i, "verify") /\ UNCHANGED cause
     \/ \E c \in {"test", "testError"} : RollBack(i, c) /\ UNCHANGED vetted
  /\ UNCHANGED <<acct, head, late, lock, cand, acc, snap, held, resp>>

\* promote_sub2api_account: the fingerprint the promotion must not change
Verify(i) ==
  /\ pc[i] = "verify"
  /\ \/ /\ Live(acc[i])
        /\ held' = [held EXCEPT ![i] = acct[acc[i]].cred]
        /\ Goto(i, "group") /\ UNCHANGED cause
     \/ RollBack(i, "promote") /\ UNCHANGED held
  /\ UNCHANGED <<remote, lock, cand, acc, snap, resp>>

Group(i) ==
  Call(i, "group", [acct[acc[i]] EXCEPT !.grouped = TRUE], "enable", "promote")

Enable(i) ==
  Call(i, "enable", [acct[acc[i]] EXCEPT !.sched = TRUE], "confirm", "promote")

\* The final fingerprint: same tokens, in the group, schedulable.
Confirm(i) ==
  /\ pc[i] = "confirm"
  /\ \/ /\ Routable(acc[i]) /\ acct[acc[i]].cred = held[i]
        /\ Answer(i, "imported") /\ UNCHANGED cause
     \/ RollBack(i, "promote") /\ UNCHANGED resp
  /\ UNCHANGED <<remote, lock, cand, acc, snap, held>>

-----------------------------------------------------------------------------
(* Rollback.                                                               *)

\* Mutant of Raise: the second rollback is entered as the first one was.
RaiseAgain(i) ==
  IF cause[i] = "test" THEN RollBack(i, "test") /\ UNCHANGED resp
                       ELSE Answer(i, "importFailed") /\ UNCHANGED cause

\* A call of the rollback raised.  In the try block of the account test the
\* exception leads to a second rollback, elsewhere to the outermost handler.
Raise(i) ==
  IF cause[i] = "test" THEN RollBack(i, "testError") /\ UNCHANGED resp
                       ELSE Answer(i, "importFailed") /\ UNCHANGED cause

\* Mutant of Unfinished: a rollback that did not complete is reported as done.
UnfinishedAsDone(i) ==
  /\ resp' = [resp EXCEPT ![i] = "rolledBack"]
  /\ Goto(i, IF cause[i] = "promote" THEN "quarGroup" ELSE "respond")
  /\ UNCHANGED cause

\* The rollback reports failure; after a promotion a quarantine is tried.
Unfinished(i) ==
  /\ resp' = [resp EXCEPT ![i] = "unknown"]
  /\ Goto(i, IF cause[i] = "promote" THEN "quarGroup" ELSE "respond")
  /\ UNCHANGED cause

\* rollback_import_candidate, account created by this push: the current row
\* is read, and a rotated token is quarantined instead of deleted.
UndoCreate(i) ==
  /\ pc[i] = "rollback" /\ snap[i] = None
  /\ \/ Raise(i)
     \/ /\ Goto(i, IF cause[i] \in Preserving /\ Advanced(acc[i], i)
                   THEN "quarGroup" ELSE "delete")
        /\ UNCHANGED <<cause, resp>>
  /\ UNCHANGED <<remote, lock, cand, acc, snap, held>>

\* restore_sub2api_account: which credentials go back with the old row
UndoUpdate(i) ==
  /\ pc[i] = "rollback" /\ snap[i] # None
  /\ \/ cause[i] \in Preserving /\ Raise(i) /\ UNCHANGED held
     \/ /\ held' = [held EXCEPT ![i] = IF cause[i] \in Preserving /\ Advanced(acc[i], i)
                                       THEN acct[acc[i]].cred ELSE snap[i].cred]
        /\ Goto(i, "restore")
        /\ UNCHANGED <<cause, resp>>
  /\ UNCHANGED <<remote, lock, cand, acc, snap>>

\* DELETE /accounts/{id}: a status that is not 200, 204 or 404 gives up
Delete(i) ==
  /\ pc[i] = "delete"
  /\ \E out \in Outcomes(acc[i]) :
       /\ Store(acc[i], out, [acct[acc[i]] EXCEPT !.status = "deleted"])
       /\ \/ /\ out = "ok" \/ ~Live(acc[i])
             /\ Goto(i, "deleteCheck") /\ UNCHANGED <<cause, resp>>
          \/ out # "ok" /\ (Raise(i) \/ Unfinished(i))
  /\ UNCHANGED <<head, late, vetted, lock, cand, acc, snap, held>>

\* and the GET that must answer 404.
DeleteCheck(i) ==
  /\ pc[i] = "deleteCheck"
  /\ \/ ~Live(acc[i]) /\ Answer(i, "rolledBack") /\ UNCHANGED cause
     \/ Unfinished(i)
     \/ Raise(i)
  /\ UNCHANGED <<remote, lock, cand, acc, snap, held>>

\* One call of a rollback: on to next, or what a failure leads to.
UndoCall(i, from, new, next, Failed(_)) ==
  /\ pc[i] = from
  /\ \E out \in Outcomes(acc[i]) :
       /\ Store(acc[i], out, new)
       /\ IF out = "ok" THEN Goto(i, next) /\ UNCHANGED <<cause, resp>>
                        ELSE Failed(i)
  /\ UNCHANGED <<head, late, vetted, lock, cand, acc, snap, held>>

RestoreRow(i) ==
  /\ pc[i] = "restore"
  /\ \E sched \in {snap[i].sched, acct[acc[i]].sched} :
       UndoCall(i, "restore", [snap[i] EXCEPT !.cred = held[i], !.sched = sched],
                "restoreSched", Unfinished)

RestoreSched(i) ==
  UndoCall(i, "restoreSched", [acct[acc[i]] EXCEPT !.sched = snap[i].sched],
           "restoreCheck", Unfinished)

RestoreCheck(i) ==
  /\ pc[i] = "restoreCheck"
  /\ \/ /\ Live(acc[i])
        /\ acct[acc[i]].cred = held[i]
        /\ acct[acc[i]].grouped = snap[i].grouped
        /\ acct[acc[i]].sched = snap[i].sched
        /\ Answer(i, "rolledBack") /\ UNCHANGED cause
     \/ Unfinished(i)
  /\ UNCHANGED <<remote, lock, cand, acc, snap, held>>

\* Mutant of QuarantineEnds: the outcome of the quarantine is not looked at.
QuarantineEndsAnyway(i, ok) ==
  IF resp[i] = "unknown" THEN Goto(i, "respond") /\ UNCHANGED <<cause, resp>>
                         ELSE Answer(i, "quarantined") /\ UNCHANGED cause

\* quarantine_sub2api_account, as the rollback or, resp already set, after it
QuarantineEnds(i, ok) ==
  IF resp[i] = "unknown" THEN Goto(i, "respond") /\ UNCHANGED <<cause, resp>>
  ELSE IF ok THEN Answer(i, "quarantined") /\ UNCHANGED cause
             ELSE Unfinished(i)

QuarantineFails(i) == QuarantineEnds(i, FALSE)

QuarantineGroup(i) ==
  UndoCall(i, "quarGroup", [acct[acc[i]] EXCEPT !.grouped = FALSE], "quarSched",
           QuarantineFails)

QuarantineSched(i) ==
  UndoCall(i, "quarSched", [acct[acc[i]] EXCEPT !.sched = FALSE], "quarCheck",
           QuarantineFails)

QuarantineCheck(i) ==
  /\ pc[i] = "quarCheck"
  /\ \/ /\ Live(acc[i]) /\ ~acct[acc[i]].sched /\ ~acct[acc[i]].grouped
        /\ QuarantineEnds(i, TRUE)
     \/ QuarantineFails(i)
  /\ UNCHANGED <<remote, lock, cand, acc, snap, held>>

-----------------------------------------------------------------------------
\* The answer leaves the with block, which releases the lock.
Respond(i) ==
  /\ pc[i] = "respond"
  /\ lock' = [lock EXCEPT ![EmailOf[cand[i]]] = None]
  /\ Goto(i, "idle")
  /\ cand' = [cand EXCEPT ![i] = None]
  /\ acc' = [acc EXCEPT ![i] = None]
  /\ snap' = [snap EXCEPT ![i] = None]
  /\ held' = [held EXCEPT ![i] = None]
  /\ cause' = [cause EXCEPT ![i] = None]
  /\ resp' = [resp EXCEPT ![i] = None]
  /\ UNCHANGED remote

\* The bridge process dies and is restarted: threads and locks are gone.
Crash ==
  /\ \E i \in Handlers : pc[i] # "idle"
  /\ lock' = [e \in Emails |-> None]
  /\ pc' = [i \in Handlers |-> "idle"]
  /\ cand' = [i \in Handlers |-> None]
  /\ acc' = [i \in Handlers |-> None]
  /\ snap' = [i \in Handlers |-> None]
  /\ held' = [i \in Handlers |-> None]
  /\ cause' = [i \in Handlers |-> None]
  /\ resp' = [i \in Handlers |-> None]
  /\ UNCHANGED remote

\* Sub2API refreshes an account's token: the old refresh token is spent.
Rotate(a) ==
  /\ Live(a)
  /\ LET l == acct[a].cred.lin IN
     /\ acct[a].cred.iat = head[l]
     /\ \E n \in Iat :
          /\ n > head[l]
          /\ acct' = [acct EXCEPT ![a].cred.iat = n]
          /\ head' = [head EXCEPT ![l] = n]
  /\ UNCHANGED <<late, vetted, lock, pc, local>>

\* A create whose answer the bridge no longer waits for is applied.
LateCreate(l) ==
  /\ l \in late
  /\ \E a \in Ids, sched \in BOOLEAN :
       /\ acct[a] = None
       /\ acct' = [acct EXCEPT ![a] = Candidate(l, EmailOf[l], sched)]
  /\ late' = late \ {l}
  /\ UNCHANGED <<head, vetted, lock, pc, local>>

\* The steps of a handler that has its lock.
Saga(i) ==
  \/ Preprobe(i) \/ Find(i) \/ Create(i) \/ Update(i) \/ Lookup(i) \/ Isolate(i)
  \/ Test(i) \/ Verify(i) \/ Group(i) \/ Enable(i) \/ Confirm(i)
  \/ UndoCreate(i) \/ UndoUpdate(i) \/ Delete(i) \/ DeleteCheck(i)
  \/ RestoreRow(i) \/ RestoreSched(i) \/ RestoreCheck(i)
  \/ QuarantineGroup(i) \/ QuarantineSched(i) \/ QuarantineCheck(i)
  \/ Respond(i)

Next ==
  \/ \E i \in Handlers : Receive(i) \/ AcquireLock(i) \/ Saga(i)
  \/ \E a \in Ids : Rotate(a)
  \/ \E l \in Lineages : LateCreate(l)
  \/ Crash

Spec == Init /\ [][Next]_vars

\* Every call of a handler ends: urlopen and psql have time-outs.
FairSpec == Spec /\ \A i \in Handlers : WF_vars(Saga(i))

-----------------------------------------------------------------------------
Stages == {"idle", "lock", "probe", "find", "create", "update", "lookup", "isolate",
           "test", "verify", "group", "enable", "confirm", "rollback", "delete",
           "deleteCheck", "restore", "restoreSched", "restoreCheck", "quarGroup",
           "quarSched", "quarCheck", "respond"}

Causes == {"write", "isolate", "test", "testError", "promote"}

Answers == {"imported", "rejected", "importFailed", "rolledBack", "quarantined", "unknown"}

\* The state keeps its types.
TypeOK ==
  /\ acct \in [Ids -> Account \cup {None}]
  /\ head \in [Lineages -> Iat]
  /\ late \in SUBSET Lineages
  /\ vetted \in SUBSET Lineages
  /\ lock \in [Emails -> Handlers \cup {None}]
  /\ pc \in [Handlers -> Stages]
  /\ cand \in [Handlers -> Lineages \cup {None}]
  /\ acc \in [Handlers -> Ids \cup {None}]
  /\ snap \in [Handlers -> Account \cup {None}]
  /\ held \in [Handlers -> Cred \cup {None}]
  /\ cause \in [Handlers -> Causes \cup {None}]
  /\ resp \in [Handlers -> Answers \cup {None}]

-----------------------------------------------------------------------------
(* Safety.                                                                 *)

\* An identity is pushed under one email only: the case the lock is made for.
OneEmailPerSubject ==
  \A l, m \in Lineages : SubjectOf[l] = SubjectOf[m] => EmailOf[l] = EmailOf[m]

\* Working(i): handler i has chosen its account and may still write to it.
Working(i) == acc[i] # None /\ pc[i] # "respond"

Rotated(c) == c.iat > MintedAt[c.lin]
Trusted(c) == c.lin \in vetted \/ Rotated(c)

\* Traffic is routed only to credentials that an account test found usable or
\* that Sub2API itself has since refreshed, whatever calls fail, whatever
\* pushes overlap and wherever the bridge crashes (bridge.py:992).
RoutableIsTrusted == \A a \in Ids : Routable(a) => Trusted(acct[a].cred)

\* Two pushes never work on the same account at once (serialize_auth_push).
OneSagaPerAccount ==
  \A i, j \in Handlers : Working(i) /\ Working(j) /\ acc[i] = acc[j] => i = j

\* No push puts the credentials of one principal into an account of another,
\* although the comparison and the write are separate calls (bridge.py:930, 963).
PrincipalIsKept ==
  [][ \A a \in Ids : Live(a) /\ Live(a)' =>
        SubjectOf[acct'[a].cred.lin] = SubjectOf[acct[a].cred.lin] ]_vars

\* The account routes a tested grant, the one that was pushed.
Serves(i) == Routable(acc[i]) /\ acct[acc[i]].cred.lin = cand[i] /\ cand[i] \in vetted

\* A 200 with imported = true: the account is routable, with a tested token of
\* the grant that was pushed, and still so when the answer leaves the bridge.
ImportedIsServing ==
  \A i \in Handlers : pc[i] = "respond" /\ resp[i] = "imported" => Serves(i)

\* What a complete rollback leaves: no account where there was none, else the
\* old row, with the old grant or the newer tokens rotated from the candidate.
Undone(i) ==
  IF snap[i] = None THEN acc[i] = None \/ ~Live(acc[i])
  ELSE LET now == acct[acc[i]] IN
       /\ Live(acc[i])
       /\ now.name = snap[i].name
       /\ now.grouped = snap[i].grouped
       /\ now.sched = snap[i].sched
       /\ \/ now.cred.lin = snap[i].cred.lin
          \/ now.cred.lin = cand[i] /\ Rotated(now.cred)

\* rollback_succeeded = true is only answered for a complete rollback.
RolledBackIsUndone ==
  \A i \in Handlers : pc[i] = "respond" /\ resp[i] = "rolledBack" => Undone(i)

\* The account holds a token that was rotated from the candidate.
HoldsRotated(i) == acct[acc[i]].cred.lin = cand[i] /\ Rotated(acct[acc[i]].cred)

\* imported = "quarantined": the rotated token is kept, and gets no traffic.
QuarantinedIsKept ==
  \A i \in Handlers : pc[i] = "respond" /\ resp[i] = "quarantined" =>
    Live(acc[i]) /\ ~Routable(acc[i]) /\ HoldsRotated(i)

\* The push implements what it promises: see ImportPromise.
Promise == INSTANCE ImportPromise WITH
  serving <- [a \in Ids |-> IF Routable(a) THEN acct[a].cred.lin ELSE None],
  trusted <- vetted \cup { l \in Lineages : head[l] > MintedAt[l] },
  waiting <- cand,
  told    <- { i \in Handlers : pc[i] = "respond" /\ resp[i] = "imported" }

KeepsPromise == Promise!Spec

\* A push, once it has the lock, is answered: no failure of a call, and no
\* second rollback, keeps the identity locked for ever.
SagaEnds == \A i \in Handlers : pc[i] \notin {"idle", "lock"} ~> pc[i] = "idle"

-----------------------------------------------------------------------------
(* The inductive invariant behind RoutableIsTrusted and OneSagaPerAccount. *)

Active(i) == pc[i] \notin {"idle", "lock"}

\* The stages that read or write the row of acc[i], and those of a restore.
OnRow     == {"update", "isolate", "test", "verify", "group", "enable", "confirm",
              "rollback", "delete", "deleteCheck", "restore", "restoreSched",
              "restoreCheck", "quarGroup", "quarSched", "quarCheck"}
Restoring == {"update", "restore", "restoreSched", "restoreCheck"}

\* A handler past the lock holds it.
LockHeld ==
  \A i \in Handlers : /\ pc[i] # "idle" => cand[i] # None
                      /\ Active(i) => lock[EmailOf[cand[i]]] = i

\* A row keeps the email it was created for as its name.
NamesOwn == \A a \in Ids : acct[a] # None => acct[a].name = EmailOf[acct[a].cred.lin]

\* A handler only works on a row of the email whose lock it holds.
TargetsOwned ==
  \A i \in Handlers :
    /\ pc[i] \in OnRow => acc[i] # None
    /\ acc[i] # None => /\ Active(i)
                        /\ acct[acc[i]] # None
                        /\ acct[acc[i]].name = EmailOf[cand[i]]

\* A snapshot is of that row, and in the group only with trusted credentials.
SnapsSound ==
  \A i \in Handlers :
    /\ pc[i] \in Restoring => snap[i] # None
    /\ snap[i] # None => /\ acc[i] # None
                         /\ snap[i].name = EmailOf[cand[i]]
                         /\ EmailOf[snap[i].cred.lin] = EmailOf[cand[i]]
                         /\ snap[i].grouped => Trusted(snap[i].cred)

\* From the write to a rollback that may keep it, the row holds the candidate.
HoldsCandidate ==
  \A i \in Handlers :
    /\ \/ pc[i] \in {"isolate", "test", "verify", "group", "enable", "confirm"}
       \/ pc[i] \in {"rollback", "delete", "deleteCheck"} /\ cause[i] \in Preserving
       => acct[acc[i]].cred.lin = cand[i]
    /\ pc[i] = "lookup" => cause[i] = "write"

\* The promotion only runs after a passed test.
PromotesVetted ==
  \A i \in Handlers : pc[i] \in {"verify", "group", "enable", "confirm"} => cand[i] \in vetted

\* What a restore writes back is the account's own, and trusted if grouped.
HeldSound ==
  \A i \in Handlers : pc[i] = "restore" =>
    /\ held[i] # None
    /\ EmailOf[held[i].lin] = EmailOf[cand[i]]
    /\ snap[i].grouped => Trusted(held[i])

GroupedIsTrusted == \A a \in Ids : Grouped(a) => Trusted(acct[a].cred)

\* All of it together.
IInv == /\ TypeOK /\ LockHeld /\ NamesOwn /\ TargetsOwned /\ SnapsSound
        /\ HoldsCandidate /\ PromotesVetted /\ HeldSound /\ GroupedIsTrusted

-----------------------------------------------------------------------------
(* What the answers, the principals and the refinement rest on besides.     *)

\* A thread between two requests was sent nothing.
IdleIsClean(i) == pc[i] = "idle" => cand[i] = None

\* The row and its snapshot belong to the principal that is pushed.
PrincipalKnown(i) ==
  /\ acc[i] # None => SubjectOf[acct[acc[i]].cred.lin] = SubjectOf[cand[i]]
  /\ snap[i] # None => SubjectOf[snap[i].cred.lin] = SubjectOf[cand[i]]

\* Only an account that the push created is deleted.
DeletesCreated(i) == pc[i] \in {"delete", "deleteCheck"} => snap[i] = None

\* A restore writes back the old grant, or newer tokens of the candidate.
RestoresOwn(i) ==
  pc[i] \in {"restore", "restoreSched", "restoreCheck"} =>
    /\ held[i] # None
    /\ held[i].lin = snap[i].cred.lin \/ (held[i].lin = cand[i] /\ Rotated(held[i]))

\* A quarantine keeps a rotated token, or only follows a rollback that failed.
QuarantinesRotated(i) ==
  pc[i] \in {"quarGroup", "quarSched", "quarCheck"} => resp[i] = "unknown" \/ HoldsRotated(i)

\* No token is newer than the head of its grant, no head older than the client's.
HeadIsNewest ==
  /\ \A l \in Lineages : MintedAt[l] <= head[l]
  /\ \A a \in Ids : acct[a] # None => acct[a].cred.iat <= head[acct[a].cred.lin]
  /\ \A i \in Handlers :
       /\ snap[i] # None => snap[i].cred.iat <= head[snap[i].cred.lin]
       /\ held[i] # None => held[i].iat <= head[held[i].lin]

\* The answer that a handler is about to give is true.
AnswerIsTrue(i) ==
  pc[i] = "respond" =>
    /\ resp[i] \in {"imported", "quarantined"} => acc[i] # None
    /\ resp[i] = "imported" => Serves(i)
    /\ resp[i] = "rolledBack" => Undone(i)
    /\ resp[i] = "quarantined" => Live(acc[i]) /\ ~Routable(acc[i]) /\ HoldsRotated(i)

HandlerInv(i) ==
  /\ IdleIsClean(i) /\ PrincipalKnown(i) /\ DeletesCreated(i) /\ RestoresOwn(i)
  /\ QuarantinesRotated(i) /\ AnswerIsTrue(i)

\* The inductive invariant behind the answers, PrincipalIsKept and KeepsPromise.
PromiseInv == IInv /\ HeadIsNewest /\ \A i \in Handlers : HandlerInv(i)
=============================================================================
