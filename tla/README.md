# Verification of grok-build-auth

TLA+ models of the concurrent and failure-prone parts of this repository, TLC
configurations that check them on small instances, and proofs for TLAPS that
hold for every value of the constants. `PROJECT.json` maps every definition to
the lines it models and lists runs, mutants, findings, hazards and theorems.

    tlc -workers 2 -config MCAuthPush.cfg MCAuthPush.tla
    tlapm AuthPush_proofs.tla

## 1. Inventory

The repository obtains xAI ("Grok") OAuth credentials, checks them, and puts
them into Sub2API, a gateway that routes traffic over accounts. A server side
registers accounts in batches and imports them; Windows clients produce
credentials of their own and push them through a bridge.

    web_console.py --starts--> register_and_import.py --starts--> run.py
                                   | leases                         | mailbox, sign-up, OAuth
                                   v                                v
                               ProxyPool                    Mailu, xAI (external)
    register_and_import.py --import tool, psql--> Sub2API (external)
    finalize_grok_batch.py, bind_quota_egress.py --psql, admin API--> Sub2API
    Windows client --cpa/*, credential files--> POST /auth-files --> bridge.py --> Sub2API

For each component: its state, its operations, what it interacts with, what is
hard about it, and what makes it correct.

| Component | State | Operations and interactions | Hard behaviour | Correct when |
|---|---|---|---|---|
| **Auth push**, `bridge/bridge.py` | a lock per email in memory; accounts, groups and flags in Sub2API | POST auth-files: validate, probe, find, create or update, isolate, test, promote; else roll back, restore or quarantine | concurrent pushes; each call may fail, or be applied and raise; token rotation and late creates by Sub2API; a crash anywhere | traffic goes to tested credentials only, one principal never gets another's account, and the answer tells what is there |
| Mailbox endpoints, `bridge/bridge.py` | none | create, read and delete Mailu mailboxes | none beyond I/O | not modelled |
| **Proxy pool**, `xconsole_client/proxy_pool.py` | leases per node in memory, the rotation in a file | acquire, release, only_refs | threads, processes, flock, refused writes, crashes | leases stay within the limit and are not lost, turns follow each other over processes |
| **Batch orchestrator**, `scripts/register_and_import.py`, `recover_batch_oauth.py` | manifest.json, bundle, auth and result files | register (threads, run.py), probe, import, bind, reconcile, resume | many writers of one manifest, failures in a row, kill and resume, lost answers, rotation between import and resume | nothing that exists upstream is unrecorded, no account is lost or imported twice, a batch that stopped can be resumed |
| **Batch closeout**, `scripts/finalize_grok_batch.py` | prepared artifact with expiry, journal, manifest, handoff, checkpoint | prepare, commit: quarantine, record, purge | crash between a file operation and its record, rerun, expiry | secrets are deleted only once what they proved is recorded; a rerun completes |
| **Credential files**, `clients/windows/cpa/*`, `cpa_reprobe.py` | one file per identity in pending, cooldown or verified; lock files; checkpoint | export, transition, re-probe, refresh, push, retry | slow probes between read and write, parallel re-probes, crash with a lock file | a credential written since a run read its own is not replaced or removed by that run (one exception, section 8), what was pushed is not pushed again |
| **Quota egress binding**, `bind_quota_egress.py` | plan file, results, Sub2API rows | build plan, apply per account, roll back | a partly applied account, stale plan | balanced quotas; an account is never left unschedulable silently or bound to an unplanned proxy |
| Web console, `web_console.py` | one task, its pid in a file, cached doctor | start, current, restore | restart of the console, process identity, threads of the HTTP server | at most one batch runs, its state is reported truly |
| **Windows registration client**, `grok_register_ttk.py` | per worker a browser, a mailbox and its letters; slots and counters shared by the workers; account and mail files | pages of the sign-up, retries of mailboxes and slots, stop, interrupt | threads, waits that end early or late, writes that are swallowed, a kill between a page and its record | the target is met and not overshot, each slot is counted, an account is written down before it can be lost |
| **Server-side runner**, `run_linux_client_full.py` | manifest of the run, one client per route | watch, count, re-probe, interrupt, result | clients and re-probes write the files it reads; lost answers | it counts what the bridge created, all of it, and comes to a result |
| Registration run, `run.py` | JSON result | registers one account, OAuth | lost answers, dies on its own | the result tells the truth about the account (its part is in Registration) |
| Reauthorization and audit tools | backups | swap of the credentials of one account | partial failure | old or new credentials, never a mixture |
| OAuth and device flow, registration protocol client, mail backends | none that lasts | exchanges with third parties | peers that are not in the repository | not modelled: sequential protocol and encoding code |
| Operator wrappers, deployment | none | command lines, configuration | none | not modelled |

The components in bold have modules. The hazards found while reading are in
`PROJECT.json`, each at its line, with the properties about it or a note that
says why there is none.

## 2. Plan

| Order | Modules | Subject | State |
|---|---|---|---|
| 1 | `AuthPush`, `ImportPromise`, `AuthPush_proofs` | the bridge's push, and the abstract promise it implements | checked, proved |
| 2 | `Leases`, `ProxyPool`, `ProxyPool_proofs` | the pool, and the lease table it implements | checked, proved |
| 3 | `Registration` (composes `Leases`) | the registration half of the orchestrator with run.py | checked, proved |
| 4 | `BatchImport` | the import half: bundle, preflight, import helper, reconciliation, resume, OAuth recovery | checked, proved with 5 |
| 5 | `Closeout` (composes `BatchImport`) | journal, quarantine, purge, crash and rerun | checked, proved |
| 6 | `Egress` | balanced plans, apply and its way back | checked, proved |
| 7 | `Credentials` | credential states, locks, re-probe, refresh and push | checked, proved |
| 8 | `Signup`, `BrowserClient` (extends it), `ClientRunner` (extends that) | the client's attempts, its workers, and the server's runner around it | checked, proved |
| 9 | `TaskManager` | one task at a time over restarts of the console | to do |

The proofs about a module `M` are in `M_proofs`, those about `BatchImport` in
`Closeout_proofs` and those about `Signup` in `BrowserClient_proofs`. Every
safety property and every action property that a passing run checks is stated
by a theorem; the liveness properties are not (section 11). Each argument has
the same shape: an inductive invariant, written as a conjunction of named parts
in the module it is about; TLC checked it on an instance before it was proved;
a lemma per action shows that the action keeps it. The sections below say what
the parts are for. The hypotheses are the `ASSUME`s of the modules (types of the
constants, finite sets, distinct null values), and two that are written in the
theorems: `OneEmailPerSubject` (section 3) and `Persistent` (section 4).

## 3. AuthPush: a credential enters Sub2API

`AuthPush.tla` models `POST /v0/management/auth-files` (`handle_request`,
`import_auth_data` and what they call). A handler thread is a program counter
`pc` over the calls it makes; its locals are `cand` (auth_data), `acc`
(account_id), `snap` (snapshot), `held` (verified state, or the credentials a
restore writes back), `cause` (which step failed) and `resp` (the answer).
`lock` is AUTH_PUSH_LOCKS. Sub2API is external, and is modelled by what the
bridge sees: rows `acct` with a name, a credential, `sched` and `grouped`.

* One action per call. A call is *ok*, *lost* (applied, and the bridge got an
  exception) or *failed* (not applied, exception): `Outcomes`, `Store`, `Call`
  and `UndoCall`. Steps without a call in between are one action.
* A credential is a grant (`lin`) and the issue time of its token (`iat`). Two
  tokens of a grant differ by rotation, which Sub2API does at any step
  (`Rotate`). This keeps what `auth_is_stale`,
  `credentials_advanced_after_candidate` and the fingerprints compare, and
  leaves the token strings out.
* `LateCreate` applies a create after its caller gave up. `Crash` drops all
  threads and locks, and nothing of Sub2API.
* `vetted` is a history variable: the grants some account test has passed.
* Left out: which of the many validation errors is answered, wording, HTTP
  status codes, the direct probe's own retries (it writes nothing).
* `Init` allows any table the bridge and an operator can have left: no two
  live accounts of a name, and grouped accounts with tested grants.

`ImportPromise.tla` is the abstract specification: which grant an account
serves, which grants are trusted, which push is told "imported". `KeepsPromise`
says that AuthPush implements it under the mapping written there.

| Run | Instance | Shows |
|---|---|---|
| `push` | 1 handler, 2 account ids, 2 grants of one identity, iat up to 3 | with every failure, rotation, late create and crash: routed credentials are trusted, and *imported*, *rolled back* and *quarantined* are true when they are answered; AuthPush implements ImportPromise |
| `push_two` | 2 handlers, 1 account id, 2 grants of two principals under one email, iat up to 3 | sagas on one account exclude each other, no principal gets another's account, each push that has its lock is answered, and PromiseInv (the proof's invariant, with IInv and TypeOK) holds |
| `push_alias` | one principal under two emails | **finding**: the lock is per email, the lookup is also by subject; two sagas meet on one account and an untested credential is routed |

The bounds: one account is where sagas meet, a second one is what a retried or
late create makes; two grants of an identity are a stale and a fresh push, two
principals under one email are what the lookup must tell apart; iat up to 3
lets a token rotate past both. Pushes of different identities share nothing, so
more handlers repeat what two do; symmetry is used in `push` only, which checks
no liveness. Fairness: WF of each handler's `Saga` only. urlopen and psql have
time-outs, so each step ends one way or another. Nothing is assumed of
`Receive`, `AcquireLock` (the waiting push may starve, and `SagaEnds` does not
promise it anything), `Rotate`, `LateCreate` or `Crash`.

**Proved** (`AuthPush_proofs.tla`), for all handlers, accounts, grants and
emails: `Invariance` (IInv), `TypeCorrect`, `RoutingIsTrusted`
(RoutableIsTrusted), `SagasExclude` (OneSagaPerAccount), `PromiseInvariance`
(PromiseInv), `ImportedServes`, `RolledBackUndoes` and `QuarantinedKeeps` (what
the three answers claim), `PrincipalsKept` (PrincipalIsKept) and
`PushImplements` (KeepsPromise, the refinement). The only hypothesis beyond the
constants' types is `OneEmailPerSubject`: a principal is pushed under one email.
`push_alias` shows that it is needed.

RoutableIsTrusted is not inductive: a handler about to promote must hold a
tested candidate, and nobody else may have changed the row since. The argument
is `IInv`: a handler past the lock holds it (`LockHeld`), a row keeps the email
it was made for (`NamesOwn`), so a handler works only on rows of its own email
(`TargetsOwned`), and two of them never share a row; hence the row still holds
the candidate (`HoldsCandidate`), which was tested before a promotion
(`PromotesVetted`), and what a restore writes back was trusted
(`SnapsSound`, `HeldSound`). Together they keep `GroupedIsTrusted`, which
implies RoutableIsTrusted. The proof has a lemma per action (`...IInv`), over
lemmas for the shapes of step they share (`RowStep`, `CallStep`, `UndoStep`,
`LocalStep`, `ChooseStep`, `RemoteStep`).

What an answer claims rests on what the handler did several calls before, and on
nobody having undone it: `PromiseInv` adds to IInv that the account and its
snapshot belong to the principal that is pushed (`PrincipalKnown`), that only a
created account is deleted (`DeletesCreated`), that a restore writes back the
old grant or newer tokens of the candidate (`RestoresOwn`), that a quarantine
keeps rotated tokens (`QuarantinesRotated`), and that an answer that is about
to be sent is true (`AnswerIsTrue`). `HeadIsNewest` bounds every token by the
newest of its grant, so that a refresh by Sub2API does make a token newer than
the pushed one, and than the one a snapshot holds. The proof shows
each step of a handler to be a `SagaStep` (it leaves the other handlers alone,
writes its own row only, with its own principal and no newer token), which keeps
what the others know (`Untouched`) since sagas do not share rows; rotations,
late creates and crashes have lemmas of their own. The refinement maps each
step to a step of ImportPromise or to a stutter (`Promise...`): a
promotion serves a grant that was trusted before, a rollback withdraws it, a
successful test trusts it, and only an "imported" answer tells.

Only model-checked: `SagaEnds` (liveness).

## 4. ProxyPool: leases and their rotation

`ProxyPool.tla` models `acquire` and `release` step by step: the threading.Lock
(`LockPool`), the flock (`LockFile`), the read of the state file and the choice
(`Choose`, `Refuse`), the replacement of the file (`WriteCursor`, `WriteFails`),
the count and the lease (`Grant`), and the two halves of release (`ReadActive`,
`WriteActive`). `Restart` is the death of a process at any step and its
successor, with the nodes a new health check leaves (`only_refs`). Positions in
the list are modelled by the nodes at them, ordered by `Rank`. `turn` is a
history variable: who was chosen last, from which nodes.

`Leases.tla` is the abstract table. `PoolKeepsPromise` says that each process
implements it; `Registration` is composed with `Leases`, not with its
implementation.

| Run | Instance | Shows |
|---|---|---|
| `pool` | 3 nodes, 2 processes of 2 threads and 1 thread, restarts with different healthy sets | RotationInv (the proof's invariant), WithinLimit, the refinement, and TurnsFollow: the processes share one rotation |

Two threads of one process meet at the lock, and a thread of another one at the
flock; three nodes are the fewest where passing one over can be told from
going round. Lock waits are modelled by blocked actions. No fairness is assumed.

**Proved** (`ProxyPool_proofs.tla`), for every set of nodes, processes and
threads: `PoolInvariance` (IInv), `LeasesWithinLimit`, `PoolImplements` (Spec
implements Leases in every process), `RotationInvariance` (RotationInv) and
`RotationIsShared` (TurnsFollow). The locks are held by those inside
(`LocksHeld`), so a choice or a count that was read is still right when it is
written (`ChoiceFresh`), so the counts are the leases (`Counted`) and stay
within the limit. `Persistent = FALSE` (no state file) is covered by the proof;
the run has it TRUE, where there is more to go wrong.

TurnsFollow relates two turns between which any process may have died:
`RotationInv` says that the file names the node after the last turn's
(`TurnSaved`), and that what a thread has chosen is still next when it writes it
down (`PickInTurn`): the flock keeps others from moving the cursor, the lock of
its process from changing the counts it chose by. That the first node with room
from there passes over none is arithmetic of going round (`RoundOnce`,
`AwayFrom`, `NextPassesOverNone`). `RotationIsShared` assumes `Persistent`:
without a state file each process has a rotation of its own, and starts it again
with every restart.

## 5. Registration: a batch and its attempts

`Registration.tla` models `register_and_import.py` from the new batch to the
saved bundle (1109-1315) with `run.py`, a process that survives the batch.

* The main thread (`main`): `Fill` submits up to `WorkerCount` attempts, then
  `MainSave`, `Wait` (FIRST_COMPLETED) and `Handle`, one future at a time, each
  with its counters, the abort and the submission of the next; `HandleRaises`
  and `MainNotSaved` leave the loop, and `Unwind` is the executor's wait for its
  threads. `Finish` writes the bundle.
* An attempt (`pc`): `Start`, `Acquire` (of `Leases`), the save that records it,
  `CreateMailbox`, the save of stage signup and the start of run.py, the saves
  of each line and heartbeat, `Registered` or `Fail`, `Clean`, `Release` and the
  closing save, which is in the finally too.
* The manifest is `memory`, the dict all threads change; a save is two steps
  under `manifest_lock` (`saver`): `BeginSave` (json.dumps, into `writing`) and
  `EndSave` (os.replace).
  `SaveRaises` stands for a full disk and for a dict that another thread extends
  while it is dumped. It may happen to any save, and leads where the exception
  leads: a failed attempt, a run.py nobody waits for, a future that raises, or
  the end of the loop.
* run.py: `SignUp` with an answer that may be lost, `WriteResult`, `Exit`,
  `ChildDies`. `account` is what the service has, `told` what run.py knows.
* Statuses stand for the manifest's entries; stages, times, messages, the health
  check (only its healthy nodes remain), and the bundle's content are left out.
  The saves while run.py runs end with it: later lines repeat them.
* `Faults` names which failures a run of TLC allows.

| Run | Instance | Shows |
|---|---|---|
| `registration` | 2 attempts on two workers; the health check leaves one node, with two leases or one; every fault, a kill at any step, fairness | nothing exists upstream that manifest.json does not name, an account known to run.py keeps its mailbox, manifest.json never goes back, the batch ends, and then each attempt is counted once and the bundle is what the manifest calls registered |
| `registration_lost_answer` | 1 attempt whose answer may be lost | **finding**: `account_created` is false when the answer of create_account is lost, and the mailbox of an existing account is deleted as "confirmed not created" |

Two attempts at once and the main thread are the three kinds of pairs that save.
With two leases the attempts run together; with one, the second is submitted
after the first has ended, which is where a limit of one failure in a row stops
the batch. The leases of a node are interchangeable. Fairness: WF of
the main thread, of each attempt and of each run.py. The first two are plain
code under locks that are always released; run.py's waits have time-outs
(run.py:254, 445), and register_and_import.py itself has none for it, so
`BatchEnds` rests on run.py's. Deadlock is not checked because a batch stops.

**Proved** (`Registration_proofs.tla`), for any number of attempts and workers,
any policy, pool and set of faults: `RegistrationInvariance` (IInv, which the
run checks too), `EverythingRecorded` (NothingUnrecorded), `MailboxesKept`
(KnownAccountKeepsMailbox), `AttemptsCounted` (EveryAttemptCounted) and
`ManifestAdvances` (ManifestNeverGoesBack). A save is a dump and a replacement,
and other threads go on between them. So the file lags behind the dict, and the
dump behind it: `DiskBehind` orders the three, for every attempt, because one
thread at a time is inside manifest_lock (`SaverHolds`) and each attempt's
status only grows with its place (`StatusFollows`). An attempt past its first
save is therefore in the file (`Recorded`). The counters need that futures are
handled once and in any order: submissions have no gap (`InOrder`), what was
handled has ended and is in the bundle or a failure (`Handled`, `Tallied`), and
a batch that goes on has attempts in flight (`GoesOn`). `ChildKnows` is what
run.py can know of an account. Only model-checked: `BatchEnds`.

## 6. BatchImport and Closeout: from the bundle to a closed batch

`BatchImport.tla` takes a batch over where Registration leaves it, `Closeout.tla`
extends it with `finalize_grok_batch.py`. What is durable is in `manifest`,
`files` (auth files, logs, bundle and the import's own secret files), `rows`
(result files), `dumps` (database backups) and `accounts` (Sub2API); the
closeout adds `artifact`, `journal`, `quarantine`, `checkpoint` and `handoff`.
What a kill destroys is in `proc` and `mem`: the one command that holds the
batch lock, and the manifest as it read it.

* One action per durable write or external call, but for `Reconcile` (the PUTs
  of all accounts) and `RecoverGrant` (auth file and result row). Between any two
  actions the command can be killed (`Kill`), and the import helper it started may live on
  and create the accounts afterwards (`orphan`).
* `recovery` is `recover_batch_oauth.py`. It takes no lock, holds a manifest of
  its own and writes it back, whatever another command does meanwhile.
* Sub2API resolves an account by the hash of its access token; when it has
  rotated the token it is found by its identity only. Accounts may stop being
  active (`WorldNext`).
* The closeout's journal has an entry per file, in order; a file is moved, then
  its entry is saved; later it is unlinked, then its entry is saved. A rerun
  starts from the journal (`OldJournal`) and accepts a file that is already
  where the entry's next state has it.
* An attempt's files are told apart by name and by `built`, the number of the
  build they come from, which stands for their digests.

| Run | Instance | Shows |
|---|---|---|
| `batch` | 2 attempts, the first registered, the second with an account at least; 3 account ids; 2 more commands (resume, recovery, prepare), confirmations without a limit; 1 fault; two of these three if both are registered | IInv (the proof's invariant); a grant is in its file, in the quarantine or handed over; the manifest never runs ahead of the journal; *imported-preprobed* is true of production; a closeout that moved its first file is completed by confirming again |

One attempt with its grant and one whose OAuth has to be recovered are what the
bundle, the digest and the closeout must keep apart; three account ids leave
room for a second import of one of them. Two more commands are a resume or a
recovery, and a prepare; each fault is possible at each step. With two
grants from the start a behaviour has two commands and faults together
(`budget`), which keeps the run short; all three were checked once, with three
times the states. Fairness: WF of `Confirm \/ ConfirmStep`, which says that the
operator confirms again after a kill and that a command which runs goes on; that
is how the code and its messages ask to be used, not something a process does by
itself.
`BegunCloseoutEnds` therefore says that no state makes the rerun refuse.

**Proved** (`Closeout_proofs.tla`), for any number of attempts, accounts,
commands and faults: `CloseoutInvariance` (IInv), `GrantsKept` (NothingLost),
`ImportedHolds` (ImportedIsTrue) and `RecordsFollow` (RecordsFollowJournal).
NothingLost by itself says nothing of a command halfway: a purge may unlink an
OAuth file only because of what was saved earlier, possibly by another command.
`Confirmed` says what a confirmation has reached at each of its steps (artifact,
checkpoint and handoff name the same accounts; the journal has no entry left
that an earlier step deals with). `OneArtifact` connects what survives a kill:
handoff and checkpoint are those of the journal's artifact, a later artifact
has a later number, and the journal names no OAuth file but the artifact's.
`CopiesFollow` says of every copy of the manifest, also the one that the
recovery holds and the one a killed command has saved, that it does not run
ahead of the journal. `ImportTrue` carries the accounts through the import's
steps (`AccountsNumbered`, `AccountsReal`: the program names only accounts there
are). Only model-checked:
`BegunCloseoutEnds`.

## 7. Egress: quotas and bindings

`Egress.tla` models `bind_quota_egress.py`. `MakePlan` is `plan`: `Totals` is the
greedy loop of compute_balanced_quotas, as a recursive function over `AddOne`, and
`Assignments` is any assignment within the quotas (the shuffle depends on a
seed). Plans stay on disk, so `BeginApply` may take an old one. `Precheck` to
`Summary` are `apply`: the first GETs, the backup, and for each account the GET,
the write that makes it unschedulable, the binding, the write that makes it
schedulable, the verification, and `UndoProxy` and `UndoSched` on the way back.
A call is done, refused, or done with its answer lost (`Write`). `Others` is
what Sub2API and an operator do to an account between two calls. `touched`,
`raced` and `killedAt` are history variables: they keep what others did, and
what a kill cut short, out of promises about the tool.

| Run | Instance | Shows |
|---|---|---|
| `egress` | 3 accounts (one a plan takes, one in any state, one bound before), a pool of 2, 2 plans, 2 applies, 1 fault | plans balance the pool (against a definition, not against the loop), *binding_applied* and *restored* are true, no account stays unschedulable in silence, an apply removes no binding but its own |

Two proxies with one bound account make a plan unequal; two plans and two
applies are a stale plan and a repeated one. Two commands at the same time are
left out: the tool has no lock against them.
Deadlock is not checked, and nothing is assumed to be fair.

**Proved** (`Egress_proofs.tla`), for any accounts, proxies, plans, applies and
faults: `EgressInvariance` (IInv), `NoneStoppedInSilence` (StoppedIsReported),
`RestoredIsTrue` (FailedIsRestored), `SummaryIsTrue` (OutcomeIsTrue),
`NoBindingTaken` (BindingsKept), `PlansBalance` (PlanBalanced) and `QuotasAddUp`.
IInv says how far an apply is with each account of its plan: those to come were
schedulable when they were checked (`Checked`), the one in hand has no proxy or
the planned one (`HandOK`), those that are done have a row that is true
(`RowsOK`), the three sets are the plan (`Walks`), and what a summary calls
applied is in nobody's hand (`SummaryKept`). It implies the invariants of the run but
PlanBalanced, and TLC checked it on the same instance.

PlanBalanced is about what a loop computes. `Totals` is shown to satisfy its
recursion (`FillExists`, `TotalsZero`, `TotalsNext`), and then, by induction over
the number of candidates, to leave a proxy that got one at most one above any
other (`TotalsBalance`) and to admit an assignment (`QuotasAddUp`): the two
ToolErrors for quotas that do not add up are never raised. Induction is a
theorem about sets of numbers here (`Induction`, from the least counterexample).

## 8. Credentials: the files of one identity

`Credentials.tla` models `cpa/state.py`, `cpa_reprobe.py` and the part of
`cpa_export.py` that stores a credential, for one identity: its file has the
same name in verified, pending and cooldown. A token stands for a credential, and
the relation `newer` for the mtimes of the files, which grow strictly.

* A re-probe run (`RunStep`) takes the operation lock, reads, probes, refreshes
  (xAI spends the old token; the answer may be lost), stores under the identity
  lock if the fingerprint is still the one it expects, probes again, moves,
  pushes and writes its copy of the checkpoint back. Export takes the identity
  lock only. A store or a move whose temporary file cannot be written ends a run
  with an error record (`WriteRaises`); for an export that is like a crash.
* `Move` is the critical section of `transition` up to os.replace; the unlinks of
  the other directories follow (`RemoveOthers`), and any of them may fail
  (`UnlinkRaises`).
* `Crash` leaves lock files (`Dead`), also that of an identity lock under which
  nothing was done yet; `ClearLocks` is somebody who removes them.
* `fresh` is a history variable: the directories that others wrote while a run
  was at work, *old* between its read and its `Store`, *new* since the later of
  the two.
* Assumed: sections under a lock are shorter than the time-outs of those who
  wait (a time-out happens for a dead lock only), and verified_dir is
  root/cpa_auths, as the shipped configurations have it.

| Run | Instance | Shows |
|---|---|---|
| `credentials` | 2 runs, with the verified files or with the push of cooldowns; 3 tokens; 1 fault | a run replaces or removes what others wrote since its read in the one case below only; a usable token remains; *pushed* in the checkpoint is a fact; IInv (the proof's invariant) |
| `credentials_classes` | the same | **finding**: a push without an HTTP answer is counted as passed and as an error, and the assertion at the end of the run fails |

`NoLostUpdate` has one exception, which is the code's: an export writes
cpa_auths/x and its unlink of pending/x raises; a run that read pending/x before
stores its refreshed token there, for `replace_if_fingerprint` compares no mtimes
(state.py:155-167); now pending/x is the newest file, and the run's `transition`
replaces or removes the export's (105-131). What others write after the store is
safe, and so is everything when the run does not refresh. Without the exception
TLC finds this behaviour in the run's own instance. `LastUsableKept` holds
throughout: what is left is the token the run has just been given.

Three tokens are the one a run has read, its refresh, and a login in between.
Runs are numbered in the order in which they start.

**Proved** (`Credentials_proofs.tla`), for any number of runs, tokens and faults
and any options: `CredentialsInvariance` (IInv), `LastCredentialKept`
(LastUsableKept), `CheckpointIsTrue` (PushedIsTrue) and `NoUpdateLost`
(NoLostUpdate). A run reads without the identity lock and writes much later
under it; that is sound because it can tell that somebody wrote since its read
or its store (`ChangeIsSeen`: its token is gone or some file is newer), knows its token or the one that replaces it (`InMemory`), and
is the only one to know a token it has just got (`ExportAlone`, `IssuedOnly`).
LastUsableKept needs to know *which* file has the usable token: the newest one
(`FilesOrdered`, `NewestUsable`), also between the replacement and the unlinks of
a transition (`Unlinking`) and when a run has lost its own file
(`NewestIsOther`). Records of pushes are true in the checkpoint and in all
copies of it (`RecordsTrue`), so it does not matter which is written back.

## 9. Signup, BrowserClient, ClientRunner

`Signup.tla` models `register_one` of `grok_register_ttk.py`: `at` is the stage
of each worker's attempt, from the open sign-up page over mailbox, letter,
profile, cookie, terms, the gate of grok.com, birth date and conversation to the
account file, the OAuth credential and its push. Pages, mail and xAI are
external: an action on a page includes the page's reaction (`page`), letters
come by themselves (`Deliver`), and a wait ends at its deadline whenever it
likes (`GiveUp`, `CodeFails`, ...), since deadlines are not measured. Page
scripts are abstracted to what they wait for and what they make of the page.
`Cancelled` is the callback that every wait calls.

`BrowserClient.tla` adds the worker's loop (claim a slot, retry a stuck one,
count the outcome, restart the browser), `SharedState`, the main thread that
joins, its summary and the interrupts. `ClientRunner.tla` adds one route of
`run_linux_client_full.py`: `Watch` every few seconds, re-probes next to the
client, the interrupt when the target is reached, the last re-probe, `Result`,
and the death of the runner. A second route shares nothing but the loop. The
preparation (directories, configurations, preflight) is left out.

| Run | Instance | Shows |
|---|---|---|
| `client` | 2 interchangeable workers, default configuration, 3 slots, target 1, 3 mailboxes, 1 fault, 1 interrupt | successes exceed the target by what was in flight at most, each slot is counted but for a worker that died with it, and accounts are written down before they can be lost |
| `client_runner` | 1 worker, server configuration, Cloudflare mail, 2 mailboxes with 2 letters and 2 looks each, 2 slots, target 1, 1 fault, fairness | RunnerIInv (the proofs' invariant, with the client's IInv); what the runner counts was created by the bridge and answered, what was created is counted, but for one account per fault and per worker killed, and a run comes to a result |

Three slots on two workers let a worker claim one while the other has met the
target; the loops over letters, looks, canaries and mailboxes go round once more
in the second run, where the server's stages are. Fairness: WF of the runner's
steps, of the re-probe's, of the main thread's and of each worker's, because
every loop of theirs has a deadline; none of the site, the mail and the bridge.

**Proved**, for any number of workers, slots, mailboxes, letters and faults:
`ClientInvariance` (the client's IInv), `TargetBounded` (OvershootBounded),
`SlotsCounted` (EverySlotCounted) and `WrittenDown` (AccountsWrittenDown) in
`BrowserClient_proofs.tla`; `RunnerInvariance` (RunnerIInv), `ManifestIsReal`
(CountedIsReal) and `ManifestMissesNothing` (CreatedIsCounted) in
`ClientRunner_proofs.tla`, which extends it. The bound on the overshoot comes
from counting workers: a slot is counted, held by a worker, or was lost by one
that is gone (`SlotsHeld`), and one is claimed below the target only
(`TargetAhead`). The attempt's own part is in `HasBox` and `MayChange` (which
mailbox, account and page a stage can have) and `WritesLost`. The runner reads
files that the workers and the re-probes write: a worker's mailbox is its own
until its push is answered (`OwnBox`), what is placed belongs to a created
account (`Placed`), a re-probe has in hand what it found (`Reprobing`), the
last re-probe comes after the client's end (`Ended`), so the runner has missed
no record (`RecordsReal`), and what is in Sub2API without a record has cost a
fault or a killed worker. Only model-checked: `RunEnds`.

## 10. Disagreements met while modelling that no run checks

Besides the findings above:

* A rollback that raises is answered IMPORT_FAILED with imported = false while
  the candidate row may be there (bridge.py:1088; OPERATIONS.zh-CN.md:593).
* The PUT of a restore overwrites a token that Sub2API rotated after the read
  (bridge.py:646).
* The rotation starts with the first node when the saved next one is unhealthy
  (proxy_pool.py:179; OPERATIONS.zh-CN.md:183 says that batches go on).
* A resume after a kill whose import helper still works imports twice
  (register_and_import.py:1370-1391; OPERATIONS.zh-CN.md:336). A batch killed
  while it imports is not listed by latest_resumable_batch (1378); one that is
  listed may have a bundle that its manifest does not name yet.
* The number of workers is clipped to the leases of the healthy nodes
  (register_and_import.py:1089), silently for the caller of --workers.
* A rerun of the closeout can leave a manifest that is not *completed* and names
  attempts again, when a recovery saved its copy in between; a journal can
  belong to an artifact that was prepared again since.
* A second SIGINT, which the runner sends every 5 s while the client lives
  (run_linux_client_full.py:395), ends the client inside the join of its handler
  (grok_register_ttk.py:4645-4649): no summary, no clean-up.
* A push whose answer is lost is not retried by the runner; with
  --include-verified a push without an answer is not retried by a re-probe
  either. "newer auth state exists; refusing stale transition" (state.py:114) is
  not what a run does that has refreshed a stale duplicate: storing its token
  makes that the newest file (155-167), and the transition replaces or removes a
  credential that an export wrote since the run's read (section 8). Two runs
  overwrite each other's copy of the checkpoint. The lock file of a dead process
  never ages.
* An apply killed between its two writes of schedulable leaves the account
  unschedulable, and the next apply refuses the plan as drifted.
* A letter counts as seen before its details are fetched
  (grok_register_ttk.py:1063); the click on the birth modal counts as a success
  unverified (2058-2066).
* AUTH_PUSH_LOCKS keeps a lock for every email ever pushed (bridge.py:219). The
  console starts a task before it saves its pid (web_console.py:135).

## 11. What the checks do not show

* The liveness properties `SagaEnds`, `BatchEnds`, `BegunCloseoutEnds` and
  `RunEnds` are checked by TLC on the instances above only: the proof system has
  no rules for fairness and ENABLED. The three findings are violations on an
  instance and need no proof.
* The proofs are about the models, and assume what section 3 to 9 say of the
  environment. Constants of the runs are within the assumptions of the proofs,
  but the exploratory bounds (faults, commands, tokens) are parameters there:
  the theorems hold for every value of them.
* Sub2API, Mailu, xAI and the mail providers are modelled as the code uses them.
  That Sub2API applies a call wholly or not at all is an assumption.
* Not modelled: the web console (its commands are; its own state is a pid and a
  cached check), the mailbox endpoints, reauthorization and audit tools, the
  OAuth and device flows, the protocol client, mail backends, wrappers and
  deployment. These are sequential exchanges with third parties, command lines
  and configuration; `PROJECT.json` has the reason of each.
* Coarser than the code: of the bridge's calls only a create can take effect
  after its time-out, a PUT does at once or never (`AuthPush.Call`); the same
  holds of the egress tool's writes, whose result log never fails (`Egress`); a
  registration's last action does not raise and a database dump is a snapshot
  (`Registration.Finish`); `BatchImport.Reconcile` makes several PUTs and
  `RecoverGrant` two writes in one action; the runner reads successes.jsonl
  whole, where the code skips a torn line (`ClientRunner.Watch`), and waits for
  its own re-probe, so only the client goes on while it counts.
* No property forbids that an import is done twice (section 10), that two
  re-probe runs overwrite each other's checkpoint records, or that
  --include-verified takes an error record for nothing to do: the properties say
  what must be true in spite of these.
* The parsing and validation of requests, pool files, tokens, letters and pages.
* Configurations that the runs do not instantiate: more than one kind of mail
  provider at a time, two commands of the egress tool at once.
