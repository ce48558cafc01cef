----------------------------- MODULE BatchImport -----------------------------
(***************************************************************************)
(* The second half of scripts/register_and_import.py: one registration     *)
(* batch, from its token bundle to production accounts in Sub2API, with    *)
(* --resume, and scripts/recover_batch_oauth.py, which signs in again for  *)
(* attempts whose account exists but whose OAuth failed.                   *)
(*                                                                         *)
(* manifest, files, rows, dumps and accounts are durable: manifest.json,   *)
(* the secret files of the batch directory, results/*.json, backup/*.dump  *)
(* and the accounts table of Sub2API.  proc and mem are the command that   *)
(* holds batch-orchestrator.lock and the manifest in its memory; recovery  *)
(* is the recovery command, which takes no lock.  Each action is one       *)
(* durable write or one call of another system, so Kill can fall between   *)
(* any two; two actions are coarser, Reconcile (the PUTs of all accounts)  *)
(* and RecoverGrant (the auth file and the result row).                    *)
(*                                                                         *)
(* Left out: the configuration checks before the first write, the wording  *)
(* of errors, current_stage and the heartbeat (neither is read back),      *)
(* import/result.json until the closeout writes it, and the choice of the  *)
(* exit node of each probe.                                                *)
(***************************************************************************)
EXTENDS Integers, FiniteSets, TLC

CONSTANTS
    Attempts,     \* the attempts of the batch
    MaxIds,       \* bound on the accounts Sub2API creates
    None,
    MaxCommands,  \* bound on the commands given after the first
    MaxFaults     \* bound on kills and on what Sub2API does by itself

ASSUME BatchAssumption ==
    /\ IsFiniteSet(Attempts)
    /\ MaxIds \in Nat
    /\ MaxCommands \in Nat
    /\ MaxFaults \in Nat

VARIABLES
    manifest,     \* manifest.json
    files,        \* the secret files: name -> content, or None
    rows,         \* results/<prefix>.json: what run.py left of each attempt
    dumps,        \* backup/*.dump
    accounts,     \* Sub2API: account ID -> account, or None
    orphan,       \* attempts an import helper left alone by a kill may still create
    proc,         \* the command that holds the batch lock
    mem,          \* its manifest
    found,        \* its account map: attempt -> account ID
    recovery,     \* recover_batch_oauth.py
    built,        \* counts what was built, to tell one bundle or dump from the next
    commands,     \* the commands given after the first, up to MaxCommands
    faults        \* the faults so far, up to MaxFaults

diskVars == <<manifest, files, rows, dumps>>
batchVars == <<manifest, files, rows, dumps, accounts, orphan, proc, mem, found,
               recovery, built, commands, faults>>

-----------------------------------------------------------------------------
(* Data. *)

Auth(t) == <<"auth", t>>
Log(t) == <<"log", t>>
Bundle == <<"bundle">>
Pending == <<"pending">>
Helper == <<"helper">>

Names == {Auth(t) : t \in Attempts} \cup {Log(t) : t \in Attempts}
            \cup {Bundle, Pending, Helper}

\* What a file holds: the grants (or accounts) of some attempts, the account
\* IDs in it, the dump it refers to, and the build that made it (exported_at).
File(of, ids, dump, made) == [of |-> of, ids |-> ids, dump |-> dump, made |-> made]

Sources(m) == {t \in Attempts : m.att[t] = "registered"}
FailedOf(m) == {t \in Attempts : m.att[t] = "failed"}

Ids == 1..MaxIds

Contents == [of : SUBSET Attempts, ids : SUBSET Ids, dump : Nat, made : Nat]
Accounts == [of : Attempts, rotated : BOOLEAN, active : BOOLEAN, proper : BOOLEAN]
Statuses ==
    {"running", "resuming-import", "registration-failed-import-skipped", "registered-not-imported",
     "preimport-probe-failed", "importing", "import-failed", "import-verification-failed",
     "postimport-account-probe-failed", "postimport-probe-failed", "imported-preprobed",
     "imported-not-probed", "completed"}
Manifests ==
    [status : Statuses, att : [Attempts -> {"registered", "failed", "probe-failed", "none"}],
     digest : Contents \cup {None}, succ : Nat, fail : Nat,
     pre : [tested : Nat, passed : SUBSET Attempts],
     post : {"none", "passed", "spent", "failed"}, ids : SUBSET Ids, backups : SUBSET Nat,
     cleanup : {"none", "quarantined", "completed"}]

ASSUME NoneAssumption == None \notin Contents \cup Accounts

Idle == [cmd |-> "none", at |-> "idle", partial |-> FALSE,
         helper |-> "none", made |-> {}, dump |-> 0]
NoRecovery == [at |-> "idle", mem |-> None]

Held == {i \in Ids : accounts[i] # None}
AccountsOf(t) == {i \in Held : accounts[i].of = t}

\* resolve_existing_account_ids: by the hash of the access token, which Sub2API
\* no longer shows once it has rotated the grant.
Matches(t) == {i \in AccountsOf(t) : ~accounts[i].rotated}
Resolved(ts) == [t \in {s \in ts : Matches(s) # {}} |-> CHOOSE i \in Matches(t) : TRUE]
DuplicateHash(ts) == \E t \in ts : Cardinality(Matches(t)) > 1

\* Sub2API numbers its accounts one after the other.
NewIds(n) == (Cardinality(Held) + 1)..(Cardinality(Held) + n)
RoomFor(n) == Cardinality(Held) + n <= MaxIds

\* Sub2API creates one account for each bundle entry of S.
Created(S) ==
    LET new == NewIds(Cardinality(S))
        of  == CHOOSE f \in [new -> S] : \A i, j \in new : i # j => f[i] # f[j]
    IN  [i \in Ids |-> IF i \in new
                       THEN [of |-> of[i], rotated |-> FALSE, active |-> TRUE, proper |-> FALSE]
                       ELSE accounts[i]]

RuntimeManifest(att, bundle) ==
    [status |-> "running", att |-> att, digest |-> bundle,
     succ |-> Cardinality({t \in Attempts : att[t] = "registered"}),
     fail |-> Cardinality({t \in Attempts : att[t] = "failed"}),
     pre |-> [tested |-> 0, passed |-> {}], post |-> "none", ids |-> {},
     backups |-> {}, cleanup |-> "none"]

\* Types. A command that runs is at one of its steps.
ImportSteps ==
    {"bundle", "rebuild", "preflight", "gate", "preprobe", "narrow", "narrowed", "resolve", "backup",
     "pending", "helper", "helped", "checked", "record", "resolve-again", "reconcile", "verify",
     "postprobe", "postfailed", "group", "finish"}
PrepareSteps == {"probe", "write"}
ConfirmSteps ==
    {"journal", "checkpoint", "handoff", "quarantine", "moved", "manifest", "handoff-quarantined",
     "checkpoint-quarantined", "purge", "purged", "manifest-final", "handoff-final",
     "checkpoint-final"}
Procs ==
    [cmd : {"import", "prepare", "confirm"}, at : ImportSteps \cup PrepareSteps \cup ConfirmSteps,
     partial : BOOLEAN, helper : {"none", "failed", "ok"}, made : SUBSET Ids, dump : Nat]

BatchTypeOK ==
    /\ manifest \in Manifests
    /\ files \in [Names -> Contents \cup {None}]
    /\ rows \in [Attempts -> {"granted", "created", "none"}]
    /\ accounts \in [Ids -> Accounts \cup {None}]
    /\ orphan \subseteq Attempts
    /\ proc = Idle \/ proc \in Procs
    /\ proc.cmd \in {"import", "prepare"} => mem \in Manifests
    /\ recovery = NoRecovery \/ recovery \in [at : {"grants", "save"}, mem : Manifests]
    /\ built \in Nat

BatchInit ==
    \E att \in [Attempts -> {"registered", "failed"}] :
        /\ \E t \in Attempts : att[t] = "registered"
        /\ rows \in [Attempts -> {"granted", "created", "none"}]
        /\ \A t \in Attempts : (att[t] = "registered") <=> (rows[t] = "granted")
        /\ manifest = RuntimeManifest(att, None)
        /\ files = [n \in Names |->
                      IF n \in {Auth(t) : t \in Sources(manifest)} \cup {Log(t) : t \in Attempts}
                      THEN File({n[2]}, {}, 0, 0)
                      ELSE None]
        /\ proc = [Idle EXCEPT !.cmd = "import", !.at = "bundle"]
        /\ mem = manifest
        /\ dumps = {}
        /\ accounts = [i \in Ids |-> None]
        /\ orphan = {}
        /\ found = <<>>
        /\ recovery = NoRecovery
        /\ built = 0
        /\ commands = 0
        /\ faults = 0

-----------------------------------------------------------------------------
(* Steps of a command. *)

At(cmd, at) == proc.cmd = cmd /\ proc.at = at
Go(at) == proc' = [proc EXCEPT !.at = at]

\* Mutant of Exit: the command ends and keeps its flags.
ExitKeepsFlags == proc' = [proc EXCEPT !.at = "idle"] /\ mem' = None /\ found' = <<>>

\* The command ends, or raises, and the lock is free.
Exit == proc' = Idle /\ mem' = None /\ found' = <<>>

Save(m) == manifest' = m /\ mem' = m
EndWith(m) == manifest' = m /\ Exit
Status(m, s) == [m EXCEPT !.status = s]

Fault == faults < MaxFaults /\ faults' = faults + 1

RaiseAt(cmd, at) ==
    /\ At(cmd, at)
    /\ Exit
    /\ UNCHANGED <<diskVars, accounts, orphan, recovery, built, commands, faults>>

-----------------------------------------------------------------------------
(* Import, from the bundle on. *)

ResumableBundle(m) ==
    /\ m.status # "completed"
    /\ files[Bundle] # None
    /\ m.digest = files[Bundle]
    /\ \A t \in Sources(m) : files[Auth(t)] # None
    /\ Cardinality(files[Bundle].of) = Cardinality(Sources(m))
    /\ Sources(m) # {}

Resume ==
    /\ proc = Idle
    /\ commands < MaxCommands
    /\ ResumableBundle(manifest)
    /\ proc' = [Idle EXCEPT !.cmd = "import", !.at = "rebuild"]
    /\ mem' = manifest
    /\ commands' = commands + 1
    /\ UNCHANGED <<diskVars, accounts, orphan, found, recovery, built, faults>>

\* build_bundle stamps the bundle with the time, so its digest is new each time.
WriteBundle ==
    /\ At("import", "bundle") \/ At("import", "rebuild")
    /\ LET b == File(Sources(mem), {}, 0, built + 1)
       IN  /\ files' = [files EXCEPT ![Bundle] = b]
           /\ mem' = [mem EXCEPT !.digest = b,
                                 !.status = IF proc.at = "bundle" THEN @ ELSE "resuming-import"]
    /\ built' = built + 1
    /\ Go(IF proc.at = "bundle" THEN "gate" ELSE "preflight")
    /\ UNCHANGED <<manifest, rows, dumps, accounts, orphan, found, recovery, commands, faults>>

SavePreflight ==
    /\ At("import", "preflight")
    /\ Save(mem)
    /\ Go("gate")
    /\ UNCHANGED <<files, rows, dumps, accounts, orphan, found, recovery, built, commands, faults>>

\* --import-partial and --no-import are read here for the first time: each
\* command is given with or without them.
SkipImport ==
    /\ At("import", "gate")
    /\ mem.fail > 0
    /\ EndWith(Status(mem, "registration-failed-import-skipped"))
    /\ UNCHANGED <<files, rows, dumps, accounts, orphan, recovery, built, commands, faults>>

NoImport ==
    /\ At("import", "gate")
    /\ EndWith(Status(mem, "registered-not-imported"))
    /\ UNCHANGED <<files, rows, dumps, accounts, orphan, recovery, built, commands, faults>>

BeginPreprobe(partial) ==
    /\ At("import", "gate")
    /\ mem.fail > 0 => partial
    /\ Save(mem)
    /\ proc' = [proc EXCEPT !.at = "preprobe", !.partial = partial]
    /\ UNCHANGED <<files, rows, dumps, accounts, orphan, found, recovery, built, commands, faults>>

\* run_preimport_auth_probes: which grants answered 200 once its retries ended.
Preprobe ==
    /\ At("import", "preprobe")
    /\ \E passed \in SUBSET Sources(mem) :
          /\ Save([mem EXCEPT !.pre = [tested |-> Cardinality(Sources(mem)), passed |-> passed]])
          /\ Go(IF passed = Sources(mem) THEN "resolve" ELSE "narrow")
    /\ UNCHANGED <<files, rows, dumps, accounts, orphan, found, recovery, built, commands, faults>>

PreprobeFailed ==
    /\ At("import", "narrow")
    /\ ~proc.partial \/ mem.pre.passed = {}
    /\ EndWith([mem EXCEPT !.status = "preimport-probe-failed",
                           !.att = [t \in Attempts |-> IF proc.partial /\ @[t] = "registered"
                                                       THEN "probe-failed" ELSE @[t]]])
    /\ UNCHANGED <<files, rows, dumps, accounts, orphan, recovery, built, commands, faults>>

\* --import-partial goes on with the grants that passed: the bundle first, then
\* the manifest that names it.
NarrowBundle ==
    /\ At("import", "narrow")
    /\ proc.partial /\ mem.pre.passed # {}
    /\ LET dropped == Sources(mem) \ mem.pre.passed
           b == File(mem.pre.passed, {}, 0, built + 1)
       IN  /\ files' = [files EXCEPT ![Bundle] = b]
           /\ mem' = [mem EXCEPT
                        !.att = [t \in Attempts |-> IF t \in dropped THEN "probe-failed" ELSE @[t]],
                        !.digest = b,
                        !.succ = Cardinality(mem.pre.passed),
                        !.fail = Cardinality(dropped)]
    /\ built' = built + 1
    /\ Go("narrowed")
    /\ UNCHANGED <<manifest, rows, dumps, accounts, orphan, found, recovery, commands, faults>>

SaveNarrowed ==
    /\ At("import", "narrowed")
    /\ Save(mem)
    /\ Go("resolve")
    /\ UNCHANGED <<files, rows, dumps, accounts, orphan, found, recovery, built, commands, faults>>

ResolveExisting ==
    /\ At("import", "resolve")
    /\ ~DuplicateHash(Sources(mem))
    /\ found' = Resolved(Sources(mem))
    /\ Save(Status(mem, "importing"))
    /\ proc' = [Idle EXCEPT !.cmd = "import",
                            !.at = IF DOMAIN found' = Sources(mem) THEN "backup" ELSE "pending"]
    /\ UNCHANGED <<files, rows, dumps, accounts, orphan, recovery, built, commands, faults>>

\* A duplicate hash, a database that does not answer or a backup that fails ends
\* the command with the status it last saved.
ImportRaises ==
    \E at \in {"resolve", "backup", "resolve-again", "postprobe", "group"} : RaiseAt("import", at)

Missing == Sources(mem) \ DOMAIN found

WritePending ==
    /\ At("import", "pending")
    /\ files' = [files EXCEPT ![Pending] = File(Missing, {}, 0, built)]
    /\ Go("helper")
    /\ UNCHANGED <<manifest, rows, dumps, accounts, orphan, mem, found, recovery, built, commands, faults>>

\* SUB2API_IMPORT_TOOL, as this program uses it: it dumps the database, creates
\* accounts, and proves all created or fails (exit code, or an unexpected report).
RunHelper ==
    /\ At("import", "helper")
    /\ \E S \in SUBSET Missing, outcome \in {"failed", "ok"} :
          /\ outcome = "ok" => S = Missing
          /\ RoomFor(Cardinality(S))
          /\ accounts' = Created(S)
          /\ proc' = [proc EXCEPT !.at = "helped", !.helper = outcome,
                                  !.made = NewIds(Cardinality(S)), !.dump = built + 1]
    /\ dumps' = dumps \cup {built + 1}
    /\ built' = built + 1
    /\ UNCHANGED <<manifest, files, rows, orphan, mem, found, recovery, commands, faults>>

\* run(log=...) writes what the helper printed once it has ended.
LogHelper ==
    /\ At("import", "helped")
    /\ files' = [files EXCEPT ![Helper] =
                    IF proc.helper = "ok" THEN File(Missing, proc.made, proc.dump, built)
                                          ELSE File({}, {}, 0, built)]
    /\ Go("checked")
    /\ UNCHANGED <<manifest, rows, dumps, accounts, orphan, mem, found, recovery, built, commands, faults>>

HelperFailed ==
    /\ At("import", "checked")
    /\ proc.helper # "ok"
    /\ \E status \in {"import-failed", "import-verification-failed"} : EndWith(Status(mem, status))
    /\ UNCHANGED <<files, rows, dumps, accounts, orphan, recovery, built, commands, faults>>

HelperVerified ==
    /\ At("import", "checked")
    /\ proc.helper = "ok"
    /\ Go("record")
    /\ UNCHANGED <<diskVars, accounts, orphan, mem, found, recovery, built, commands, faults>>

\* All accounts exist already: backup_database before they are reconciled.
BackUp ==
    /\ At("import", "backup")
    /\ dumps' = dumps \cup {built + 1}
    /\ built' = built + 1
    /\ proc' = [proc EXCEPT !.at = "record", !.dump = built + 1]
    /\ UNCHANGED <<manifest, files, rows, accounts, orphan, mem, found, recovery, commands, faults>>

RecordBackup ==
    /\ At("import", "record")
    /\ Save([mem EXCEPT !.backups = @ \cup {proc.dump}])
    /\ Go("resolve-again")
    /\ UNCHANGED <<files, rows, dumps, accounts, orphan, found, recovery, built, commands, faults>>

\* Mutant of ResolveAgain: what was found is taken for all.
ResolveAgainUnchecked ==
    /\ At("import", "resolve-again")
    /\ found' = Resolved(Sources(mem))
    /\ Go("reconcile")
    /\ UNCHANGED <<diskVars, mem, accounts, orphan, recovery, built, commands, faults>>

ResolveAgain ==
    /\ At("import", "resolve-again")
    /\ ~DuplicateHash(Sources(mem))
    /\ IF DOMAIN Resolved(Sources(mem)) = Sources(mem)
       THEN /\ found' = Resolved(Sources(mem))
            /\ Go("reconcile")
            /\ UNCHANGED <<manifest, mem>>
       ELSE EndWith(Status(mem, "import-verification-failed"))
    /\ UNCHANGED <<files, rows, dumps, accounts, orphan, recovery, built, commands, faults>>

FoundIds == {found[t] : t \in DOMAIN found}

\* reconcile_imported_accounts: one PUT after the other, group and proxy, until
\* one is refused.
Reconcile ==
    /\ At("import", "reconcile")
    /\ \E done \in SUBSET FoundIds :
          /\ accounts' = [i \in Ids |-> IF i \in done THEN [accounts[i] EXCEPT !.proper = TRUE]
                                                      ELSE accounts[i]]
          /\ IF done = FoundIds
             THEN Go("verify") /\ UNCHANGED <<manifest, mem, found>>
             ELSE EndWith(Status(mem, "import-verification-failed"))
    /\ UNCHANGED <<files, rows, dumps, orphan, recovery, built, commands, faults>>

VerifyState ==
    /\ At("import", "verify")
    /\ IF \A i \in FoundIds : accounts[i].active /\ accounts[i].proper
       THEN Go("postprobe") /\ UNCHANGED <<manifest, mem, found>>
       ELSE EndWith(Status(mem, "import-verification-failed"))
    /\ UNCHANGED <<files, rows, dumps, accounts, orphan, recovery, built, commands, faults>>

\* run_postimport_account_probes.  "spent": not usable by its own reading, but
\* exhausted by the one of the closeout.
PostProbe ==
    /\ At("import", "postprobe")
    /\ \E post \in {"passed", "spent", "failed"} :
          /\ Save([mem EXCEPT !.post = post])
          /\ Go(IF post = "passed" THEN "group" ELSE "postfailed")
    /\ UNCHANGED <<files, rows, dumps, accounts, orphan, found, recovery, built, commands, faults>>

PostProbeFailed ==
    /\ At("import", "postfailed")
    /\ EndWith(Status(mem, "postimport-account-probe-failed"))
    /\ UNCHANGED <<files, rows, dumps, accounts, orphan, recovery, built, commands, faults>>

GroupProbe ==
    /\ At("import", "group")
    /\ \/ EndWith(Status(mem, "postimport-probe-failed"))
       \/ Go("finish") /\ UNCHANGED <<manifest, mem, found>>
    /\ UNCHANGED <<files, rows, dumps, accounts, orphan, recovery, built, commands, faults>>

Imported ==
    /\ At("import", "finish")
    /\ EndWith([mem EXCEPT
          !.status = IF mem.pre.passed = Sources(mem) THEN "imported-preprobed"
                                                      ELSE "imported-not-probed",
          !.ids = FoundIds])
    /\ UNCHANGED <<files, rows, dumps, accounts, orphan, recovery, built, commands, faults>>

ImportNext ==
    \/ Resume \/ WriteBundle \/ SavePreflight \/ SkipImport \/ NoImport
    \/ (\E partial \in BOOLEAN : BeginPreprobe(partial)) \/ Preprobe \/ PreprobeFailed \/ NarrowBundle \/ SaveNarrowed
    \/ ResolveExisting \/ ImportRaises \/ WritePending \/ RunHelper \/ LogHelper
    \/ HelperFailed \/ HelperVerified \/ BackUp \/ RecordBackup \/ ResolveAgain
    \/ Reconcile \/ VerifyState \/ PostProbe \/ PostProbeFailed \/ GroupProbe \/ Imported

-----------------------------------------------------------------------------
(* recover_batch_oauth.py.  It reads the manifest, signs in once for each   *)
(* attempt whose row has an account and no grant, and writes its copy of    *)
(* the manifest back; it does not take the batch lock.                      *)

RecoverLoad ==
    /\ recovery.at = "idle"
    /\ commands < MaxCommands
    /\ commands' = commands + 1
    /\ recovery' = [at |-> "grants", mem |-> manifest]
    /\ UNCHANGED <<diskVars, accounts, orphan, proc, mem, found, built, faults>>

\* complete_build_oauth, then the row of the attempt with the path of its grant.
RecoverGrant(t) ==
    /\ recovery.at = "grants"
    /\ recovery.mem.att[t] # "none"
    /\ rows[t] = "created"
    /\ files' = [files EXCEPT ![Auth(t)] = File({t}, {}, 0, 0)]
    /\ rows' = [rows EXCEPT ![t] = "granted"]
    /\ recovery' = [recovery EXCEPT !.mem.att[t] = "registered"]
    /\ UNCHANGED <<manifest, dumps, accounts, orphan, proc, mem, found, built, commands, faults>>

RecoverBundle ==
    /\ recovery.at = "grants"
    /\ Sources(recovery.mem) # {}
    /\ \A t \in Sources(recovery.mem) : files[Auth(t)] # None
    /\ LET b == File(Sources(recovery.mem), {}, 0, built + 1)
       IN  /\ files' = [files EXCEPT ![Bundle] = b]
           /\ recovery' = [at |-> "save",
                           mem |-> [recovery.mem EXCEPT
                                      !.digest = b,
                                      !.succ = Cardinality(Sources(recovery.mem)),
                                      !.fail = Cardinality(FailedOf(recovery.mem)),
                                      !.status = "registered-not-imported"]]
    /\ built' = built + 1
    /\ UNCHANGED <<manifest, rows, dumps, accounts, orphan, proc, mem, found, commands, faults>>

\* Nothing is registered: the manifest is written back as it was read.
RecoverNothing ==
    /\ recovery.at = "grants"
    /\ Sources(recovery.mem) = {}
    /\ manifest' = recovery.mem
    /\ recovery' = NoRecovery
    /\ UNCHANGED <<files, rows, dumps, accounts, orphan, proc, mem, found, built, commands, faults>>

RecoverSave ==
    /\ recovery.at = "save"
    /\ manifest' = recovery.mem
    /\ recovery' = NoRecovery
    /\ UNCHANGED <<files, rows, dumps, accounts, orphan, proc, mem, found, built, commands, faults>>

\* An auth file that is gone, or a kill.
RecoverRaises ==
    /\ recovery.at = "grants"
    /\ \E t \in Sources(recovery.mem) : files[Auth(t)] = None
    /\ recovery' = NoRecovery
    /\ UNCHANGED <<diskVars, accounts, orphan, proc, mem, found, built, commands, faults>>

RecoverKilled ==
    /\ recovery.at # "idle"
    /\ Fault
    /\ recovery' = NoRecovery
    /\ UNCHANGED <<diskVars, accounts, orphan, proc, mem, found, built, commands>>

RecoverNext ==
    \/ RecoverLoad \/ (\E t \in Attempts : RecoverGrant(t)) \/ RecoverBundle
    \/ RecoverNothing \/ RecoverSave \/ RecoverRaises \/ RecoverKilled

-----------------------------------------------------------------------------
(* The world around: a kill, and what Sub2API does by itself. *)

\* The helper is a child of its own session of pipes: a kill of the command
\* frees the lock and may leave it at work.
Kill ==
    /\ proc # Idle
    /\ Fault
    /\ orphan' \in IF At("import", "helper") THEN {orphan, orphan \cup Missing} ELSE {orphan}
    /\ Exit
    /\ UNCHANGED <<diskVars, accounts, recovery, built, commands>>

OrphanEnds ==
    /\ orphan # {}
    /\ \E S \in SUBSET orphan : RoomFor(Cardinality(S)) /\ accounts' = Created(S)
    /\ orphan' = {}
    /\ dumps' = dumps \cup {built + 1}
    /\ built' = built + 1
    /\ UNCHANGED <<manifest, files, rows, proc, mem, found, recovery, commands, faults>>

\* Sub2API refreshes a grant: its tokens are no longer the ones of the auth file.
Rotate(i) ==
    /\ Fault
    /\ accounts[i] # None /\ ~accounts[i].rotated
    /\ accounts' = [accounts EXCEPT ![i].rotated = TRUE]
    /\ UNCHANGED <<diskVars, orphan, proc, mem, found, recovery, built, commands>>

\* Sub2API or an operator stops routing to an account.
Deactivate(i) ==
    /\ Fault
    /\ accounts[i] # None /\ accounts[i].active
    /\ accounts' = [accounts EXCEPT ![i].active = FALSE]
    /\ UNCHANGED <<diskVars, orphan, proc, mem, found, recovery, built, commands>>

WorldNext == Kill \/ OrphanEnds \/ \E i \in Ids : Rotate(i) \/ Deactivate(i)
=============================================================================
