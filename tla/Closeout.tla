------------------------------- MODULE Closeout -------------------------------
(***************************************************************************)
(* scripts/finalize_grok_batch.py on the batch of BatchImport:             *)
(* --prepare-live-verification checks the batch against production and     *)
(* writes a prepared artifact that expires, --confirm-cleanup moves the    *)
(* secret files the artifact names into a quarantine, writes the records   *)
(* that hand the accounts over, and unlinks the quarantine.  Each move and *)
(* each unlink is recorded in a journal after it was done; a run that dies *)
(* is finished by confirming again.                                        *)
(*                                                                         *)
(* Left out: path and symlink checks (the names are exact by construction),*)
(* permissions, empty directories, and pg_restore.                         *)
(***************************************************************************)
EXTENDS BatchImport, Sequences, SequencesExt

VARIABLES
    artifact,     \* import/closeout-prepared.json
    expired,      \* its 30 minutes are over
    journal,      \* import/cleanup-journal.json
    quarantine,   \* cleanup/quarantine: name -> content, or None
    checkpoint,   \* import/checkpoint.json
    handoff       \* handoff.json

closeVars == <<artifact, expired, journal, quarantine, checkpoint, handoff>>
vars == <<batchVars, closeVars>>

\* The journal: what is to be moved and deleted, and how far it has come.
Entry == [name : Names, state : {"pending", "quarantined", "deleted"}]
Journals == [no : Nat, status : {"quarantining", "quarantined", "completed"}, entries : Seq(Entry)]

ASSUME JournalAssumption == None \notin Journals

NoRecord == [status |-> "none", ids |-> <<>>]

CloseoutInit ==
    /\ artifact = None
    /\ expired = FALSE
    /\ journal = None
    /\ quarantine = [n \in Names |-> None]
    /\ checkpoint = NoRecord
    /\ handoff = NoRecord

\* Nothing but the closeout's own files.
BatchKept == UNCHANGED <<files, rows, dumps, accounts, orphan, recovery, built, commands, faults>>

-----------------------------------------------------------------------------
(* --prepare-live-verification. *)

\* map_sources_to_accounts for one source among the imported accounts: by token
\* hash, else by the one account of its identity.
Maps(t, ids) ==
    LET same == {i \in ids : accounts[i].of = t}
        byHash == {i \in same : ~accounts[i].rotated}
    IN  IF byHash # {} THEN byHash ELSE IF Cardinality(same) = 1 THEN same ELSE {}

StaticallySound(i) ==
    /\ accounts[i].active /\ accounts[i].proper
    /\ Cardinality(AccountsOf(accounts[i].of)) = 1

EligibleBatch(m) ==
    /\ m.status \in {"imported-preprobed", "postimport-account-probe-failed"}
    /\ \A t \in Attempts : m.att[t] \in {"registered", "failed"}
    /\ m.succ = Cardinality(Sources(m))
    /\ m.fail = Cardinality(FailedOf(m))
    /\ Sources(m) # {}
    /\ \A t \in Sources(m) : files[Auth(t)] # None /\ files[Log(t)] # None

ImportEvidence(m) ==
    /\ files[Helper] # None
    /\ files[Helper].ids # {}
    /\ Cardinality(files[Helper].ids) = Cardinality(Sources(m))
    /\ m.pre = [tested |-> Cardinality(Sources(m)), passed |-> m.pre.passed]
    /\ Cardinality(m.pre.passed) = Cardinality(Sources(m))
    /\ m.post \in {"passed", "spent"}

Mapped(m) ==
    LET ids == files[Helper].ids
    IN  /\ \A t \in Sources(m) : \E i \in Maps(t, ids) : StaticallySound(i)
        /\ UNION {Maps(t, ids) : t \in Sources(m)} = ids

\* prepare_closeout up to the live probes; whatever fails raises.
PrepareRead ==
    /\ proc = Idle
    /\ commands < MaxCommands
    /\ commands' = commands + 1
    /\ EligibleBatch(manifest) /\ ImportEvidence(manifest) /\ Mapped(manifest)
    /\ proc' = [Idle EXCEPT !.cmd = "prepare", !.at = "probe"]
    /\ mem' = manifest
    /\ found' = [t \in Sources(manifest) |->
                    CHOOSE i \in Maps(t, files[Helper].ids) : TRUE]
    /\ built' = built + 1
    /\ UNCHANGED <<diskVars, accounts, orphan, recovery, faults, closeVars>>

PrepareProbed ==
    /\ At("prepare", "probe")
    /\ Go("write")
    /\ UNCHANGED <<diskVars, accounts, orphan, mem, found, recovery, built, commands, faults, closeVars>>

PrepareRaises ==
    /\ RaiseAt("prepare", "probe") \/ RaiseAt("prepare", "write")
    /\ UNCHANGED closeVars

\* backup_records: each dump is there because of the import or of the manifest.
BackupsExplained == dumps \subseteq mem.backups \cup {files[Helper].dump}

BundlesAgree ==
    \A n \in {Bundle, Pending} : files[n] # None /\ files[n].of = Sources(mem)

PrepareWrite ==
    /\ At("prepare", "write")
    /\ files[Helper].dump \in dumps /\ BackupsExplained
    /\ BundlesAgree
    /\ artifact' = [no |-> built, ids |-> found,
                    sha |-> [n \in Names |-> files[n]]]
    /\ expired' = FALSE
    /\ Exit
    /\ BatchKept
    /\ UNCHANGED <<manifest, journal, quarantine, checkpoint, handoff>>

Expire ==
    /\ artifact # None /\ ~expired
    /\ expired' = TRUE
    /\ UNCHANGED <<batchVars, artifact, journal, quarantine, checkpoint, handoff>>

-----------------------------------------------------------------------------
(* --confirm-cleanup. *)

\* The imported IDs in their order, each by its attempt.
Orders(a) ==
    {order \in [1..Cardinality(DOMAIN a.ids) -> DOMAIN a.ids] :
        \A j, k \in DOMAIN order : j < k => a.ids[order[j]] < a.ids[order[k]]}

Walk(names) == [k \in DOMAIN names |-> [name |-> names[k], state |-> "pending"]]

\* Mutant of Entries: every OAuth file that lies there.
EntriesAnyFile(a, order) ==
    Walk(SetToSeq({Auth(t) : t \in {s \in Attempts : files[Auth(s)] # None}})
         \o <<Bundle, Pending, Helper>>)

\* _cleanup_entries: the grant and the log of each account, then the bundles and
\* the helper's log.
Entries(a, order) ==
    Walk([k \in 1..2 * Cardinality(DOMAIN a.ids) |->
             IF k % 2 = 1 THEN Auth(order[(k + 1) \div 2]) ELSE Log(order[k \div 2])]
         \o <<Bundle, Pending, Helper>>)

\* The sanitized manifest: no attempts, no addresses, no tokens.
Clean(cleanup) ==
    [RuntimeManifest([t \in Attempts |-> "none"], None) EXCEPT
        !.status = "completed", !.cleanup = cleanup,
        !.ids = {artifact.ids[t] : t \in DOMAIN artifact.ids}]

\* Mutant of Confirm: an expired artifact is never good.
ConfirmFresh ==
    /\ proc = Idle
    /\ artifact # None
    /\ ~expired
    /\ proc' = [Idle EXCEPT !.cmd = "confirm", !.at = "journal"]
    /\ UNCHANGED <<diskVars, accounts, orphan, mem, found, recovery, built, commands, faults, closeVars>>

\* load_prepared_artifact: an expired artifact is good for a journal that exists.
Confirm ==
    /\ proc = Idle
    /\ artifact # None
    /\ expired => journal # None
    /\ proc' = [Idle EXCEPT !.cmd = "confirm", !.at = "journal"]
    /\ UNCHANGED <<diskVars, accounts, orphan, mem, found, recovery, built, commands, faults, closeVars>>

NewJournal ==
    /\ At("confirm", "journal")
    /\ journal = None
    /\ \E order \in Orders(artifact) :
          journal' = [no |-> artifact.no, status |-> "quarantining",
                      entries |-> Entries(artifact, order)]
    /\ Go("checkpoint")
    /\ BatchKept
    /\ UNCHANGED <<manifest, mem, found, artifact, expired, quarantine, checkpoint, handoff>>

\* _cleanup_journal: what an earlier run left must belong to this artifact.
OldJournal ==
    /\ At("confirm", "journal")
    /\ journal # None
    /\ IF journal.no = artifact.no
       THEN Go("checkpoint") /\ UNCHANGED <<mem, found>>
       ELSE Exit
    /\ BatchKept
    /\ UNCHANGED <<manifest, closeVars>>

WriteCheckpoint(at, status, next) ==
    /\ At("confirm", at)
    /\ checkpoint' = [status |-> status, ids |-> artifact.ids]
    /\ IF next = "done" THEN Exit ELSE Go(next) /\ UNCHANGED <<mem, found>>
    /\ BatchKept
    /\ UNCHANGED <<manifest, artifact, expired, journal, quarantine, handoff>>

WriteHandoff(at, status, next) ==
    /\ At("confirm", at)
    /\ handoff' = [status |-> status, ids |-> artifact.ids]
    /\ Go(next)
    /\ BatchKept
    /\ UNCHANGED <<manifest, mem, found, artifact, expired, journal, quarantine, checkpoint>>

WriteManifest(at, cleanup, next) ==
    /\ At("confirm", at)
    /\ manifest' = Clean(cleanup)
    /\ Go(next)
    /\ BatchKept
    /\ UNCHANGED <<mem, found, closeVars>>

CheckpointPrepared == WriteCheckpoint("checkpoint", "closeout-prepared", "handoff")
HandoffPrepared == WriteHandoff("handoff", "closeout-prepared", "quarantine")

\* The entries in one of some states, and the first of them.
Left(states) == {k \in DOMAIN journal.entries : journal.entries[k].state \in states}
First(k, states) == k \in Left(states) /\ \A l \in Left(states) : k <= l
Name(k) == journal.entries[k].name
SetEntry(k, s) == journal' = [journal EXCEPT !.entries[k].state = s]

\* os.replace of one source; a source that is gone must be in the quarantine.
MoveSource ==
    /\ At("confirm", "quarantine")
    /\ \E k \in DOMAIN journal.entries :
          LET n == Name(k)
              ok == IF files[n] # None THEN files[n] = artifact.sha[n]
                                       ELSE quarantine[n] = artifact.sha[n]
          IN  /\ First(k, {"pending"})
              /\ IF ok THEN Go("moved") /\ UNCHANGED <<mem, found>> ELSE Exit
              /\ IF ok /\ files[n] # None
                 THEN /\ files' = [files EXCEPT ![n] = None]
                      /\ quarantine' = [quarantine EXCEPT ![n] = files[n]]
                 ELSE UNCHANGED <<files, quarantine>>
    /\ UNCHANGED <<manifest, rows, dumps, accounts, orphan, recovery, built, commands, faults,
                   artifact, expired, journal, checkpoint, handoff>>

JournalMove ==
    /\ At("confirm", "moved")
    /\ \E k \in DOMAIN journal.entries : First(k, {"pending"}) /\ SetEntry(k, "quarantined")
    /\ Go("quarantine")
    /\ BatchKept
    /\ UNCHANGED <<manifest, mem, found, artifact, expired, quarantine, checkpoint, handoff>>

\* Mutant of JournalStatus: it does not look at the entries.
JournalStatusEarly(at, states, status, next) ==
    /\ At("confirm", at)
    /\ journal' = [journal EXCEPT !.status = status]
    /\ Go(next)
    /\ BatchKept
    /\ UNCHANGED <<manifest, mem, found, artifact, expired, quarantine, checkpoint, handoff>>

JournalStatus(at, states, status, next) ==
    /\ At("confirm", at)
    /\ Left(states) = {}
    /\ journal' = [journal EXCEPT !.status = status]
    /\ Go(next)
    /\ BatchKept
    /\ UNCHANGED <<manifest, mem, found, artifact, expired, quarantine, checkpoint, handoff>>

AllQuarantined == JournalStatus("quarantine", {"pending"}, "quarantined", "manifest")
ManifestQuarantined == WriteManifest("manifest", "quarantined", "handoff-quarantined")
HandoffQuarantined ==
    WriteHandoff("handoff-quarantined", "completed", "checkpoint-quarantined")
CheckpointQuarantined == WriteCheckpoint("checkpoint-quarantined", "quarantined", "purge")

Purge ==
    /\ At("confirm", "purge")
    /\ \E k \in DOMAIN journal.entries :
          /\ First(k, {"quarantined"})
          /\ IF quarantine[Name(k)] \in {None, artifact.sha[Name(k)]}
             THEN /\ quarantine' = [quarantine EXCEPT ![Name(k)] = None]
                  /\ Go("purged")
                  /\ UNCHANGED <<mem, found>>
             ELSE Exit /\ UNCHANGED quarantine
    /\ BatchKept
    /\ UNCHANGED <<manifest, artifact, expired, journal, checkpoint, handoff>>

JournalPurge ==
    /\ At("confirm", "purged")
    /\ \E k \in DOMAIN journal.entries : First(k, {"quarantined"}) /\ SetEntry(k, "deleted")
    /\ Go("purge")
    /\ BatchKept
    /\ UNCHANGED <<manifest, mem, found, artifact, expired, quarantine, checkpoint, handoff>>

AllPurged == JournalStatus("purge", {"quarantined"}, "completed", "manifest-final")
ManifestFinal == WriteManifest("manifest-final", "completed", "handoff-final")
HandoffFinal == WriteHandoff("handoff-final", "completed", "checkpoint-final")
CheckpointFinal == WriteCheckpoint("checkpoint-final", "completed", "done")

ConfirmStep ==
    \/ NewJournal \/ OldJournal \/ CheckpointPrepared \/ HandoffPrepared
    \/ MoveSource \/ JournalMove \/ AllQuarantined
    \/ ManifestQuarantined \/ HandoffQuarantined \/ CheckpointQuarantined
    \/ Purge \/ JournalPurge \/ AllPurged
    \/ ManifestFinal \/ HandoffFinal \/ CheckpointFinal

CloseoutNext ==
    \/ PrepareRead \/ PrepareProbed \/ PrepareRaises \/ PrepareWrite \/ Expire
    \/ Confirm \/ ConfirmStep

-----------------------------------------------------------------------------
Init == BatchInit /\ CloseoutInit
Next ==
    \/ CloseoutNext
    \/ (ImportNext \/ RecoverNext \/ WorldNext) /\ UNCHANGED closeVars
Spec == Init /\ [][Next]_vars

\* The operator confirms a closeout again until it has ended; a command that
\* runs is not stopped for good.
FairSpec == Spec /\ WF_vars(Confirm \/ ConfirmStep)

-----------------------------------------------------------------------------
(* Properties. *)

\* No grant is lost: the OAuth file of an attempt is in its place, or in the
\* quarantine, or handoff and checkpoint both name the production account that
\* took it over, whatever was killed and whatever the recovery wrote.
NothingLost ==
    \A t \in Attempts : rows[t] = "granted" =>
        \/ files[Auth(t)] # None
        \/ quarantine[Auth(t)] # None
        \/ /\ t \in DOMAIN handoff.ids
           /\ checkpoint.ids = handoff.ids
           /\ handoff.ids[t] \in AccountsOf(t)

\* What manifest.json says of the cleanup never runs ahead of its journal.
RecordsFollowJournal ==
    LET states == {journal.entries[k].state : k \in DOMAIN journal.entries}
    IN  /\ manifest.cleanup = "quarantined" => "pending" \notin states
        /\ manifest.cleanup = "completed" => states = {"deleted"}

\* A manifest that says imported is true of production: each registered attempt
\* has an account among the imported IDs, reconciled, and its grant was probed.
ImportedIsTrue ==
    manifest.status = "imported-preprobed" =>
        \A t \in Sources(manifest) :
            /\ t \in manifest.pre.passed
            /\ \E i \in manifest.ids \cap AccountsOf(t) : accounts[i].proper

Untouched(k) ==
    LET n == Name(k)
    IN  \/ files[n] = artifact.sha[n]
        \/ files[n] = None /\ quarantine[n] \in {None, artifact.sha[n]}

\* A closeout that has moved its first file, with no recovery under way, is
\* finished by confirming again, also when its artifact has expired.
BegunCloseoutEnds ==
    ( /\ journal # None /\ artifact # None
      /\ journal.no = artifact.no
      /\ files[Name(1)] = None
      /\ \A k \in DOMAIN journal.entries : Untouched(k)
      /\ recovery.at = "idle" )
    ~> (journal # None /\ journal.status = "completed" /\ manifest.cleanup = "completed")
-----------------------------------------------------------------------------
(* The inductive invariant. *)

PartialMaps == UNION {[S -> Ids] : S \in SUBSET Attempts}

TypeOK ==
    /\ BatchTypeOK
    /\ quarantine \in [Names -> Contents \cup {None}]
    /\ artifact # None =>
          artifact \in [no : 0..built, ids : PartialMaps, sha : [Names -> Contents \cup {None}]]
    /\ journal # None => journal \in Journals /\ journal.no <= built /\ journal.entries # <<>>

\* Sub2API numbers accounts without a gap, and the program only names accounts
\* that exist.
AccountsNumbered == Held = 1..Cardinality(Held)
Serves(ids) == \A t \in DOMAIN ids : ids[t] \in AccountsOf(t)
AccountsReal ==
    /\ proc.made \subseteq Held
    /\ files[Helper] # None => files[Helper].ids \subseteq Held
    /\ proc.cmd = "prepare" => Serves(found) /\ found \in PartialMaps
    /\ artifact # None => Serves(artifact.ids)

\* An import that ends well has its accounts, and has reconciled them. What the
\* recovery saves does not say imported.
Resolving == {"reconcile", "verify", "postprobe", "postfailed", "group", "finish"}
ImportTrue ==
    /\ recovery.at = "save" => recovery.mem.status # "imported-preprobed"
    /\ proc.cmd = "import" =>
          /\ proc.at # "rebuild" => mem.status # "imported-preprobed"
          /\ proc.at \in Resolving => DOMAIN found = Sources(mem) /\ Serves(found)
          /\ proc.at \in Resolving \ {"reconcile"} => \A i \in FoundIds : accounts[i].proper

\* A manifest, wherever it is, and the journal of the cleanup it speaks of.
Follows(m) ==
    /\ m.cleanup # "none" => journal # None /\ Left({"pending"}) = {}
    /\ m.cleanup = "completed" => Left({"quarantined"}) = {}
CopiesFollow ==
    /\ Follows(manifest)
    /\ proc.cmd \in {"import", "prepare"} => Follows(mem)
    /\ recovery.at # "idle" => Follows(recovery.mem)

\* What a confirmation has done when it comes to a step.
NoneLeft == {"purge", "purged", "manifest", "handoff-quarantined", "checkpoint-quarantined",
             "manifest-final", "handoff-final", "checkpoint-final"}
AllDeleted == {"manifest-final", "handoff-final", "checkpoint-final"}
Confirmed ==
    proc.cmd = "confirm" =>
        /\ artifact # None
        /\ proc.at # "journal" => journal # None /\ journal.no = artifact.no
        /\ proc.at \notin {"journal", "checkpoint"} => checkpoint.ids = artifact.ids
        /\ proc.at \notin {"journal", "checkpoint", "handoff"} => handoff.ids = artifact.ids
        /\ proc.at \in NoneLeft => Left({"pending"}) = {}
        /\ proc.at \in AllDeleted => Left({"quarantined"}) = {}

\* Handoff and checkpoint speak of the accounts of one artifact, that of the
\* journal; a later artifact has another number. The journal names no OAuth
\* file but those of the artifact.
OneArtifact ==
    /\ journal = None => checkpoint.ids = <<>> /\ handoff.ids = <<>>
    /\ handoff.ids \in {<<>>, checkpoint.ids}
    /\ artifact # None /\ journal # None =>
          /\ journal.no <= artifact.no
          /\ journal.no = artifact.no =>
                /\ checkpoint.ids \in {<<>>, artifact.ids}
                /\ \A k \in DOMAIN journal.entries, t \in Attempts :
                      Name(k) = Auth(t) => t \in DOMAIN artifact.ids
    /\ proc.cmd = "prepare" =>
          /\ artifact # None => artifact.no < built
          /\ journal # None => journal.no < built

IInv ==
    /\ TypeOK /\ AccountsNumbered /\ AccountsReal /\ ImportTrue /\ ImportedIsTrue
    /\ CopiesFollow /\ Confirmed /\ OneArtifact /\ NothingLost
=============================================================================
