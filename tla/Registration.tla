---------------------------- MODULE Registration ----------------------------
(***************************************************************************)
(* The registration half of scripts/register_and_import.py: the main       *)
(* thread submits attempts to a ThreadPoolExecutor and stops after too     *)
(* many failures; each attempt (execute_attempt) leases a proxy node,      *)
(* creates a mailbox, and runs run.py, a process of its own, which signs   *)
(* up at the upstream service.  All of them write one manifest, whole, and *)
(* under manifest_lock.                                                    *)
(*                                                                         *)
(* The batch may be killed at any step; a run.py it started lives on.  A   *)
(* save of the manifest may raise: for want of disk, or because another    *)
(* thread adds a key to a dict while json.dumps walks it.                  *)
(***************************************************************************)
EXTENDS Leases, FiniteSetsExt

CONSTANTS
  Count,          \* --count
  Workers,        \* --workers
  MaxConsecutive, \* --max-consecutive-failures
  AbortOnFailure, \* --failure-policy abort
  CleanUp,        \* --cleanup-failed-mailboxes
  Faults          \* what may go wrong in a run of TLC: all of AllFaults, or some

AllFaults == {"kill", "save", "start", "lease", "mail", "child", "answer"}

Attempts == 1..Count

\* proxy_pool.capacity, of the healthy nodes
Capacity(nodes) == MapThenSumSet(LAMBDA r : Limit[r], nodes)

\* The health check raises when no node is left, and a node has a lease at least.
ASSUME RegistrationAssumption ==
  /\ Count \in Nat \ {0} /\ Workers \in Nat \ {0} /\ MaxConsecutive \in Nat \ {0}
  /\ AbortOnFailure \in BOOLEAN /\ CleanUp \in BOOLEAN
  /\ Holders = Attempts
  /\ HealthySets \subseteq SUBSET Refs
  /\ \A nodes \in HealthySets : Capacity(nodes) \in Nat \ {0}
  /\ Faults \subseteq AllFaults

VARIABLES
  pc,          \* where the thread of each attempt is, "none" before its submission
  main,        \* where the main thread is
  memory,      \* attempt["status"] in the manifest dict, "absent" before it is appended
  disk,        \* the same in manifest.json
  writing,     \* what json.dumps returned to each thread that is saving
  saver,       \* the thread that holds manifest_lock: an attempt, Main or Nobody
  mailbox,     \* the mailbox of each attempt exists
  made,        \* mailbox_created
  child,       \* run.py: not started, up, its result written, exited with 0 or not
  account,     \* the upstream service has the account
  told,        \* account_created in run.py: the service answered that it has
  result,      \* the result JSON of run.py
  pending,     \* futures not handled yet
  ready,       \* done: those the main thread is handling
  auths,       \* auth_paths
  failures, consecutive, aborted

threads  == <<pc, made>>
world    == <<mailbox, child, account, told, result>>
manifest == <<memory, disk, writing, saver>>
tally    == <<main, pending, ready, auths, failures, consecutive, aborted>>
vars     == <<specs, lease, threads, world, manifest, tally>>

Main   == 0
Nobody == -1
NoDump == <<>>

\* workers = min(workers, proxy_pool.capacity)
WorkerCount == Min({Workers, Capacity(specs)})

Init ==
  /\ LeaseInit
  /\ pc = [i \in Attempts |-> "none"]
  /\ made = [i \in Attempts |-> FALSE]
  /\ memory = [i \in Attempts |-> "absent"]
  /\ disk = memory
  /\ writing = [a \in Attempts \cup {Main} |-> NoDump] /\ saver = Nobody
  /\ mailbox = [i \in Attempts |-> FALSE]
  /\ child = [i \in Attempts |-> "none"]
  /\ account = [i \in Attempts |-> FALSE]
  /\ told = [i \in Attempts |-> FALSE]
  /\ result = [i \in Attempts |-> "none"]
  /\ main = "filling"
  /\ pending = {} /\ ready = {} /\ auths = {}
  /\ failures = 0 /\ consecutive = 0 /\ aborted = FALSE

-----------------------------------------------------------------------------
(* Saving the manifest: under the lock, dump it, then replace the file.    *)

\* Mutant of BeginSave: a save that does not wait for the lock.
BeginSaveNoLock(a) ==
  /\ writing[a] = NoDump
  /\ saver' = a
  /\ writing' = [writing EXCEPT ![a] = memory]
  /\ UNCHANGED <<memory, disk>>

BeginSave(a) ==
  /\ saver = Nobody
  /\ saver' = a
  /\ writing' = [writing EXCEPT ![a] = memory]
  /\ UNCHANGED <<memory, disk>>

EndSave(a) ==
  /\ writing[a] # NoDump
  /\ disk' = writing[a]
  /\ saver' = Nobody
  /\ writing' = [writing EXCEPT ![a] = NoDump]
  /\ UNCHANGED memory

\* Mutant of SaveRaises: the lock is not released by an exception.
SaveRaisesLocked(a) ==
  /\ "save" \in Faults
  /\ writing[a] # NoDump
  /\ writing' = [writing EXCEPT ![a] = NoDump]
  /\ UNCHANGED <<memory, disk, saver>>

SaveRaises(a) ==
  /\ "save" \in Faults
  /\ writing[a] # NoDump
  /\ saver' = Nobody
  /\ writing' = [writing EXCEPT ![a] = NoDump]
  /\ UNCHANGED <<memory, disk>>

-----------------------------------------------------------------------------
(* One attempt: execute_attempt.                                           *)

Goto(i, where) == pc' = [pc EXCEPT ![i] = where]
SetStatus(i, s) == memory' = [memory EXCEPT ![i] = s] /\ UNCHANGED <<disk, writing, saver>>

Ended(i) == pc[i] \in {"over", "raised"}
Busy == {i \in Attempts : pc[i] \notin {"none", "queued"} /\ ~Ended(i)}

\* A worker thread of the executor takes the attempt.
Start(i) ==
  /\ pc[i] = "queued"
  /\ Cardinality(Busy) < WorkerCount
  /\ SetStatus(i, "running")
  /\ Goto(i, "leasing")
  /\ UNCHANGED <<specs, lease, made, world, tally>>

\* The directory of the attempt cannot be made: nothing handles that.
StartRaises(i) ==
  /\ "start" \in Faults
  /\ pc[i] = "queued"
  /\ Cardinality(Busy) < WorkerCount
  /\ Goto(i, "raised")
  /\ UNCHANGED <<specs, lease, made, world, manifest, tally>>

\* Mutant of Acquire: the mailbox is created before the attempt is saved.
AcquireUnrecorded(i) ==
  /\ pc[i] = "leasing"
  /\ Lease(i)
  /\ Goto(i, "mailing")
  /\ UNCHANGED <<made, world, manifest, tally>>

Acquire(i) ==
  /\ pc[i] = "leasing"
  /\ Lease(i)
  /\ Goto(i, "recording")
  /\ UNCHANGED <<made, world, manifest, tally>>

\* No lease, or the rotation cannot be saved.
AcquireRaises(i) ==
  /\ "lease" \in Faults
  /\ pc[i] = "leasing"
  /\ Goto(i, "failing")
  /\ UNCHANGED <<specs, lease, made, world, manifest, tally>>

\* Where an attempt saves, and where it goes on.
AfterSave == [recording |-> "mailing", signing |-> "running",
              running |-> "running", closing |-> "over"]
AfterRaise == [recording |-> "failing", signing |-> "failing",
               running |-> "failing", closing |-> "raised"]

\* While run.py runs, each line of it and each heartbeat saves the manifest.
Save(i) ==
  /\ pc[i] \in DOMAIN AfterSave
  /\ pc[i] = "running" => child[i] \in {"up", "wrote"}
  /\ BeginSave(i)
  /\ UNCHANGED <<specs, lease, threads, world, tally>>

\* After the save of stage signup, run.py is started.
Saved(i) ==
  /\ EndSave(i)
  /\ Goto(i, AfterSave[pc[i]])
  /\ child' = IF pc[i] = "signing" THEN [child EXCEPT ![i] = "up"] ELSE child
  /\ UNCHANGED <<specs, lease, made, mailbox, account, told, result, tally>>

\* run() is left by the exception of its callback, and run.py is still up.
NotSaved(i) ==
  /\ SaveRaises(i)
  /\ Goto(i, AfterRaise[pc[i]])
  /\ UNCHANGED <<specs, lease, made, world, tally>>

CreateMailbox(i) ==
  /\ pc[i] = "mailing"
  /\ mailbox' = [mailbox EXCEPT ![i] = TRUE]
  /\ made' = [made EXCEPT ![i] = TRUE]
  /\ Goto(i, "signing")
  /\ UNCHANGED <<specs, lease, child, account, told, result, manifest, tally>>

\* The mail server refuses, or creates the mailbox and its removal fails too.
CreateMailboxRaises(i) ==
  /\ "mail" \in Faults
  /\ pc[i] = "mailing"
  /\ \E left \in BOOLEAN : mailbox' = [mailbox EXCEPT ![i] = left]
  /\ Goto(i, "failing")
  /\ UNCHANGED <<specs, lease, made, child, account, told, result, manifest, tally>>

\* run.py has exited with 0, so load_single_result finds its auth file.
Registered(i) ==
  /\ pc[i] = "running" /\ writing[i] = NoDump
  /\ child[i] = "ok"
  /\ SetStatus(i, "registered")
  /\ Goto(i, "releasing")
  /\ UNCHANGED <<specs, lease, made, world, tally>>

\* It failed, or its log or its result cannot be used.
RunFailed(i) ==
  /\ pc[i] = "running" /\ writing[i] = NoDump
  /\ child[i] = "bad" \/ ("child" \in Faults /\ child[i] = "ok")
  /\ Goto(i, "failing")
  /\ UNCHANGED <<specs, lease, made, world, manifest, tally>>

\* except Exception
Fail(i) ==
  /\ pc[i] = "failing"
  /\ SetStatus(i, "failed")
  /\ Goto(i, IF CleanUp /\ made[i] THEN "cleaning" ELSE "releasing")
  /\ UNCHANGED <<specs, lease, made, world, tally>>

\* Mutant of MayDelete: no result counts as no account.
MayDeleteUnknown(i) == result[i] \in {"not-created", "none"}

\* upstream_account_created is False: not None, not True.
MayDelete(i) == result[i] = "not-created"

Clean(i) ==
  /\ pc[i] = "cleaning"
  /\ IF MayDelete(i)
     THEN \E left \in BOOLEAN : mailbox' = [mailbox EXCEPT ![i] = left]
     ELSE UNCHANGED mailbox
  /\ Goto(i, "releasing")
  /\ UNCHANGED <<specs, lease, made, child, account, told, result, manifest, tally>>

\* finally
Release(i) ==
  /\ pc[i] = "releasing"
  /\ Return(i)
  /\ Goto(i, "closing")
  /\ UNCHANGED <<made, world, manifest, tally>>

AttemptStep(i) ==
  \/ Start(i) \/ StartRaises(i) \/ Acquire(i) \/ AcquireRaises(i)
  \/ Save(i) \/ Saved(i) \/ NotSaved(i)
  \/ CreateMailbox(i) \/ CreateMailboxRaises(i)
  \/ Registered(i) \/ RunFailed(i) \/ Fail(i) \/ Clean(i) \/ Release(i)

-----------------------------------------------------------------------------
(* run.py, which has its own life once it is started.                      *)

ChildTo(i, state) ==
  /\ child' = [child EXCEPT ![i] = state]
  /\ UNCHANGED <<specs, lease, threads, mailbox, account, told, manifest, tally>>

\* The service creates the account; its answer may be lost (create_account raises).
SignUp(i) ==
  /\ child[i] = "up" /\ ~account[i]
  /\ account' = [account EXCEPT ![i] = TRUE]
  /\ \E answered \in IF "answer" \in Faults THEN BOOLEAN ELSE {TRUE} : told' = [told EXCEPT ![i] = answered]
  /\ UNCHANGED <<specs, lease, threads, mailbox, child, result, manifest, tally>>

\* register_one returns, and the result JSON is written in one replace.
WriteResult(i) ==
  /\ child[i] = "up"
  /\ \E r \in IF told[i] THEN {"created", "auth"} ELSE {"not-created"} :
       result' = [result EXCEPT ![i] = r]
  /\ ChildTo(i, "wrote")

Exit(i) ==
  /\ child[i] = "wrote"
  /\ ChildTo(i, IF result[i] = "auth" THEN "ok" ELSE "bad")
  /\ UNCHANGED result

\* It is killed, or writes to the pipe of an attempt that is gone.
ChildDies(i) ==
  /\ "child" \in Faults
  /\ child[i] \in {"up", "wrote"}
  /\ ChildTo(i, "bad")
  /\ UNCHANGED result

ChildStep(i) == SignUp(i) \/ WriteResult(i) \/ Exit(i) \/ ChildDies(i)

-----------------------------------------------------------------------------
(* The main thread.                                                        *)

Submitted == {i \in Attempts : pc[i] # "none"}
NextIndex == Cardinality(Submitted) + 1

Submit ==
  /\ Goto(NextIndex, "queued")
  /\ SetStatus(NextIndex, "queued")

Fill ==
  /\ main = "filling"
  /\ IF NextIndex <= Count /\ Cardinality(pending) < WorkerCount
     THEN Submit /\ pending' = pending \cup {NextIndex} /\ UNCHANGED main
     ELSE main' = "saving" /\ UNCHANGED <<pc, manifest, pending>>
  /\ UNCHANGED <<specs, lease, made, world, ready, auths, failures, consecutive, aborted>>

MainSave ==
  /\ main = "saving"
  /\ BeginSave(Main)
  /\ UNCHANGED <<specs, lease, threads, world, tally>>

\* while pending
MainSaved ==
  /\ EndSave(Main)
  /\ main' = IF pending = {} THEN "finishing" ELSE "waiting"
  /\ UNCHANGED <<specs, lease, threads, world, pending, ready, auths, failures, consecutive, aborted>>

\* The exception leaves the loop, and the executor waits for its threads.
MainNotSaved ==
  /\ SaveRaises(Main)
  /\ main' = "unwinding"
  /\ UNCHANGED <<specs, lease, threads, world, pending, ready, auths, failures, consecutive, aborted>>

\* wait(pending, return_when=FIRST_COMPLETED)
Wait ==
  /\ main = "waiting"
  /\ ready' = {i \in pending : Ended(i)}
  /\ ready' # {}
  /\ main' = "handling"
  /\ UNCHANGED <<specs, lease, threads, world, manifest, pending, auths, failures, consecutive, aborted>>

\* The batch stops submitting.
Stops(ok, run) == (AbortOnFailure /\ ~ok) \/ run >= MaxConsecutive

\* Mutant of Left: the loop is left as soon as the batch is aborted.
LeftUnlessStopped(i, stop) == IF stop THEN {} ELSE pending \ {i}

\* Mutant of Left: a future that is done is handled again.
LeftAgain(i, stop) == pending

\* pending.pop(future)
Left(i, stop) == pending \ {i}

\* future.result() returns.
Handle(i) ==
  LET ok  == memory[i] = "registered"
      run == IF ok THEN 0 ELSE consecutive + 1
  IN
  /\ main = "handling" /\ i \in ready /\ pc[i] = "over"
  /\ auths' = IF ok THEN auths \cup {i} ELSE auths
  /\ failures' = IF ok THEN failures ELSE failures + 1
  /\ consecutive' = run
  /\ aborted' = (aborted \/ Stops(ok, run))
  /\ IF ~aborted' /\ NextIndex <= Count
     THEN Submit /\ pending' = Left(i, aborted') \cup {NextIndex}
     ELSE pending' = Left(i, aborted') /\ UNCHANGED <<pc, manifest>>
  /\ ready' = ready \ {i}
  /\ main' = IF ready' = {} THEN "saving" ELSE "handling"
  /\ UNCHANGED <<specs, lease, made, world>>

\* future.result() raises what the thread raised.
HandleRaises(i) ==
  /\ main = "handling" /\ i \in ready /\ pc[i] = "raised"
  /\ main' = "unwinding"
  /\ pending' = pending \ {i}
  /\ ready' = {}
  /\ UNCHANGED <<specs, lease, threads, world, manifest, auths, failures, consecutive, aborted>>

Unwind ==
  /\ main = "unwinding"
  /\ \A i \in Submitted : Ended(i)
  /\ main' = "dead"
  /\ UNCHANGED <<specs, lease, threads, world, manifest, pending, ready, auths, failures, consecutive, aborted>>

\* The bundle of auths is written, and the manifest saved: no thread is left.
Finish ==
  /\ main = "finishing"
  /\ disk' = memory
  /\ main' = "done"
  /\ UNCHANGED <<specs, lease, threads, world, memory, writing, saver, pending, ready, auths, failures, consecutive, aborted>>

MainStep ==
  \/ Fill \/ MainSave \/ MainSaved \/ MainNotSaved \/ Wait
  \/ \E i \in Attempts : Handle(i) \/ HandleRaises(i)
  \/ Unwind \/ Finish

\* The batch is killed: its threads, its leases and all it kept in memory are
\* gone; run.py, the mailboxes and manifest.json are not.
Kill ==
  /\ "kill" \in Faults
  /\ main \notin {"done", "dead"}
  /\ main' = "dead"
  /\ pc' = [i \in Attempts |-> "gone"]
  /\ made' = [i \in Attempts |-> FALSE]
  /\ lease' = [i \in Attempts |-> NoRef]
  /\ memory' = [i \in Attempts |-> "absent"]
  /\ writing' = [a \in Attempts \cup {Main} |-> NoDump] /\ saver' = Nobody
  /\ pending' = {} /\ ready' = {} /\ auths' = {}
  /\ failures' = 0 /\ consecutive' = 0 /\ aborted' = FALSE
  /\ UNCHANGED <<specs, world, disk>>

Next ==
  \/ \E i \in Attempts : AttemptStep(i) \/ ChildStep(i)
  \/ MainStep
  \/ Kill

Spec == Init /\ [][Next]_vars

\* run.py ends by itself: its waits have time-outs (run.py:254, 445).
FairSpec ==
  /\ Spec /\ WF_vars(MainStep)
  /\ \A i \in Attempts : WF_vars(AttemptStep(i)) /\ WF_vars(ChildStep(i))

-----------------------------------------------------------------------------
Statuses == {"absent", "queued", "running", "registered", "failed"}
Places == {"none", "queued", "leasing", "recording", "mailing", "signing", "running", "failing",
           "cleaning", "releasing", "closing", "over", "raised", "gone"}

TypeOK ==
  /\ specs \in HealthySets
  /\ lease \in [Attempts -> Refs \cup {NoRef}]
  /\ pc \in [Attempts -> Places]
  /\ main \in {"filling", "saving", "waiting", "handling", "unwinding", "finishing", "done", "dead"}
  /\ memory \in [Attempts -> Statuses] /\ disk \in [Attempts -> Statuses]
  /\ writing \in [Attempts \cup {Main} -> [Attempts -> Statuses] \cup {NoDump}]
  /\ saver \in Attempts \cup {Main, Nobody}
  /\ mailbox \in [Attempts -> BOOLEAN] /\ made \in [Attempts -> BOOLEAN]
  /\ account \in [Attempts -> BOOLEAN] /\ told \in [Attempts -> BOOLEAN]
  /\ child \in [Attempts -> {"none", "up", "wrote", "ok", "bad"}]
  /\ result \in [Attempts -> {"none", "not-created", "created", "auth"}]
  /\ ready \subseteq pending /\ pending \subseteq Attempts /\ auths \subseteq Attempts
  /\ failures \in 0..Count /\ consecutive \in 0..Count /\ aborted \in BOOLEAN

Progress(s) == CASE s = "absent" -> 0 [] s = "queued" -> 1 [] s = "running" -> 2 [] OTHER -> 3

-----------------------------------------------------------------------------
(* The inductive invariant of the proofs, part by part.                    *)

\* A thread that writes the manifest holds the lock, at a place that saves.
SaverHolds ==
  /\ \A a \in Attempts \cup {Main} : writing[a] # NoDump <=> saver = a
  /\ saver = Main => main = "saving"
  /\ saver \in Attempts => pc[saver] \in DOMAIN AfterSave

\* What the manifest in memory says of an attempt that is at a place.
StatusAt(where) ==
  CASE where \in {"none", "gone"} -> {"absent"}
    [] where = "queued" -> {"queued"}
    [] where = "raised" -> {"queued", "registered", "failed"}
    [] where = "cleaning" -> {"failed"}
    [] where \in {"releasing", "closing", "over"} -> {"registered", "failed"}
    [] OTHER -> {"running"}
StatusFollows == \A i \in Attempts : memory[i] \in StatusAt(pc[i])

\* Submissions have no gap; those handled have ended, and all have at the end.
InOrder == \E n \in 0..Count : Submitted = 1..n
Handled ==
  /\ pending \subseteq Submitted
  /\ main \notin {"unwinding", "dead"} => \A i \in Submitted \ pending : pc[i] = "over"
  /\ main = "dead" => \A i \in Attempts : pc[i] \in {"none", "over", "raised", "gone"}
  /\ main = "handling" => ready # {} /\ \A i \in ready : Ended(i)

\* Each of them is in the bundle or is a failure.
Tallied ==
  /\ auths \subseteq Submitted \ pending
  /\ \A i \in auths : pc[i] = "over" /\ memory[i] = "registered"
  /\ consecutive <= failures
  /\ Cardinality(auths) + failures + Cardinality(pending) <= Cardinality(Submitted)
  /\ main \notin {"unwinding", "dead"} =>
       /\ \A i \in Submitted \ (pending \cup auths) : memory[i] = "failed"
       /\ Cardinality(auths) + failures + Cardinality(pending) = Cardinality(Submitted)

\* A batch that goes on has attempts in flight until all are submitted.
GoesOn ==
  /\ main = "filling" => ~aborted
  /\ main \notin {"filling", "unwinding", "dead"} /\ ~aborted =>
       pending # {} \/ Submitted = Attempts
  /\ main \in {"finishing", "done"} => pending = {}
  /\ main = "done" => disk = memory

\* A dump that waits to replace the file is older than the dict, and newer
\* than the file; and it knows the attempt that makes it.
DiskBehind ==
  /\ main # "dead" => \A i \in Attempts : Progress(disk[i]) <= Progress(memory[i])
  /\ saver # Nobody => \A i \in Attempts :
       Progress(disk[i]) <= Progress(writing[saver][i]) /\ Progress(writing[saver][i]) <= Progress(memory[i])
  /\ saver \in Attempts => writing[saver][saver] # "absent"

\* An attempt past its first save is in manifest.json, and so is all it left.
Recorded ==
  \A i \in Attempts :
    \/ pc[i] \in {"mailing", "signing", "running", "cleaning"} \/ made[i]
    \/ mailbox[i] \/ child[i] # "none" \/ account[i]
    => disk[i] # "absent"

\* run.py starts with a mailbox, knows of the account only by an answer it
\* lived to get, and writes one result, after that.
ChildKnows ==
  \A i \in Attempts :
    /\ pc[i] \in {"none", "queued", "leasing", "recording", "mailing", "signing"} => child[i] = "none"
    /\ pc[i] = "signing" \/ child[i] = "up" => mailbox[i]
    /\ told[i] => mailbox[i] /\ account[i] /\ child[i] # "none" /\ result[i] # "not-created"
    /\ result[i] # "none" => child[i] \notin {"none", "up"}

IInv ==
  /\ TypeOK /\ SaverHolds /\ StatusFollows /\ InOrder /\ Handled /\ Tallied /\ GoesOn
  /\ DiskBehind /\ Recorded /\ ChildKnows

-----------------------------------------------------------------------------
(* Properties.                                                             *)

\* Whenever the batch dies, manifest.json names every attempt that left a
\* mailbox or an account behind (execute_attempt saves before create_mailbox).
NothingUnrecorded ==
  \A i \in Attempts : mailbox[i] \/ account[i] => disk[i] # "absent"

\* An account that run.py knows of keeps the mailbox it is recovered with,
\* however run.py or its attempt ends.
KnownAccountKeepsMailbox ==
  \A i \in Attempts : told[i] => mailbox[i]

\* At the end every attempt is counted once, and the bundle holds exactly the
\* attempts that manifest.json calls registered, as load_resume_bundle demands.
EveryAttemptCounted ==
  main = "done" =>
    /\ Cardinality(auths) + failures = Cardinality(Submitted)
    /\ ~aborted => Submitted = Attempts
    /\ auths = {i \in Attempts : disk[i] = "registered"}

\* manifest.json never goes back: no save overwrites a later one.
ManifestNeverGoesBack ==
  [][\A i \in Attempts : Progress(disk[i]) <= Progress(disk'[i])]_vars

\* The batch ends, whatever its attempts, its saves and run.py do.
BatchEnds == <>(main \in {"done", "dead"})

\* "Deletes only mailboxes of this batch whose upstream account is confirmed
\* not to have been created" (OPERATIONS.zh-CN.md:264).
DeletedHasNoAccount ==
  \A i \in Attempts : child[i] # "none" /\ ~mailbox[i] => ~account[i]
=============================================================================
