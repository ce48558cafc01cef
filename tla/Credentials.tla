---------------------------- MODULE Credentials ----------------------------
(* The credential files of one identity on a client: the export of a new     *)
(* login (clients/windows/cpa_export.py), re-probe processes that verify,    *)
(* refresh and push what an export left (cpa_reprobe.py), and the moves      *)
(* between state directories both make (cpa/state.py).                       *)
(*                                                                           *)
(* The file has the same name in each directory. A token stands for a        *)
(* credential; tokens are numbered in the order xAI issues them. xAI and     *)
(* the bridge are external.                                                  *)
EXTENDS Integers, FiniteSets

CONSTANTS MaxRuns,     \* bound: runs of re-probe processes
          Options,     \* their options: --include-verified, --push-cooldown, a remote is configured
          MaxTokens,   \* bound: tokens issued
          MaxFaults    \* bound: crashes, and unlinks that fail

ASSUME ConstantsOK ==
    /\ Options \subseteq [verified : BOOLEAN, cooldown : BOOLEAN, remote : BOOLEAN]
    /\ MaxTokens \in Nat /\ MaxRuns \in Nat /\ MaxFaults \in Nat

States == {"verified", "pending", "cooldown"}
None == 0
Tokens == 1..MaxTokens
Reprobes == 1..MaxRuns    \* runs, in the order they start
Export == 0
Free == -1
Dead == -2                \* a lock file whose process died
Actors == Reprobes \cup {Export}
Decisions == {"pass", "cooldown", "retry", "refresh"}

(* What the checkpoint holds for a path: the token of push_fingerprint, the  *)
(* answer to its push, and whether the bridge's error is final. An error     *)
(* record has no token.                                                      *)
Record(t, pushed, terminal) == [tok |-> t, pushed |-> pushed, terminal |-> terminal]
Records == [tok : {None} \cup Tokens, pushed : {"none", "no", "yes"}, terminal : BOOLEAN]
ErrorRecord == Record(None, "none", FALSE)
NoCheckpoint == [s \in States |-> ErrorRecord]

\* What others have written since a run's read and since its store.
Writes == [old : SUBSET States, new : SUBSET States]
NoWrites == [old |-> {}, new |-> {}]

(* The locals of a run: the selected path, its payload and the fingerprint   *)
(* it expects in the file, the last decision, where it moves the file, the   *)
(* answer to its push, its options and its copy of the checkpoint.           *)
NoJob == [path |-> "pending", cand |-> None, fp |-> None, dec |-> "retry",
          dest |-> "pending", pushed |-> "none", terminal |-> FALSE,
          opts |-> [verified |-> FALSE, cooldown |-> FALSE, remote |-> FALSE],
          mem |-> NoCheckpoint]

VARIABLES
    file,       \* the token in each state directory
    newer,      \* pairs of directories that have the file, the one with the newer mtime first
    idlock,     \* holder of the identity lock
    oplock,     \* holder of the operation lock
    ckpt,       \* checkpoint file
    pc, job,    \* program counter and locals of every actor
    classes,    \* how often a run has classified its path
    issued,     \* tokens xAI has issued
    spent,      \* tokens whose refresh token is used up
    accepted,   \* tokens the bridge has taken
    runs, faults,
    \* history:
    fresh,      \* directories others have written while a run was at work: "old" between its
                \* read and its store of a refreshed token, "new" since the later of these
    stored,     \* the identity has had a file
    mislaid     \* a token was lost with an answer of xAI, or with a process that alone had it

disk == <<file, newer>>
locks == <<idlock, oplock>>
world == <<issued, spent, accepted>>
vars == <<disk, locks, ckpt, pc, job, classes, world, runs, faults, fresh, stored, mislaid>>

Init ==
    /\ file = [s \in States |-> None] /\ newer = {}
    /\ idlock = Free /\ oplock = Free /\ ckpt = NoCheckpoint
    /\ pc = [a \in Actors |-> "off"] /\ job = [a \in Actors |-> NoJob]
    /\ classes = [p \in Reprobes |-> 0]
    /\ issued = 0 /\ spent = {} /\ accepted = {} /\ runs = 0 /\ faults = 0
    /\ fresh = [p \in Reprobes |-> NoWrites] /\ stored = FALSE /\ mislaid = FALSE

-----------------------------------------------------------------------------
(* Files, their order in time, and moves between directories.                *)

Goto(a, to) == pc' = [pc EXCEPT ![a] = to]
EndJob(a) == Goto(a, "off") /\ job' = [job EXCEPT ![a] = NoJob]

\* Directory s has a newer file than directory t.
Newer(s, t) == <<s, t>> \in newer

\* What the mtimes say once the file in s was written.
Written(s) == {r \in newer : r[1] # s /\ r[2] # s}
              \cup {<<s, t>> : t \in {u \in States \ {s} : file[u] # None}}

\* Actor a replaces the file in s; runs that are past their read do not know.
WriteFile(a, s, t) ==
    /\ file' = [file EXCEPT ![s] = t]
    /\ newer' = Written(s)
    /\ fresh' = [p \in Reprobes |->
                   IF p = a THEN fresh[p]
                   ELSE IF pc[p] \in {"off", "queued"} THEN NoWrites
                   ELSE [fresh[p] EXCEPT !.new = @ \cup {s}]]

\* Mutant: the source's fingerprint is not compared.
SourceIsNewest(a) ==
    a \in Reprobes => /\ file[job[a].path] # None
                      /\ \A s \in States : ~Newer(s, job[a].path)

(* A transition with a source: the source still holds the expected           *)
(* fingerprint and no directory has a newer file. An export names no source. *)
SourceUnchanged(a) ==
    a \in Reprobes => /\ file[job[a].path] = job[a].fp /\ job[a].fp # None
                      /\ \A s \in States : ~Newer(s, job[a].path)

\* Mutant: a transition takes no identity lock.
MoveUnlocked(a) ==
    /\ pc[a] = "move" /\ SourceUnchanged(a)
    /\ idlock' = a /\ WriteFile(a, job[a].dest, job[a].cand) /\ stored' = TRUE
    /\ Goto(a, "unlink")
    /\ UNCHANGED <<oplock, ckpt, job, classes, world, runs, faults, mislaid>>

\* transition up to os.replace, under the identity lock.
Move(a) ==
    /\ pc[a] = "move" /\ idlock = Free /\ SourceUnchanged(a)
    /\ idlock' = a /\ WriteFile(a, job[a].dest, job[a].cand) /\ stored' = TRUE
    /\ Goto(a, "unlink")
    /\ UNCHANGED <<oplock, ckpt, job, classes, world, runs, faults, mislaid>>

\* Mutant: the new file is unlinked with the others.
RemoveAll(a) ==
    /\ pc[a] = "unlink" /\ idlock' = Free
    /\ file' = [s \in States |-> None] /\ newer' = {}

\* The rest of it: the copies elsewhere are unlinked, the lock is given back.
RemoveOthers(a) ==
    /\ pc[a] = "unlink" /\ idlock' = Free
    /\ file' = [s \in States |-> IF s = job[a].dest THEN file[s] ELSE None]
    /\ newer' = {}

\* An unlink raises (another process has the file open): some copies stay.
UnlinkRaises(a) ==
    /\ pc[a] = "unlink" /\ idlock' = Free /\ faults < MaxFaults /\ faults' = faults + 1
    /\ \E left \in SUBSET {s \in States \ {job[a].dest} : file[s] # None} \ {{}} :
         LET kept == left \cup {job[a].dest}
         IN  /\ file' = [s \in States |-> IF s \in kept THEN file[s] ELSE None]
             /\ newer' = {r \in newer : r[1] \in kept /\ r[2] \in kept}

-----------------------------------------------------------------------------
(* xAI's answers to a refresh.                                               *)

\* A new token; the refresh token of the old one is used up.
Refreshed(a) ==
    /\ issued < MaxTokens /\ job[a].cand \notin spent
    /\ issued' = issued + 1 /\ spent' = spent \cup {job[a].cand}
    /\ job' = [job EXCEPT ![a].cand = issued + 1]
    /\ UNCHANGED <<accepted, mislaid>>

\* As before, and the answer does not arrive.
RefreshLost(a) ==
    /\ issued < MaxTokens /\ job[a].cand \notin spent
    /\ issued' = issued + 1 /\ spent' = spent \cup {job[a].cand} /\ mislaid' = TRUE
    /\ UNCHANGED <<accepted, job>>

RefreshFails == UNCHANGED <<world, job, mislaid>>

-----------------------------------------------------------------------------
(* Export of a new login: mint, preprobe, refresh, transition, push. Until   *)
(* the transition its token is in memory only.                               *)

\* The directory a decision leads to.
SideOf(d) == CASE d = "pass" -> "verified" [] d = "cooldown" -> "cooldown" [] OTHER -> "pending"

\* Login, and the first answer of the preprobe.
ExportMint ==
    /\ pc[Export] = "off" /\ issued < MaxTokens /\ issued' = issued + 1
    /\ \E d \in Decisions :
         /\ job' = [job EXCEPT ![Export].cand = issued + 1, ![Export].dest = SideOf(d)]
         /\ Goto(Export, IF d = "refresh" THEN "refresh" ELSE "move")
    /\ UNCHANGED <<disk, locks, ckpt, classes, spent, accepted, runs, faults, fresh, stored,
                   mislaid>>

ExportProbeAgain ==
    /\ pc[Export] = "second"
    /\ \E d \in Decisions : job' = [job EXCEPT ![Export].dest = SideOf(d)]
    /\ Goto(Export, "move")
    /\ UNCHANGED <<disk, locks, ckpt, classes, world, runs, faults, fresh, stored, mislaid>>

ExportRefresh ==
    /\ pc[Export] = "refresh"
    /\ \/ Refreshed(Export) /\ Goto(Export, "second")
       \/ (RefreshLost(Export) \/ RefreshFails) /\ Goto(Export, "move")
    /\ UNCHANGED <<disk, locks, ckpt, classes, runs, faults, fresh, stored>>

ExportMoved ==
    /\ RemoveOthers(Export)
    /\ IF job[Export].dest = "verified" THEN Goto(Export, "push") /\ UNCHANGED job
                                          ELSE EndJob(Export)
    /\ UNCHANGED <<oplock, ckpt, classes, world, runs, faults, fresh, stored, mislaid>>

\* A transition that raises ends the export.
ExportUnlinkRaises ==
    /\ UnlinkRaises(Export) /\ EndJob(Export)
    /\ UNCHANGED <<oplock, ckpt, classes, world, runs, fresh, stored, mislaid>>
ExportLockTimeout ==
    /\ pc[Export] = "move" /\ idlock = Dead /\ EndJob(Export)
    /\ UNCHANGED <<disk, locks, ckpt, classes, world, runs, faults, fresh, stored, mislaid>>

\* The bridge takes the token, or not; the export keeps no record of it.
ExportPush ==
    /\ pc[Export] = "push" /\ EndJob(Export)
    /\ accepted' \in {accepted, accepted \cup {job[Export].cand}}
    /\ UNCHANGED <<disk, locks, ckpt, classes, issued, spent, runs, faults, fresh, stored,
                   mislaid>>

-----------------------------------------------------------------------------
(* A re-probe run, for the file of this identity.                            *)

\* Save a record for path s, give the operation lock back, count n classes.
Finish(p, s, rec, n) ==
    /\ ckpt' = [job[p].mem EXCEPT ![s] = rec] /\ EndJob(p)
    /\ oplock' = IF oplock = p THEN Free ELSE oplock
    /\ classes' = [classes EXCEPT ![p] = n] /\ fresh' = [fresh EXCEPT ![p] = NoWrites]
    /\ UNCHANGED <<runs, stored>>

\* An exception: the record says nothing of the credential.
Raise(p, n) == Finish(p, job[p].path, ErrorRecord, n)

\* The newest file of the directories the run looks at.
IsNewestOf(s, dirs) == /\ s \in dirs /\ file[s] # None
                       /\ \A t \in dirs : ~Newer(t, s)

StartRun(p) ==
    /\ runs = p - 1 /\ runs' = p
    /\ \E o \in Options, s \in States :
         /\ IsNewestOf(s, {"pending", "cooldown"} \cup IF o.verified THEN {"verified"} ELSE {})
         /\ job' = [job EXCEPT ![p] = [NoJob EXCEPT !.path = s, !.opts = o, !.mem = ckpt]]
    /\ Goto(p, "queued")
    /\ UNCHANGED <<disk, locks, ckpt, classes, world, faults, fresh, stored, mislaid>>

OperationLockTimeout(p) ==
    /\ pc[p] = "queued" /\ oplock # Free /\ Raise(p, 1)
    /\ UNCHANGED <<disk, idlock, world, faults, mislaid>>

\* Mutant: a verified file is probed whatever the checkpoint says.
SkipsFinalOnly(p, t) ==
    LET old == job[p].mem[job[p].path] IN old.terminal /\ old.tok = t

\* What the checkpoint in memory says of token t, read from the run's path.
Skips(p, t) ==
    LET old == job[p].mem[job[p].path]
    IN  \/ old.terminal /\ old.tok = t
        \/ job[p].path = "verified" /\ ~(old.tok = t /\ old.pushed = "no")

\* The operation lock is taken, then the file is read.
Read(p) ==
    /\ pc[p] = "queued" /\ oplock = Free /\ oplock' = p
    /\ file[job[p].path] # None /\ ~Skips(p, file[job[p].path])
    /\ job' = [job EXCEPT ![p].cand = file[job[p].path], ![p].fp = file[job[p].path]]
    /\ fresh' = [fresh EXCEPT ![p] = NoWrites] /\ Goto(p, "probe")
    /\ UNCHANGED <<disk, idlock, ckpt, classes, world, runs, faults, stored, mislaid>>

ReadMissing(p) ==
    /\ pc[p] = "queued" /\ oplock = Free /\ file[job[p].path] = None /\ Raise(p, 1)
    /\ UNCHANGED <<disk, idlock, world, faults, mislaid>>

Skip(p) ==
    /\ pc[p] = "queued" /\ oplock = Free
    /\ file[job[p].path] # None /\ Skips(p, file[job[p].path])
    /\ classes' = [classes EXCEPT ![p] = 1] /\ EndJob(p)
    /\ UNCHANGED <<disk, locks, ckpt, world, runs, faults, fresh, stored, mislaid>>

(* Where a decision leads: what passed is moved and pushed; what is out of   *)
(* quota is pushed first, if the run does that; the rest is put aside. A     *)
(* verified file stays where it is.                                          *)
After(p, d) ==
    LET o == job[p].opts
    IN  CASE d = "cooldown" /\ o.cooldown /\ o.remote -> "push"
          [] job[p].path # "verified" /\ ~(d = "cooldown" /\ o.cooldown /\ o.remote) -> "move"
          [] job[p].path = "verified" /\ d = "pass" /\ o.remote -> "push"
          [] OTHER -> "conclude"

Probe(p) ==
    /\ pc[p] \in {"probe", "second"}
    /\ \E d \in Decisions :
         /\ job' = [job EXCEPT ![p].dec = d, ![p].dest = SideOf(d)]
         /\ Goto(p, IF d = "refresh" /\ pc[p] = "probe" THEN "refresh" ELSE After(p, d))
    /\ UNCHANGED <<disk, locks, ckpt, classes, world, runs, faults, fresh, stored, mislaid>>

Refresh(p) ==
    /\ pc[p] = "refresh"
    /\ \/ Refreshed(p) /\ Goto(p, "store")
       \/ (RefreshLost(p) \/ RefreshFails) /\ Goto(p, After(p, "refresh"))
    /\ UNCHANGED <<disk, locks, ckpt, classes, runs, faults, fresh, stored>>

\* xAI calls the token invalid (Sub2API, which took it over, may have used it):
\* recorded, and the file is left alone.
Revoked(p) ==
    /\ pc[p] = "refresh"
    /\ Finish(p, job[p].path, Record(job[p].cand, job[p].mem[job[p].path].pushed, FALSE), 1)
    /\ UNCHANGED <<disk, idlock, world, faults, mislaid>>

(* replace_if_fingerprint: the refreshed token replaces the one it came      *)
(* from. All it compares is the fingerprint in the run's own path: what      *)
(* others wrote to another directory is older than this file from then on.   *)
Store(p) ==
    /\ pc[p] = "store" /\ idlock = Free /\ file[job[p].path] = job[p].fp
    /\ file' = [file EXCEPT ![job[p].path] = job[p].cand]
    /\ newer' = Written(job[p].path)
    /\ fresh' = [fresh EXCEPT ![p] = [old |-> fresh[p].new, new |-> {}]]
    /\ job' = [job EXCEPT ![p].fp = job[p].cand] /\ Goto(p, "second")
    /\ UNCHANGED <<locks, ckpt, classes, world, runs, faults, stored, mislaid>>

\* Another token is there, or none, or the lock is not to be had.
StoreFails(p) ==
    /\ pc[p] = "store" /\ idlock \in {Free, Dead}
    /\ idlock = Free => file[job[p].path] # job[p].fp
    /\ mislaid' = (mislaid \/ idlock = Dead) /\ Raise(p, 1)
    /\ UNCHANGED <<disk, idlock, world, faults>>

\* The temporary file of a store or a transition cannot be written.
WriteRaises(p) ==
    /\ idlock = Free /\ faults < MaxFaults /\ faults' = faults + 1
    /\ \/ pc[p] = "store" /\ file[job[p].path] = job[p].fp /\ mislaid' = TRUE
       \/ pc[p] = "move" /\ SourceUnchanged(p) /\ UNCHANGED mislaid
    /\ Raise(p, 1)
    /\ UNCHANGED <<disk, idlock, world>>

Moved(p) ==
    /\ RemoveOthers(p)
    /\ Goto(p, IF job[p].dec = "pass" /\ job[p].opts.remote THEN "push" ELSE "conclude")
    /\ UNCHANGED <<oplock, ckpt, job, classes, world, runs, faults, fresh, stored, mislaid>>

MoveRefused(p) ==
    /\ pc[p] = "move" /\ Raise(p, 1)
    /\ idlock = Dead \/ (idlock = Free /\ ~SourceUnchanged(p))
    /\ UNCHANGED <<disk, idlock, world, faults, mislaid>>

MoveUnlinkRaises(p) ==
    /\ UnlinkRaises(p) /\ Raise(p, 1)
    /\ UNCHANGED <<world, mislaid>>

(* The bridge's answer. The bridge may have taken the token though it is not *)
(* "ok": --require-created makes a final refusal of an account that was      *)
(* updated, and a proxy's 504 comes in place of any answer.                  *)
Push(p) ==
    /\ pc[p] = "push"
    /\ \E taken, ok, terminal \in BOOLEAN :
         /\ ok => taken /\ ~terminal
         /\ accepted' = IF taken THEN accepted \cup {job[p].cand} ELSE accepted
         /\ job' = [job EXCEPT ![p].pushed = IF ok THEN "yes" ELSE "no",
                               ![p].terminal = terminal,
                               ![p].dest = IF ok THEN "verified" ELSE @]
         /\ Goto(p, IF job[p].dec = "pass" \/ (~ok /\ job[p].path = "verified")
                    THEN "conclude" ELSE "move")
    /\ UNCHANGED <<disk, locks, ckpt, classes, issued, spent, runs, faults, fresh, stored, mislaid>>

\* push_auth_file raises when there is no HTTP answer. A run that passed has
\* classified its path by then, and the exception does it again.
PushRaises(p) ==
    /\ pc[p] = "push" /\ accepted' \in {accepted, accepted \cup {job[p].cand}}
    /\ Raise(p, IF job[p].dec = "pass" THEN 2 ELSE 1)
    /\ UNCHANGED <<disk, idlock, issued, spent, faults, mislaid>>

\* The path a run saves its record under, and the record.
Saved(p) ==
    LET j == job[p]
    IN  CASE j.dec = "pass" \/ j.pushed = "yes"
               -> <<"verified", Record(j.cand, j.pushed, j.terminal)>>
          [] j.dec = "cooldown" /\ j.pushed # "yes"
               -> <<j.path, Record(j.cand, IF j.opts.cooldown THEN "no" ELSE "none", j.terminal)>>
          [] OTHER
               -> <<j.path, Record(j.cand, IF j.path = "verified" THEN j.mem[j.path].pushed
                                           ELSE "none", FALSE)>>

Conclude(p) ==
    /\ pc[p] = "conclude" /\ Finish(p, Saved(p)[1], Saved(p)[2], 1)
    /\ UNCHANGED <<disk, idlock, world, faults, mislaid>>

-----------------------------------------------------------------------------
(* The environment.                                                          *)

\* An actor dies; the lock files it holds stay, also that of an identity lock
\* it has taken and done nothing under yet.
Crash(a) ==
    /\ pc[a] # "off" /\ faults < MaxFaults /\ faults' = faults + 1 /\ EndJob(a)
    /\ \/ idlock' = IF idlock = a THEN Dead ELSE idlock
       \/ pc[a] \in {"store", "move"} /\ idlock = Free /\ idlock' = Dead
    /\ oplock' = IF oplock = a THEN Dead ELSE oplock
    /\ mislaid' = (mislaid \/ pc[a] = "store")
    /\ UNCHANGED <<disk, ckpt, classes, world, runs, fresh, stored>>

\* Somebody removes lock files of processes that died.
ClearLocks ==
    /\ Dead \in {idlock, oplock}
    /\ idlock' = IF idlock = Dead THEN Free ELSE idlock
    /\ oplock' = IF oplock = Dead THEN Free ELSE oplock
    /\ UNCHANGED <<disk, ckpt, pc, job, classes, world, runs, faults, fresh, stored, mislaid>>

RunStep(p) ==
    \/ OperationLockTimeout(p) \/ Read(p) \/ ReadMissing(p) \/ Skip(p)
    \/ Probe(p) \/ Refresh(p) \/ Revoked(p) \/ Store(p) \/ StoreFails(p) \/ WriteRaises(p)
    \/ Move(p) \/ MoveRefused(p) \/ Moved(p) \/ MoveUnlinkRaises(p)
    \/ Push(p) \/ PushRaises(p) \/ Conclude(p)

ExportStep ==
    \/ ExportProbeAgain \/ ExportRefresh \/ Move(Export) \/ ExportMoved \/ ExportUnlinkRaises
    \/ ExportLockTimeout \/ ExportPush

Next ==
    \/ \E p \in Reprobes : StartRun(p) \/ RunStep(p)
    \/ ExportMint \/ ExportStep
    \/ \E a \in Actors : Crash(a)
    \/ ClearLocks

Spec == Init /\ [][Next]_vars

-----------------------------------------------------------------------------
\* A transition after a store, which leaves the refreshed token in its file.
MovesRefreshed(p) == pc[p] \in {"move", "unlink"} /\ file'[job[p].dest] = job[p].cand

(* A re-probe takes minutes between the read of a credential and the move of *)
(* its file. What anybody else writes in between, in whichever state         *)
(* directory, is neither replaced nor removed by it, though an export takes  *)
(* no operation lock: the fingerprint and, in transition, the mtimes see to  *)
(* it. The code has one exception, as replace_if_fingerprint compares no     *)
(* mtimes: what others wrote to another directory before the run stored a    *)
(* refreshed token counts as older from then on, and the transition puts the *)
(* refreshed token in its place or removes it. Nothing but that transition   *)
(* does, and what is written after the store is safe from it too.            *)
NoLostUpdate ==
    [][\A p \in Reprobes : pc'[p] # pc[p] =>
         /\ \A s \in fresh[p].new : file'[s] = file[s]
         /\ \A s \in fresh[p].old : file'[s] = file[s] \/ MovesRefreshed(p)]_vars

(* Once the identity has a file, some file or a run about to store it has a  *)
(* token that can still be refreshed, or that Sub2API took over: no race of  *)
(* moves, refreshes and exports, no crash between the replacement and the    *)
(* unlinks of a transition, and no unlink that fails loses the last one. A   *)
(* token that xAI's lost answer or a dying process alone had is excepted.    *)
LastUsableKept ==
    stored /\ ~mislaid =>
        \E t \in Tokens :
            /\ t \notin spent \/ t \in accepted
            /\ \/ \E s \in States : file[s] = t
               \/ \E p \in Reprobes : pc[p] = "store" /\ job[p].cand = t

(* The checkpoint says "pushed" of a token only if the bridge has taken that *)
(* token, whatever was refreshed since, by whichever run with whichever copy *)
(* of the checkpoint.                                                        *)
PushedIsTrue ==
    \A s \in States : ckpt[s].pushed = "yes" => ckpt[s].tok \in accepted

(* The assertion of cpa_reprobe.py:289-294, for a run with this one path:    *)
(* a path is classified once.                                                *)
StatisticsInvariant == \A p \in Reprobes : classes[p] <= 1
-----------------------------------------------------------------------------
(* The inductive invariant.                                                  *)

Stages == {"off", "queued", "probe", "refresh", "store", "second", "move", "unlink", "push",
           "conclude"}
JobType == [path : States, cand : {None} \cup Tokens, fp : {None} \cup Tokens, dec : Decisions,
            dest : States, pushed : {"none", "no", "yes"}, terminal : BOOLEAN,
            opts : [verified : BOOLEAN, cooldown : BOOLEAN, remote : BOOLEAN],
            mem : [States -> Records]]

TypeOK ==
    /\ file \in [States -> {None} \cup Tokens] /\ newer \subseteq States \X States
    /\ idlock \in Actors \cup {Free, Dead} /\ oplock \in Reprobes \cup {Free, Dead}
    /\ ckpt \in [States -> Records]
    /\ pc \in [Actors -> Stages] /\ job \in [Actors -> JobType]
    /\ classes \in [Reprobes -> 0..2]
    /\ issued \in 0..MaxTokens /\ spent \subseteq 1..issued /\ accepted \subseteq Tokens
    /\ runs \in 0..MaxRuns /\ faults \in 0..MaxFaults
    /\ fresh \in [Reprobes -> Writes] /\ stored \in BOOLEAN /\ mislaid \in BOOLEAN

\* A run that works on its path.
Working(p) == pc[p] \notin {"off", "queued"}

\* A lock has the holder that is inside it; a run to come is not.
LocksHeld ==
    /\ \A p \in Reprobes : oplock = p <=> Working(p)
    /\ \A p \in Reprobes : p > runs => pc[p] = "off"
    /\ \A a \in Actors : idlock = a <=> pc[a] = "unlink"

\* The mtimes order the files there are, and there is none before the first
\* transition.
FilesOrdered ==
    /\ \A s, t \in States : Newer(s, t) => file[s] # None /\ file[t] # None /\ s # t
    /\ \A s, t \in States :
          file[s] # None /\ file[t] # None /\ s # t => Newer(s, t) \/ Newer(t, s)
    /\ \A s \in States : file[s] # None => stored

\* The token an export has minted or refreshed is nobody else's before its
\* transition, and not spent unless the answer of a refresh was lost.
ExportAlone ==
    /\ pc[Export] \in {"off", "refresh", "second", "move", "unlink", "push"}
    /\ pc[Export] # "off" => job[Export].cand # None
    /\ pc[Export] \in {"refresh", "second", "move"} =>
          /\ \A s \in States : file[s] # job[Export].cand
          /\ \A p \in Reprobes : job[p].cand # job[Export].cand /\ job[p].fp # job[Export].cand
          /\ job[Export].cand \notin spent \/ mislaid

\* Nobody has a token that xAI has not issued.
IssuedOnly ==
    /\ \A s \in States : file[s] <= issued
    /\ \A a \in Actors : job[a].cand <= issued /\ job[a].fp <= issued

\* Between the replacement and the unlinks of a transition its file is the
\* newest one, and the only one with the token of an export.
Unlinking ==
    \A a \in Actors : pc[a] = "unlink" =>
        /\ file[job[a].dest] = job[a].cand
        /\ \A s \in States : ~Newer(s, job[a].dest)
        /\ a = Export => \A s \in States \ {job[a].dest} : file[s] # job[a].cand

\* What a run has in memory: the token of its file, or one that replaces it.
InMemory ==
    \A p \in Reprobes :
        /\ Working(p) => job[p].fp # None
        /\ Working(p) /\ pc[p] # "store" => job[p].cand = job[p].fp
        /\ pc[p] = "store" => job[p].cand \notin spent \cup {None}
        /\ pc[p] \in {"queued", "probe", "refresh", "store", "second"} => job[p].pushed = "none"

\* A run can tell that somebody has written since its read, or since its store.
ChangeIsSeen ==
    \A p \in Reprobes : Working(p) =>
        /\ fresh[p].new # {} => \/ file[job[p].path] # job[p].fp
                                \/ \E s \in States : Newer(s, job[p].path)
        /\ job[p].path \in fresh[p].new => file[job[p].path] # job[p].fp
        /\ pc[p] = "unlink" => fresh[p].new = {}
        /\ pc[p] \in {"probe", "refresh", "store"} => fresh[p].old = {}

Newest(s) == file[s] # None /\ \A t \in States : ~Newer(t, s)

\* A run that has lost its file has not lost the newest one.
NewestIsOther ==
    \A p \in Reprobes :
        pc[p] \in {"probe", "refresh", "store"} /\ file[job[p].path] # job[p].fp =>
            \A s \in States : Newest(s) => file[s] # job[p].fp

\* The newest file has a usable token, or the one a run is about to replace.
NewestUsable ==
    stored /\ ~mislaid =>
        \E s \in States :
            /\ Newest(s)
            /\ \/ file[s] \notin spent \/ file[s] \in accepted
               \/ \E p \in Reprobes : pc[p] = "store" /\ job[p].fp = file[s]

\* A record of a push is true in the checkpoint and in every copy of it; a run
\* that works on a verified file has found that its push was not taken.
TrueRecords(c) ==
    \A s \in States : c[s].pushed = "yes" => s = "verified" /\ c[s].tok \in accepted
RecordsTrue ==
    /\ TrueRecords(ckpt)
    /\ \A p \in Reprobes :
          /\ TrueRecords(job[p].mem)
          /\ job[p].pushed = "yes" => job[p].cand \in accepted
          /\ Working(p) /\ job[p].path = "verified" => job[p].mem["verified"].pushed = "no"

IInv ==
    /\ TypeOK /\ LocksHeld /\ FilesOrdered /\ ExportAlone /\ IssuedOnly /\ Unlinking /\ InMemory
    /\ ChangeIsSeen /\ NewestIsOther /\ NewestUsable /\ RecordsTrue
=============================================================================
