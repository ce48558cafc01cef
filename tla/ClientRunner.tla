---------------------------- MODULE ClientRunner ----------------------------
(* One route of scripts/run_linux_client_full.py: the runner starts a client *)
(* (BrowserClient) with one worker, counts what it and re-probe processes    *)
(* have got into Sub2API, interrupts it when the target is reached, and      *)
(* writes the result. Routes share nothing but the runner.                   *)
(*                                                                           *)
(* Of cpa_reprobe.py (module Credentials) this is the part for credentials   *)
(* an export put aside; a run takes them one after the other.                *)
EXTENDS BrowserClient

VARIABLES
    runner,    \* what the runner does
    todo,      \* credentials a re-probe has still to look at
    probing,   \* the one it pushes
    ckpt,      \* accounts its checkpoint has as pushed, created and passed
    counted    \* successful_account_ids of the manifest

runnerVars == <<runner, todo, probing, ckpt, counted>>
allVars == <<vars, runnerVars>>

RunnerInit ==
    /\ Init /\ runner = "watch" /\ todo = {} /\ probing = None /\ ckpt = {} /\ counted = {}

-----------------------------------------------------------------------------
(* The runner.                                                               *)

Exited == main \in {"done", "dead"}

\* Mutant: only what the client itself has recorded.
SuccessfulRecords == records

\* successful_account_ids: of both files, the accounts created and passed.
Successful == records \cup ckpt

(* A round of the loop, every five seconds. The client is interrupted in     *)
(* every round in which the target is reached and it still runs.             *)
Watch ==
    /\ runner = "watch" /\ ~Exited /\ counted' = Successful
    /\ IF Cardinality(Successful) >= Target
       THEN Interrupt /\ UNCHANGED interrupts
       ELSE UNCHANGED vars
    /\ UNCHANGED <<runner, todo, probing, ckpt>>

\* The re-probe of a route, if it has pending credentials; it also takes those
\* in cooldown. The runner waits for it.
Selected ==
    IF \E b \in Boxes : dir[b] = "pending" THEN {b \in Boxes : dir[b] \in {"pending", "cooldown"}}
    ELSE {}
StartReprobe ==
    /\ runner = "watch" /\ ~Exited /\ Selected # {}
    /\ runner' = "reprobe" /\ todo' = Selected
    /\ UNCHANGED <<vars, probing, ckpt, counted>>
StartLastReprobe ==
    /\ runner = "watch" /\ Exited /\ runner' = "last reprobe" /\ todo' = Selected
    /\ UNCHANGED <<vars, probing, ckpt, counted>>

\* Mutant: the loop waits for a re-probe that is in the past.
EndReprobeOnce ==
    /\ runner = "reprobe" /\ todo = {} /\ probing = None /\ runner' = "watch"
    /\ UNCHANGED <<vars, todo, probing, ckpt, counted>>

\* The re-probe process has ended.
EndReprobe ==
    /\ runner \in {"reprobe", "last reprobe"} /\ todo = {} /\ probing = None
    /\ runner' = IF runner = "reprobe" THEN "watch" ELSE "result"
    /\ UNCHANGED <<vars, todo, probing, ckpt, counted>>

\* The manifest of a finished run.
Result ==
    /\ runner = "result" /\ counted' = Successful
    /\ runner' = IF Cardinality(Successful) >= Target THEN "completed" ELSE "failed"
    /\ UNCHANGED <<vars, todo, probing, ckpt>>

\* The runner dies; the client, a session of its own, goes on.
RunnerDies ==
    /\ runner \in {"watch", "reprobe", "last reprobe", "result"} /\ Fault /\ runner' = "gone"
    /\ UNCHANGED <<at, attempt, browser, used, stop, files, made, dir, held, unheard, clientVars,
                   todo, probing, ckpt, counted>>

-----------------------------------------------------------------------------
(* The re-probe process.                                                     *)

\* Another probe: what passes is moved and pushed, the rest is put aside.
Reprobe(b) ==
    /\ b \in todo /\ probing = None /\ todo' = todo \ {b}
    /\ \E d \in {"pending", "cooldown", "verified"} :
         /\ dir' = [dir EXCEPT ![b] = d]
         /\ probing' = IF d = "verified" THEN b ELSE None
    /\ UNCHANGED <<at, attempt, browser, used, stop, files, made, held, unheard, faults, clientVars,
                   runner, ckpt, counted>>

\* The push, and the record of the answer. A refusal and a lost answer leave
\* the credential where nobody pushes it again.
ReprobePush ==
    /\ probing # None /\ probing' = None
    /\ \/ /\ probing \notin held /\ held' = held \cup {probing} /\ ckpt' = ckpt \cup {probing}
          /\ UNCHANGED <<unheard, faults>>
       \/ UNCHANGED <<held, ckpt, unheard, faults>>
       \/ /\ probing \notin held /\ held' = held \cup {probing} /\ Fault
          /\ unheard' = unheard \cup {probing} /\ UNCHANGED ckpt
    /\ UNCHANGED <<at, attempt, browser, used, stop, files, made, dir, clientVars,
                   runner, todo, counted>>

ReprobeStep == ReprobePush \/ \E b \in Boxes : Reprobe(b)
RunnerStep == Watch \/ StartReprobe \/ StartLastReprobe \/ EndReprobe \/ Result

RunnerNext ==
    \/ ClientStep /\ UNCHANGED runnerVars
    \/ RunnerStep \/ ReprobeStep \/ RunnerDies

RunnerSpec == RunnerInit /\ [][RunnerNext]_allVars

(* Threads and processes run on; every loop of theirs has a deadline. The    *)
(* site, the mail and the bridge need do nothing.                            *)
RunnerFairSpec ==
    /\ RunnerSpec
    /\ WF_allVars(RunnerStep) /\ WF_allVars(ReprobeStep)
    /\ WF_allVars(JoinAll /\ UNCHANGED runnerVars) /\ WF_allVars(Report /\ UNCHANGED runnerVars)
    /\ \A w \in Workers : WF_allVars((Spawn(w) \/ WorkerStep(w)) /\ UNCHANGED runnerVars)

-----------------------------------------------------------------------------
\* Workers that were killed with the client, at most.
Killed == IF main = "dead" THEN Cardinality(Workers) ELSE 0

(* docs/SERVER_CLIENT_MODE.zh-CN.md:25, of what counts: the credential is on *)
(* the machine, the bridge has created the account and has said so, and the  *)
(* mailbox is that of an account at xAI: whoever pushed it, while the client *)
(* and re-probes write the files the runner reads.                           *)
CountedIsReal ==
    counted \subseteq {b \in (held \cap made) \ unheard : dir[b] = "verified"}

(* Conversely, what the run has put into Sub2API is in the manifest, unless  *)
(* an answer or a write was lost, or the client was killed when a worker was *)
(* between a push and its record: at most one account for each of these.     *)
CreatedIsCounted ==
    runner \in {"completed", "failed"} => Cardinality(held \ counted) <= faults + Killed

(* A run comes to a result, whatever its pages, letters and pushes do, and   *)
(* though the runner waits for every re-probe and for the client.            *)
RunEnds == <>(runner \in {"completed", "failed", "gone"})
-----------------------------------------------------------------------------
(* The inductive invariant, on top of that of the client.                    *)

RunnerTypeOK ==
    /\ TypeOK
    /\ runner \in {"watch", "reprobe", "last reprobe", "result", "completed", "failed", "gone"}
    /\ todo \subseteq Boxes /\ probing \in {None} \cup Boxes
    /\ ckpt \subseteq Boxes /\ counted \subseteq Boxes

\* The stages after the cookie of a new account.
Registered(w) ==
    \/ at[w] \in {"tos", "gate", "gate again", "birth", "surface", "prompt", "reply", "regate",
                  "rebirth", "account", "mint", "place", "push"}
    \/ at[w] = "final" /\ page[w] = "in"

\* A worker's mailbox is its own until the push has been answered: no other
\* worker has it, and no re-probe.
OwnBox(w) ==
    box[w] # None =>
        /\ box[w] <= used /\ box[w] # probing
        /\ \A v \in Workers \ {w} : box[v] # box[w]
        /\ Registered(w) => box[w] \in made
        /\ dir[box[w]] = IF at[w] \in {"push", "won"} THEN "verified" ELSE "none"
        /\ at[w] = "push" => Server /\ box[w] \notin held
        /\ at[w] = "won" => (box[w] \in held <=> Server) /\ box[w] \notin unheard

\* Credentials are those of accounts of mailboxes that were created, and what
\* Sub2API has stays verified.
Placed ==
    /\ \A b \in Boxes : dir[b] # "none" => b <= used /\ b \in made
    /\ \A b \in held : dir[b] = "verified"

\* What a re-probe has in hand; without one there is nothing.
Reprobing ==
    /\ \A b \in todo : dir[b] \in {"pending", "cooldown"}
    /\ probing # None => dir[probing] = "verified"
    /\ runner \in {"watch", "result", "completed", "failed"} => todo = {} /\ probing = None

\* The client has ended before the last re-probe, and with it its workers.
Ended ==
    /\ runner \in {"last reprobe", "result", "completed", "failed"} => Exited
    /\ main = "dead" => \A w \in Workers : at[w] \in {"off", "dead"}

\* The records the runner reads are real, and it has not missed one at the end.
RecordsReal ==
    /\ unheard \subseteq held /\ Successful \subseteq held \ unheard
    /\ counted \subseteq Successful
    /\ runner \in {"completed", "failed"} => counted = Successful

\* Accounts in Sub2API that are in no record and will be in none.
InFlight == {b \in Boxes : \E w \in Workers : at[w] = "won" /\ box[w] = b}
Unrecorded == held \ (Successful \cup InFlight)

RunnerIInv ==
    /\ RunnerTypeOK /\ IInv /\ (\A w \in Workers : OwnBox(w))
    /\ Placed /\ Reprobing /\ Ended /\ RecordsReal
    /\ Cardinality(Unrecorded) <= faults + Killed
=============================================================================
