---------------------------- MODULE BrowserClient ----------------------------
(* The registration client, clients/windows/grok_register_ttk.py, as a       *)
(* process: worker threads that claim slots and register one account for     *)
(* each (Signup), the state they share, the main thread that joins them, and *)
(* the signals it gets.                                                      *)
EXTENDS Signup

CONSTANTS Count,          \* slots (--count)
          Target,         \* successes wanted (--target-successes); 0: no target
          SlotRetries,    \* attempts more for a slot that is stuck (max_slot_retry)
          MaxInterrupts   \* bound: signals of the user

ASSUME ClientConstants ==
    /\ Count \in Nat \ {0} /\ Target \in 0..Count
    /\ SlotRetries \in Nat /\ MaxInterrupts \in Nat

VARIABLES
    issued, successes, failures,   \* SharedState
    retries,    \* of every worker's slot
    records,    \* accounts in success_records_file
    main,       \* what the main thread does
    summary,    \* the GROK_CLIENT_SUMMARY line
    interrupts

counters == <<issued, successes, failures>>
clientVars == <<counters, retries, records, main, summary, interrupts>>
vars == <<signupVars, clientVars>>

\* The steps of a worker outside its attempts. A dead one was killed.
LoopSteps == {"unborn", "start", "claim", "count", "restart", "ending", "off", "dead"}
NoSummary == [attempted |-> 0, successes |-> 0, failures |-> 0, reached |-> FALSE]

TypeOK ==
    /\ SignupTypeOK /\ at \in [Workers -> Stages \cup Outcomes \cup LoopSteps]
    /\ issued \in 0..Count /\ successes \in 0..Count /\ failures \in 0..Count
    /\ retries \in [Workers -> 0..SlotRetries] /\ records \subseteq Boxes
    /\ main \in {"spawn", "join", "stopping", "report", "done", "dead"}
    /\ summary \in [attempted : 0..Count, successes : 0..Count, failures : 0..Count,
                    reached : BOOLEAN]
    /\ interrupts \in 0..MaxInterrupts

Init ==
    /\ SignupInit /\ at = [w \in Workers |-> "unborn"]
    /\ issued = 0 /\ successes = 0 /\ failures = 0 /\ retries = [w \in Workers |-> 0]
    /\ records = {} /\ main = "spawn" /\ summary = NoSummary /\ interrupts = 0

-----------------------------------------------------------------------------
(* SharedState.                                                              *)

\* Mutant: the target does not stop the slots.
SlotFreeAlways == ~stop /\ issued < Count

SlotFree == ~stop /\ issued < Count /\ ~(Target > 0 /\ successes >= Target)

TargetReached == Target > 0 => successes >= Target

-----------------------------------------------------------------------------
(* register_worker.                                                          *)

StartBrowser(w) ==
    /\ at[w] = "start"
    /\ \/ Goto(w, "claim") /\ Restart(w, TRUE) /\ UNCHANGED faults
       \/ Goto(w, "off") /\ Restart(w, FALSE) /\ Fault
    /\ UNCHANGED <<attempt, used, stop, files, made, dir, held, unheard, clientVars>>

Claim(w) ==
    /\ at[w] = "claim"
    /\ IF SlotFree
       THEN Goto(w, "open") /\ issued' = issued + 1 /\ retries' = [retries EXCEPT ![w] = 0]
       ELSE Goto(w, "ending") /\ UNCHANGED <<issued, retries>>
    /\ UNCHANGED <<attempt, browser, used, stop, files, made, dir, held, unheard, faults,
                   successes, failures, records, main, summary, interrupts>>

\* save_success_record, if there is a file for it. When it raises, the attempt
\* is a failure.
Record(w) ==
    /\ at[w] = "won" /\ box' = [box EXCEPT ![w] = None]
    /\ \/ /\ Goto(w, "count") /\ UNCHANGED <<faults, failures>>
          /\ records' = IF Server THEN records \cup {box[w]} ELSE records
       \/ /\ Server /\ Fault /\ Goto(w, "restart") /\ failures' = failures + 1
          /\ UNCHANGED records
    /\ UNCHANGED <<tries, letters, gated, talks, browser, used, stop, files, made, dir, held,
                   unheard, issued, successes, retries, main, summary, interrupts>>

CountSuccess(w) ==
    /\ at[w] = "count" /\ Goto(w, "restart") /\ successes' = successes + 1
    /\ UNCHANGED <<attempt, browser, used, stop, files, made, dir, held, unheard, faults,
                   issued, failures, retries, records, main, summary, interrupts>>

\* Mutant: a failure is not counted.
ForgetFailure(w) ==
    /\ at[w] = "failed" /\ Goto(w, "restart")
    /\ UNCHANGED <<attempt, browser, used, stop, files, made, dir, held, unheard, faults, clientVars>>

CountFailure(w) ==
    /\ at[w] = "failed" /\ Goto(w, "restart") /\ failures' = failures + 1
    /\ UNCHANGED <<attempt, browser, used, stop, files, made, dir, held, unheard, faults,
                   issued, successes, retries, records, main, summary, interrupts>>

\* Mutant: one retry too many.
RetryOnceMore(w) ==
    /\ at[w] = "retry" /\ retries[w] <= SlotRetries /\ retries' = [retries EXCEPT ![w] = @ + 1]
    /\ Restart(w, TRUE) /\ Goto(w, "open")
    /\ UNCHANGED <<attempt, used, stop, files, made, dir, held, unheard, faults,
                   counters, records, main, summary, interrupts>>

\* AccountRetryNeeded: the same slot again in a new browser, with another
\* mailbox; the slot is a failure when there were enough. A browser that does
\* not start ends the worker, and the slot is not counted.
RetrySlot(w) ==
    /\ at[w] = "retry"
    /\ \/ /\ retries[w] < SlotRetries /\ retries' = [retries EXCEPT ![w] = @ + 1]
          /\ UNCHANGED failures
          /\ \/ Restart(w, TRUE) /\ Goto(w, "open") /\ UNCHANGED faults
             \/ Restart(w, FALSE) /\ Goto(w, "ending") /\ Fault
       \/ /\ retries[w] = SlotRetries /\ failures' = failures + 1 /\ Goto(w, "restart")
          /\ UNCHANGED <<retries, browser, faults>>
    /\ UNCHANGED <<attempt, used, stop, files, made, dir, held, unheard,
                   issued, successes, records, main, summary, interrupts>>

\* Between two slots.
NextSlot(w) ==
    /\ at[w] = "restart"
    /\ \/ ~stop /\ Restart(w, TRUE) /\ Goto(w, "claim") /\ UNCHANGED faults
       \/ ~stop /\ Restart(w, FALSE) /\ Goto(w, "ending") /\ Fault
       \/ stop /\ Goto(w, "ending") /\ UNCHANGED <<browser, faults>>
    /\ UNCHANGED <<attempt, used, stop, files, made, dir, held, unheard, clientVars>>

\* The finally clause, also after RegistrationCancelled.
EndWorker(w) ==
    /\ at[w] \in {"ending", "cancelled"} /\ Goto(w, "off") /\ Restart(w, FALSE)
    /\ UNCHANGED <<attempt, used, stop, files, made, dir, held, unheard, faults, clientVars>>

WorkerStep(w) ==
    \/ StartBrowser(w) \/ Claim(w) \/ Record(w) \/ CountSuccess(w) \/ CountFailure(w)
    \/ RetrySlot(w) \/ NextSlot(w) \/ EndWorker(w)
    \/ SignupStep(w) /\ UNCHANGED clientVars

-----------------------------------------------------------------------------
(* run_registration_concurrent and main.                                     *)

Spawn(w) ==
    /\ main = "spawn" /\ at[w] = "unborn" /\ Goto(w, "start")
    /\ main' = IF \A v \in Workers \ {w} : at[v] # "unborn" THEN "join" ELSE main
    /\ UNCHANGED <<attempt, browser, used, stop, files, made, dir, held, unheard, faults,
                   counters, retries, records, summary, interrupts>>

JoinAll ==
    /\ main \in {"join", "stopping"} /\ \A w \in Workers : at[w] = "off"
    /\ main' = "report"
    /\ UNCHANGED <<signupVars, counters, retries, records, summary, interrupts>>

Report ==
    /\ main = "report" /\ main' = "done"
    /\ summary' = [attempted |-> issued, successes |-> successes, failures |-> failures,
                   reached |-> TargetReached]
    /\ UNCHANGED <<signupVars, counters, retries, records, interrupts>>

\* KeyboardInterrupt: the first one in the loop that joins makes the workers
\* stop; any other ends main, and with it the daemon threads.
Interrupt ==
    /\ main \notin {"done", "dead"}
    /\ IF main = "join"
       THEN main' = "stopping" /\ stop' = TRUE /\ UNCHANGED <<at, attempt, page>>
       ELSE /\ main' = "dead" /\ at' = [w \in Workers |-> IF at[w] = "off" THEN "off" ELSE "dead"]
            /\ NoAttempts /\ UNCHANGED stop
    /\ UNCHANGED <<up, used, files, made, dir, held, unheard, faults, counters, retries,
                   records, summary>>

UserInterrupts == Interrupt /\ interrupts < MaxInterrupts /\ interrupts' = interrupts + 1

ClientStep ==
    \/ \E w \in Workers : Spawn(w) \/ WorkerStep(w)
    \/ \E w \in Workers : SiteStep(w) /\ UNCHANGED clientVars
    \/ JoinAll \/ Report

Next == ClientStep \/ UserInterrupts

Spec == Init /\ [][Next]_vars

-----------------------------------------------------------------------------
(* Slots are claimed before their result is known, so a target can be        *)
(* exceeded, but never by more than what the other workers had in flight.    *)
OvershootBounded == Target > 0 => successes <= Target + Cardinality(Workers) - 1

(* The summary accounts for every slot, and without a stop and a broken      *)
(* browser or file for none but itself: a slot that is counted neither as a  *)
(* success nor as a failure costs the worker that had it its life, so there  *)
(* are never more of them than workers.                                      *)
EverySlotCounted ==
    /\ issued - successes - failures \in 0..Cardinality(Workers)
    /\ main = "done" /\ ~stop /\ faults = 0
         => summary.attempted = summary.successes + summary.failures

(* The credential of a mailbox is written before xAI can have an account for *)
(* it, the account before its OAuth credential exists, whichever mailbox,    *)
(* retry, cancellation or kill comes in between: what is lost is lost by a   *)
(* write that failed (both are swallowed), one record each.                  *)
AccountsWrittenDown ==
    Cardinality(made \ mailFile) + Cardinality({b \in Boxes : dir[b] # "none"} \ acctFile) <= faults

-----------------------------------------------------------------------------
(* The inductive invariant.                                                  *)

\* The workers that have a slot whose result is not counted yet, and those that
\* claim no slot again.
SlotSteps == Stages \cup {"won", "failed", "retry", "count"}
LastSteps == {"cancelled", "ending", "off", "dead"}
Holding == {w \in Workers : at[w] \in SlotSteps}
Gone == {w \in Workers : at[w] \in LastSteps}

\* A slot is counted, held, or was lost by a worker that is gone.
SlotsHeld ==
    /\ successes + failures + Cardinality(Holding) <= issued
    /\ issued <= successes + failures + Cardinality(Holding \cup Gone)
    /\ main # "dead" /\ ~stop /\ faults = 0
         => issued = successes + failures + Cardinality(Holding)

\* A slot is claimed below the target only.
TargetAhead ==
    Target > 0 => successes + Cardinality(Holding) <= Target + Cardinality(Workers) - 1

Summed ==
    /\ main \in {"report", "done"} => \A w \in Workers : at[w] = "off"
    /\ main = "done" => /\ summary.attempted = issued /\ summary.successes = successes
                        /\ summary.failures = failures

IInv ==
    /\ TypeOK /\ \A w \in Workers : HasBox(w) /\ MayChange(w)
    /\ WritesLost /\ SlotsHeld /\ TargetAhead /\ Summed
=============================================================================
