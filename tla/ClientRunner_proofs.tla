------------------------- MODULE ClientRunner_proofs -------------------------
(***************************************************************************)
(* Proofs about ClientRunner, for every number of workers, slots and       *)
(* mailboxes: what the runner counts is real, and what it does not count   *)
(* has cost a fault or a killed worker.                                    *)
(***************************************************************************)
EXTENDS ClientRunner, BrowserClient_proofs

\* What a worker's step may do to its attempt when it neither takes a mailbox,
\* places a credential, pushes nor records.
CalmAt(w) ==
  /\ \/ at'[w] = at[w]
     \/ at[w] \notin {"off", "dead", "push", "won"} /\ at'[w] \notin {"push", "won"}
  /\ box'[w] \in {box[w], None}
  /\ Registered(w)' => Registered(w) \/ box'[w] \in made' \cup {None}

Calm ==
  /\ UNCHANGED <<used, dir, held, unheard>> /\ made \subseteq made'
  /\ \A w \in Workers : CalmAt(w)

\* What the proofs need of the types.
LEMMA RunnerTypes ==
  ASSUME TypeOK
  PROVE  /\ at \in [Workers -> Stages \cup Outcomes \cup LoopSteps]
         /\ box \in [Workers -> {None} \cup Boxes] /\ page \in [Workers -> Pages]
         /\ dir \in [Boxes -> Directories] /\ used \in 0..MaxBoxes
         /\ held \subseteq Boxes /\ made \subseteq Boxes /\ unheard \subseteq Boxes
         /\ records \subseteq Boxes /\ faults \in Nat /\ MaxBoxes \in Nat
         /\ \A b \in Boxes : b \in Nat /\ b # None
BY SignupConstants DEF TypeOK, SignupTypeOK, Boxes, None

\* A step of one attempt.
LEMMA CalmStep ==
  ASSUME NEW w \in Workers,
         \A v \in Workers \ {w} : at'[v] = at[v] /\ page'[v] = page[v] /\ box'[v] = box[v],
         at[w] \notin {"off", "dead", "push", "won"}, at'[w] \notin {"push", "won"},
         box'[w] \in {box[w], None},
         UNCHANGED <<used, dir, held, unheard>>, made \subseteq made',
         Registered(w)' => Registered(w) \/ box'[w] \in made' \cup {None}
  PROVE  Calm
<1>1. ASSUME NEW v \in Workers PROVE CalmAt(v)
  <2>1. CASE v = w BY <2>1 DEF CalmAt
  <2>2. CASE v # w BY <2>2 DEF CalmAt, Registered
  <2> QED BY <2>1, <2>2
<1> QED BY <1>1 DEF Calm

\* An attempt that ends without its credential pushed.
LEMMA CalmLeave ==
  ASSUME TypeOK, NEW w \in Workers, NEW s \in {"failed", "retry", "cancelled"},
         at[w] \notin {"off", "dead", "push", "won"}, Leave(w, s),
         UNCHANGED <<used, dir, held, unheard, made>>
  PROVE  Calm
<1>1. /\ at' = [at EXCEPT ![w] = s] /\ page' = [page EXCEPT ![w] = "none"]
      /\ box' = [box EXCEPT ![w] = None]
  BY DEF Leave, Goto
<1>2. /\ at'[w] = s /\ box'[w] = None
      /\ \A v \in Workers \ {w} : at'[v] = at[v] /\ page'[v] = page[v] /\ box'[v] = box[v]
  BY <1>1, RunnerTypes
<1>3. s \notin {"push", "won"} OBVIOUS
<1> HIDE DEF Leave
<1> QED BY <1>2, <1>3, CalmStep

\* The steps of an attempt that move it and its page.
LEMMA CalmPages ==
  ASSUME TypeOK, NEW w \in Workers,
         \/ OpenSignup(w) \/ ClickEntry(w) \/ ReclickEntry(w)
         \/ TypeCodeNative(w) \/ TypeCodeScript(w) \/ SolveChallenge(w) \/ FillProfileScript(w)
         \/ Resubmit(w) \/ ReadCookie(w) \/ PassGate(w) \/ MissGate(w) \/ SetBirthDate(w)
         \/ PressAgeModal(w) \/ DismissAgeModal(w) \/ OpenChat(w) \/ SendPrompt(w)
         \/ ReadReply(w) \/ NoteMailbox(w) \/ SaveAccount(w) \/ Mint(w)
  PROVE  Calm
<1> USE DEF Goto, Show, browser, attempt, GateStages
<1>0. at \in [Workers -> Stages \cup Outcomes \cup LoopSteps] /\ page \in [Workers -> Pages]
  BY RunnerTypes
<1>1. /\ \A v \in Workers \ {w} : at'[v] = at[v] /\ page'[v] = page[v]
      /\ at[w] \notin {"off", "dead", "push", "won"} /\ at'[w] \notin {"push", "won"}
      /\ box' = box /\ UNCHANGED <<used, dir, held, unheard, made>>
      /\ Registered(w)' => Registered(w)
  <2>1. CASE OpenSignup(w) BY <1>0, <2>1 DEF OpenSignup, Registered
  <2>2. CASE ClickEntry(w) BY <1>0, <2>2 DEF ClickEntry, Registered
  <2>3. CASE ReclickEntry(w) BY <1>0, <2>3 DEF ReclickEntry, Registered
  <2>4. CASE TypeCodeNative(w) BY <1>0, <2>4 DEF TypeCodeNative, Registered
  <2>5. CASE TypeCodeScript(w) BY <1>0, <2>5 DEF TypeCodeScript, Registered
  <2>6. CASE SolveChallenge(w) BY <1>0, <2>6 DEF SolveChallenge, Registered
  <2>7. CASE FillProfileScript(w) BY <1>0, <2>7 DEF FillProfileScript, Registered
  <2>8. CASE Resubmit(w) BY <1>0, <2>8 DEF Resubmit, Registered
  <2>9. CASE ReadCookie(w) BY <1>0, <2>9 DEF ReadCookie, Registered
  <2>10. CASE PassGate(w) BY <1>0, <2>10 DEF PassGate, Registered
  <2>11. CASE MissGate(w) BY <1>0, <2>11 DEF MissGate, Registered
  <2>12. CASE SetBirthDate(w) BY <1>0, <2>12 DEF SetBirthDate, Registered
  <2>13. CASE PressAgeModal(w) BY <1>0, <2>13 DEF PressAgeModal, Registered
  <2>14. CASE DismissAgeModal(w) BY <1>0, <2>14 DEF DismissAgeModal, Registered
  <2>15. CASE OpenChat(w) BY <1>0, <2>15 DEF OpenChat, Registered
  <2>16. CASE SendPrompt(w) BY <1>0, <2>16 DEF SendPrompt, Registered
  <2>17. CASE ReadReply(w) BY <1>0, <2>17 DEF ReadReply, Registered
  <2>18. CASE NoteMailbox(w) BY <1>0, <2>18 DEF NoteMailbox, Registered
  <2>19. CASE SaveAccount(w) BY <1>0, <2>19 DEF SaveAccount, Registered
  <2>20. CASE Mint(w) BY <1>0, <2>20 DEF Mint, Registered
  <2> QED BY <2>1, <2>2, <2>3, <2>4, <2>5, <2>6, <2>7, <2>8, <2>9, <2>10, <2>11, <2>12, <2>13,
             <2>14, <2>15, <2>16, <2>17, <2>18, <2>19, <2>20
<1> QED BY <1>1, CalmStep

\* Those on its letters, the gate and the conversation, and those that end it
\* or give its mailbox up.
LEMMA CalmOthers ==
  ASSUME TypeOK, NEW w \in Workers,
         \/ SubmitEmailNative(w) \/ SubmitEmailScript(w) \/ LookOnce(w) \/ LookAgain(w)
         \/ Resend(w) \/ AcceptTos(w) \/ ClickGate(w) \/ ChatGated(w)
         \/ Cancelled(w) \/ GiveUp(w) \/ CodeFails(w) \/ ChangeMailbox(w)
         \/ FillProfileNative(w) \/ LoseBrowser(w) \/ StuckOnFinal(w)
  PROVE  Calm
<1> USE DEF Goto, Show, browser, attempt
<1>0. /\ at \in [Workers -> Stages \cup Outcomes \cup LoopSteps] /\ page \in [Workers -> Pages]
      /\ box \in [Workers -> {None} \cup Boxes]
  BY RunnerTypes
<1>1. CASE SubmitEmailNative(w) BY <1>0, <1>1, CalmStep DEF SubmitEmailNative, Registered
<1>2. CASE SubmitEmailScript(w) BY <1>0, <1>2, CalmStep DEF SubmitEmailScript, Registered
<1>3. CASE LookOnce(w) \/ LookAgain(w)
  <2>1. /\ at[w] = "poll" /\ at' \in {at, [at EXCEPT ![w] = "type"]}
        /\ UNCHANGED <<box, browser, used, made, dir, held, unheard>>
    BY <1>3 DEF LookOnce, LookAgain, LookAt
  <2> QED BY <1>0, <2>1, CalmStep DEF Registered
<1>4. CASE Resend(w) BY <1>0, <1>4, CalmStep DEF Resend, Registered
<1>5. CASE AcceptTos(w) BY <1>0, <1>5, CalmStep DEF AcceptTos, Ungate, Registered
<1>6. CASE ClickGate(w) BY <1>0, <1>6, CalmStep DEF ClickGate, GateStages, Ungate, Registered
<1>7. CASE ChatGated(w) BY <1>0, <1>7, CalmStep DEF ChatGated, Talk, Registered
<1>8. CASE Cancelled(w)
  <2>1. /\ at[w] \notin {"off", "dead", "push", "won"} /\ Leave(w, "cancelled")
        /\ UNCHANGED <<used, made, dir, held, unheard>>
    BY <1>8 DEF Cancelled, Cancellable
  <2> QED BY <2>1, CalmLeave
<1>9. CASE GiveUp(w)
  <2>1. /\ at[w] \notin {"off", "dead", "push", "won"} /\ Leave(w, "failed")
        /\ UNCHANGED <<used, made, dir, held, unheard>>
    BY <1>9 DEF GiveUp, GivesUp
  <2> QED BY <2>1, CalmLeave
<1>10. CASE CodeFails(w)
  <2>1. /\ at[w] \in {"poll", "type"} /\ UNCHANGED <<used, made, dir, held, unheard>>
        /\ \/ at' = [at EXCEPT ![w] = "change"] /\ UNCHANGED <<box, page>>
           \/ Leave(w, "failed")
    BY <1>10 DEF CodeFails
  <2>2. CASE Leave(w, "failed") BY <2>1, <2>2, CalmLeave
  <2>3. CASE at' = [at EXCEPT ![w] = "change"] /\ UNCHANGED <<box, page>>
    BY <1>0, <2>1, <2>3, CalmStep DEF Registered
  <2> QED BY <2>1, <2>2, <2>3
<1>11. CASE ChangeMailbox(w)
  <2>1. /\ at[w] = "change" /\ UNCHANGED <<used, made, dir, held, unheard>>
        /\ \/ /\ at' = [at EXCEPT ![w] = "open"] /\ box' = [box EXCEPT ![w] = None]
              /\ page' = [page EXCEPT ![w] = "none"]
           \/ Leave(w, "failed")
    BY <1>11 DEF ChangeMailbox, Restart
  <2>2. CASE Leave(w, "failed") BY <2>1, <2>2, CalmLeave
  <2>3. CASE /\ at' = [at EXCEPT ![w] = "open"] /\ box' = [box EXCEPT ![w] = None]
             /\ page' = [page EXCEPT ![w] = "none"]
    BY <1>0, <2>1, <2>3, CalmStep DEF Registered
  <2> QED BY <2>1, <2>2, <2>3
<1>12. CASE FillProfileNative(w)
  BY <1>0, <1>12, CalmStep DEF FillProfileNative, Take, Registered
<1>13. CASE LoseBrowser(w) BY <1>0, <1>13, CalmStep DEF LoseBrowser, Restart, Registered
<1>14. CASE StuckOnFinal(w)
  <2>1. /\ at[w] \notin {"off", "dead", "push", "won"} /\ Leave(w, "retry")
        /\ UNCHANGED <<used, made, dir, held, unheard>>
    BY <1>14 DEF StuckOnFinal
  <2> QED BY <2>1, CalmLeave
<1> QED BY <1>1, <1>2, <1>3, <1>4, <1>5, <1>6, <1>7, <1>8, <1>9, <1>10, <1>11, <1>12, <1>13, <1>14

\* The steps of a worker outside its attempts, but the record of a success.
LEMMA CalmLoop ==
  ASSUME TypeOK, NEW w \in Workers,
         \/ StartBrowser(w) \/ Claim(w) \/ CountSuccess(w) \/ CountFailure(w) \/ RetrySlot(w)
         \/ NextSlot(w) \/ EndWorker(w) \/ Spawn(w)
  PROVE  Calm
<1> USE DEF Goto, Restart, browser, attempt, clientVars
<1>0. /\ at \in [Workers -> Stages \cup Outcomes \cup LoopSteps] /\ page \in [Workers -> Pages]
      /\ box \in [Workers -> {None} \cup Boxes]
  BY RunnerTypes
<1>1. CASE StartBrowser(w) BY <1>0, <1>1, CalmStep DEF StartBrowser, Registered
<1>2. CASE Claim(w)
  <2>1. /\ at[w] = "claim" /\ UNCHANGED <<box, page, used, made, dir, held, unheard>>
        /\ at' = [at EXCEPT ![w] = "open"] \/ at' = [at EXCEPT ![w] = "ending"]
    BY <1>2 DEF Claim
  <2> QED BY <1>0, <2>1, CalmStep DEF Registered
<1>3. CASE CountSuccess(w) BY <1>0, <1>3, CalmStep DEF CountSuccess, Registered
<1>4. CASE CountFailure(w) BY <1>0, <1>4, CalmStep DEF CountFailure, Registered
<1>5. CASE RetrySlot(w) BY <1>0, <1>5, CalmStep DEF RetrySlot, Registered
<1>6. CASE NextSlot(w) BY <1>0, <1>6, CalmStep DEF NextSlot, Registered
<1>7. CASE EndWorker(w) BY <1>0, <1>7, CalmStep DEF EndWorker, Registered
<1>8. CASE Spawn(w)
  <2>1. /\ at[w] = "unborn" /\ UNCHANGED <<box, page, used, made, dir, held, unheard>>
        /\ at' = [at EXCEPT ![w] = "start"]
    BY <1>8 DEF Spawn
  <2> QED BY <1>0, <2>1, CalmStep DEF Registered
<1> QED BY <1>1, <1>2, <1>3, <1>4, <1>5, <1>6, <1>7, <1>8

\* The steps of the site, and those that leave the attempts alone.
LEMMA CalmSite ==
  ASSUME TypeOK, NEW w \in Workers, SiteStep(w)
  PROVE  Calm
<1> USE DEF Show, browser, attempt
<1>1. CASE Deliver(w)
  <2>1. UNCHANGED <<at, box, page, used, made, dir, held, unheard>> BY <1>1 DEF Deliver
  <2> QED BY <2>1 DEF Calm, CalmAt, Registered
<1>2. CASE SiteSignsIn(w)
  <2>1. /\ at[w] = "final" /\ UNCHANGED <<at, box, used, dir, held, unheard>>
        /\ made' = made \cup {box[w]}
        /\ \A v \in Workers \ {w} : page'[v] = page[v]
    BY <1>2, RunnerTypes DEF SiteSignsIn, Take
  <2>2. Registered(w)' => box'[w] \in made' \cup {None} BY <2>1
  <2> QED BY <2>1, <2>2, CalmStep
<1>3. CASE GateReturns(w)
  <2>1. UNCHANGED <<at, box, page, used, made, dir, held, unheard>>
    BY <1>3 DEF GateReturns, Ungate
  <2> QED BY <2>1 DEF Calm, CalmAt, Registered
<1> QED BY <1>1, <1>2, <1>3 DEF SiteStep

LEMMA CalmIdle ==
  ASSUME UNCHANGED <<at, box, page, used, made, dir, held, unheard>>
  PROVE  Calm
BY DEF Calm, CalmAt, Registered

-----------------------------------------------------------------------------
(* Steps that leave mailboxes, credentials and records alone.              *)

\* The re-probe and the bridge change nothing the client's invariant is about.
LEMMA OutsideIInv ==
  ASSUME IInv, UNCHANGED <<at, attempt, browser, used, stop, files, made, clientVars>>,
         dir' \in [Boxes -> Directories], \A b \in Boxes : dir'[b] # "none" => dir[b] # "none",
         held' \subseteq Boxes, unheard' \subseteq Boxes, faults' \in faults..MaxFaults
  PROVE  IInv'
<1> USE DEF attempt, browser, files, clientVars, counters
<1>1. faults' \in 0..MaxFaults /\ faults <= faults' /\ faults' \in Nat
  BY SignupConstants DEF IInv, TypeOK, SignupTypeOK
<1>2. SignupTypeOK' BY <1>1 DEF IInv, TypeOK, SignupTypeOK
<1>3. TypeOK' BY <1>2 DEF IInv, TypeOK
<1>4. \A w \in Workers : HasBox(w)' /\ MayChange(w)' BY DEF IInv, HasBox, MayChange
<1>5. WritesLost'
  <2>1. Loses BY DEF Loses, Unnoted, Unsaved
  <2> QED BY <1>1, <2>1, LosesNothing
<1>6. SlotsHeld'
  <2>1. UNCHANGED <<Holding, Gone>> BY DEF Holding, Gone
  <2>2. faults' = 0 => faults = 0 BY <1>1, SignupConstants DEF IInv, TypeOK, SignupTypeOK
  <2> QED BY <2>1, <2>2 DEF IInv, SlotsHeld
<1>7. TargetAhead' /\ Summed' BY DEF IInv, TargetAhead, Summed, Holding
<1> QED BY <1>3, <1>4, <1>5, <1>6, <1>7 DEF IInv

\* Those accounts without a record are not more than before.
LEMMA UnrecordedKept ==
  ASSUME RunnerIInv, IInv', Unrecorded' \subseteq Unrecorded, faults <= faults',
         main = "dead" => main' = "dead"
  PROVE  (Cardinality(Unrecorded) <= faults + Killed)'
<1>1. Unrecorded \in SUBSET Boxes /\ Unrecorded' \in SUBSET Unrecorded
  BY RunnerTypes DEF RunnerIInv, IInv, Unrecorded
<1>2. /\ Cardinality(Unrecorded') <= Cardinality(Unrecorded)
      /\ Cardinality(Unrecorded') \in Nat /\ Cardinality(Unrecorded) \in Nat
  BY <1>1, BoxSets
<1>3. faults \in Nat /\ faults' \in Nat
  BY SignupConstants DEF RunnerIInv, IInv, TypeOK, SignupTypeOK
<1>4. Cardinality(Workers) \in Nat BY SignupConstants, FS_CardinalityType
<1>5. Killed \in Nat /\ Killed' \in Nat /\ Killed <= Killed' BY <1>4 DEF Killed
<1>6. Cardinality(Unrecorded) <= faults + Killed BY DEF RunnerIInv
<1> HIDE DEF Killed, Unrecorded
<1>7. Cardinality(Unrecorded') <= faults' + Killed' BY <1>2, <1>3, <1>5, <1>6
<1> QED BY <1>7

\* The runner may go on, whatever calm step the client takes.
LEMMA CalmKeeps ==
  ASSUME RunnerIInv, IInv', Calm, faults <= faults',
         UNCHANGED <<records, probing, ckpt>>,
         main' = "dead" <=> main = "dead",
         todo' \subseteq {b \in Boxes : dir[b] \in {"pending", "cooldown"}},
         counted' \in {counted, Successful},
         runner' \in {"watch", "reprobe", "last reprobe", "result", "completed", "failed", "gone"},
         runner' \in {"last reprobe", "result", "completed", "failed"} => Exited',
         runner' \in {"watch", "result", "completed", "failed"} => todo' = {} /\ probing = None,
         runner' \in {"completed", "failed"} => counted' = Successful
  PROVE  RunnerIInv'
<1>1. /\ UNCHANGED <<used, dir, held, unheard>> /\ made \subseteq made'
      /\ \A w \in Workers : CalmAt(w)
  BY DEF Calm
<1>2. Successful' = Successful BY DEF Successful
<1>3. RunnerTypeOK'
  <2>1. Successful \subseteq Boxes BY DEF RunnerIInv, RunnerTypeOK, Successful, TypeOK
  <2> QED BY <2>1 DEF RunnerIInv, RunnerTypeOK, IInv
<1>4. \A w \in Workers : at'[w] \in {"push", "won"} => box'[w] # None
  <2>1. \A w \in Workers : HasBox(w)' BY DEF IInv
  <2>2. \A s \in {"push", "won"} : s \in (Stages \cup Outcomes) \ Boxless
    BY DEF Stages, Outcomes, Boxless
  <2>3. \A b \in Boxes : b # None BY RunnerTypes DEF RunnerIInv, IInv
  <2> QED BY <2>1, <2>2, <2>3 DEF HasBox
<1>5. ASSUME NEW w \in Workers PROVE OwnBox(w)'
  <2>1. CASE box'[w] = None BY <2>1 DEF OwnBox
  <2>2. CASE box'[w] # None
    <3>1. CalmAt(w) /\ OwnBox(w) BY <1>1 DEF RunnerIInv
    <3>2. box'[w] = box[w] /\ box[w] # None BY <2>2, <3>1 DEF CalmAt
    <3>3. Registered(w)' => box[w] \in made' BY <1>1, <3>1, <3>2 DEF CalmAt, OwnBox
    <3>4. \A v \in Workers \ {w} : box'[v] # box[w]
      BY <1>1, <3>1, <3>2 DEF CalmAt, OwnBox
    <3>5. /\ dir[box[w]] = IF at'[w] \in {"push", "won"} THEN "verified" ELSE "none"
          /\ at'[w] = "push" => Server /\ box[w] \notin held
          /\ at'[w] = "won" => (box[w] \in held <=> Server) /\ box[w] \notin unheard
      BY <3>1, <3>2 DEF CalmAt, OwnBox
    <3>6. box[w] <= used /\ box[w] # probing BY <3>1, <3>2 DEF OwnBox
    <3> QED BY <1>1, <3>2, <3>3, <3>4, <3>5, <3>6 DEF OwnBox
  <2> QED BY <2>1, <2>2
<1>6. Placed' BY <1>1 DEF RunnerIInv, Placed
<1>7. Reprobing' BY <1>1 DEF RunnerIInv, Reprobing
<1>8. Ended'
  <2>1. main = "dead" => \A w \in Workers : at'[w] \in {"off", "dead"}
    BY <1>1 DEF RunnerIInv, Ended, CalmAt
  <2> QED BY <2>1 DEF Ended
<1>9. RecordsReal' BY <1>1, <1>2 DEF RunnerIInv, RecordsReal
<1>10. InFlight' = InFlight
  <2>1. ASSUME NEW w \in Workers PROVE at'[w] = "won" <=> at[w] = "won"
    BY <1>1 DEF CalmAt
  <2>2. ASSUME NEW w \in Workers, at[w] = "won" PROVE box'[w] = box[w]
    BY <1>1, <1>4, <2>1, <2>2 DEF CalmAt
  <2> QED BY <2>1, <2>2 DEF InFlight
<1>11. Unrecorded' \subseteq Unrecorded BY <1>1, <1>2, <1>10 DEF Unrecorded
<1>12. (Cardinality(Unrecorded) <= faults + Killed)' BY <1>11, UnrecordedKept
<1> QED BY <1>3, <1>5, <1>6, <1>7, <1>8, <1>9, <1>12 DEF RunnerIInv

\* The parts of the invariant that speak of the runner and of re-probes.
RunnerKept ==
  UNCHANGED <<runner, todo, probing, ckpt, counted>>

\* A step of the client's that is calm, seen by the runner.
LEMMA ClientCalmKeeps ==
  ASSUME RunnerIInv, IInv', Calm, faults <= faults', RunnerKept, records' = records,
         main' = "dead" <=> main = "dead", Exited => Exited'
  PROVE  RunnerIInv'
<1>1. /\ todo \subseteq {b \in Boxes : dir[b] \in {"pending", "cooldown"}}
      /\ runner \in {"watch", "reprobe", "last reprobe", "result", "completed", "failed", "gone"}
      /\ runner \in {"last reprobe", "result", "completed", "failed"} => Exited'
      /\ runner \in {"watch", "result", "completed", "failed"} => todo = {} /\ probing = None
      /\ runner \in {"completed", "failed"} => counted = Successful
  BY DEF RunnerIInv, RunnerTypeOK, Reprobing, Ended, RecordsReal
<1> QED BY <1>1, CalmKeeps DEF RunnerKept

-----------------------------------------------------------------------------
(* The steps on mailboxes, credentials and records.                        *)

\* The other parts of the invariant, when the accounts of the worker change.
LEMMA NewMailboxKeeps ==
  ASSUME RunnerIInv, IInv', NEW w \in Workers, NewMailbox(w), RunnerKept, UNCHANGED clientVars
  PROVE  RunnerIInv'
<1>1. /\ at[w] = "mailbox" /\ at' = [at EXCEPT ![w] = "email"] /\ used < MaxBoxes
      /\ used' = used + 1 /\ box' = [box EXCEPT ![w] = used + 1]
      /\ UNCHANGED <<page, dir, held, unheard, made, faults, records, main>>
  BY DEF NewMailbox, Goto, browser, clientVars
<1>2. /\ at \in [Workers -> Stages \cup Outcomes \cup LoopSteps]
      /\ box \in [Workers -> {None} \cup Boxes] /\ dir \in [Boxes -> Directories]
      /\ used \in 0..MaxBoxes /\ MaxBoxes \in Nat /\ made \subseteq Boxes
      /\ \A b \in Boxes : b \in Nat /\ b # None
  BY RunnerTypes DEF RunnerIInv, IInv
<1>3. /\ at'[w] = "email" /\ box'[w] = used + 1
      /\ \A v \in Workers \ {w} : at'[v] = at[v] /\ box'[v] = box[v]
  BY <1>1, <1>2
<1>4. used + 1 \in Boxes /\ dir[used + 1] = "none" /\ used + 1 # probing
  <2>1. used + 1 \in Boxes /\ ~(used + 1 <= used) BY <1>1, <1>2 DEF Boxes
  <2>2. dir[used + 1] = "none" BY <2>1 DEF RunnerIInv, Placed
  <2>3. probing = used + 1 => dir[probing] = "verified"
    BY <1>2, <2>1 DEF RunnerIInv, Reprobing
  <2> QED BY <2>1, <2>2, <2>3
<1>5. UNCHANGED <<Successful, InFlight>>
  <2>1. Successful' = Successful BY <1>1 DEF RunnerKept, Successful
  <2>2. \A v \in Workers : at'[v] = "won" <=> at[v] = "won" BY <1>1, <1>3
  <2>3. \A v \in Workers : at[v] = "won" => box'[v] = box[v] BY <1>1, <1>3
  <2>4. InFlight' = InFlight BY <2>2, <2>3 DEF InFlight
  <2> QED BY <2>1, <2>4
<1>6. RunnerTypeOK' BY DEF RunnerKept, RunnerIInv, RunnerTypeOK, IInv
<1>7. ASSUME NEW v \in Workers PROVE OwnBox(v)'
  <2>1. CASE v = w
    <3>1. \A u \in Workers \ {w} : box'[u] # used + 1
      <4>1. ASSUME NEW u \in Workers \ {w}, box[u] = used + 1 PROVE FALSE
        <5>1. box[u] <= used BY <1>2, <1>4, <4>1 DEF RunnerIInv, OwnBox
        <5> QED BY <1>2, <4>1, <5>1
      <4> QED BY <1>3, <4>1
    <3>2. ~Registered(w)' BY <1>3 DEF Registered
    <3>3. used + 1 <= used' BY <1>1, <1>2
    <3> QED BY <1>1, <1>3, <1>4, <2>1, <3>1, <3>2, <3>3 DEF OwnBox, RunnerKept
  <2>2. CASE v # w
    <3>1. at'[v] = at[v] /\ box'[v] = box[v] /\ (Registered(v)' <=> Registered(v))
      BY <1>1, <1>3, <2>2 DEF Registered
    <3>2. box[v] # None => box[v] <= used /\ OwnBox(v) BY DEF RunnerIInv, OwnBox
    <3>3. box[v] # None => box[v] # used + 1 /\ box[v] <= used' BY <1>1, <1>2, <3>2
    <3> QED BY <1>1, <1>3, <3>1, <3>2, <3>3 DEF OwnBox, RunnerKept
  <2> QED BY <2>1, <2>2
<1>8. Placed' BY <1>1, <1>2 DEF RunnerIInv, Placed
<1>9. Reprobing' BY <1>1 DEF RunnerIInv, Reprobing, RunnerKept
<1>10. Ended' BY <1>1, <1>3 DEF RunnerIInv, Ended, Exited, RunnerKept
<1>11. RecordsReal' BY <1>1, <1>5 DEF RunnerIInv, RecordsReal, RunnerKept
<1>12. Unrecorded' \subseteq Unrecorded /\ faults <= faults'
  BY <1>1, <1>5, RunnerTypes DEF Unrecorded, RunnerIInv, IInv
<1>13. (Cardinality(Unrecorded) <= faults + Killed)' BY <1>1, <1>12, UnrecordedKept
<1> QED BY <1>6, <1>7, <1>8, <1>9, <1>10, <1>11, <1>13 DEF RunnerIInv

\* One account more has no record; that costs a fault.
LEMMA UnrecordedOne ==
  ASSUME RunnerIInv, IInv', NEW b \in Boxes, Unrecorded' \subseteq Unrecorded \cup {b},
         faults' = faults + 1, main' = main
  PROVE  (Cardinality(Unrecorded) <= faults + Killed)'
<1>1. Unrecorded \in SUBSET Boxes /\ Unrecorded' \in SUBSET (Unrecorded \cup {b})
  BY RunnerTypes DEF RunnerIInv, IInv, Unrecorded
<1>2. Cardinality(Unrecorded') <= Cardinality(Unrecorded) + 1 BY <1>1, LosesOne
<1>3. Unrecorded' \in SUBSET Boxes BY <1>1
<1>4. Cardinality(Unrecorded') \in Nat /\ Cardinality(Unrecorded) \in Nat
  BY <1>1, <1>3, BoxSets
<1>5. faults \in Nat BY SignupConstants DEF RunnerIInv, IInv, TypeOK, SignupTypeOK
<1>6. Killed \in Nat /\ Killed' = Killed
  BY SignupConstants, FS_CardinalityType DEF Killed
<1>7. Cardinality(Unrecorded) <= faults + Killed BY DEF RunnerIInv
<1> HIDE DEF Killed, Unrecorded
<1>8. Cardinality(Unrecorded') <= faults' + Killed' BY <1>2, <1>4, <1>5, <1>6, <1>7
<1> QED BY <1>8

\* A worker has a mailbox of its own when it places, pushes and records.
LEMMA Owner ==
  ASSUME RunnerIInv, NEW w \in Workers, at[w] \in {"place", "push", "won"}
  PROVE  /\ box[w] \in Boxes /\ box[w] # None /\ box[w] <= used /\ box[w] # probing
         /\ \A v \in Workers \ {w} : box[v] # box[w]
         /\ dir[box[w]] = IF at[w] \in {"push", "won"} THEN "verified" ELSE "none"
         /\ box[w] \in made /\ box[w] \notin unheard
         /\ at[w] # "won" => box[w] \notin held
         /\ at[w] = "push" => Server
         /\ at[w] = "won" => (box[w] \in held <=> Server)
<1>1. box[w] \in Boxes
  <2>1. at[w] \in (Stages \cup Outcomes) \ Boxless BY DEF Stages, Outcomes, Boxless
  <2> QED BY <2>1 DEF RunnerIInv, IInv, HasBox
<1>2. box[w] # None /\ OwnBox(w) BY <1>1, RunnerTypes DEF RunnerIInv, IInv
<1>3. dir[box[w]] = IF at[w] \in {"push", "won"} THEN "verified" ELSE "none"
  BY <1>2 DEF OwnBox
<1>4. at[w] = "place" => box[w] \notin held BY <1>3 DEF RunnerIInv, Placed
<1>5. at[w] # "won" => box[w] \notin held BY <1>2, <1>4 DEF OwnBox
<1>6. box[w] \notin unheard
  BY <1>2, <1>5 DEF OwnBox, RunnerIInv, RecordsReal
<1>7. box[w] \in made
  <2>1. at[w] # "won" => Registered(w) BY DEF Registered
  <2>2. at[w] = "won" => dir[box[w]] # "none" BY <1>3
  <2> QED BY <1>1, <1>2, <2>1, <2>2 DEF OwnBox, RunnerIInv, Placed
<1> QED BY <1>1, <1>2, <1>3, <1>5, <1>6, <1>7 DEF OwnBox

\* The invariants of the other workers' mailboxes.
LEMMA OthersOwn ==
  ASSUME RunnerIInv, NEW w \in Workers, NEW b \in Boxes,
         \A v \in Workers \ {w} : /\ at'[v] = at[v] /\ page'[v] = page[v] /\ box'[v] = box[v]
                                  /\ box[v] # b,
         box'[w] \in {box[w], None}, box[w] = b,
         UNCHANGED <<used, made, probing>>,
         \A c \in Boxes \ {b} : dir'[c] = dir[c],
         held' \ {b} = held \ {b}, unheard' \ {b} = unheard \ {b}
  PROVE  \A v \in Workers \ {w} : OwnBox(v)'
<1> SUFFICES ASSUME NEW v \in Workers \ {w}, box[v] # None PROVE OwnBox(v)'
  BY DEF OwnBox
<1>1. box[v] \in Boxes BY RunnerTypes DEF RunnerIInv, IInv
<1>2. Registered(v)' <=> Registered(v) BY DEF Registered
<1>3. \A u \in Workers \ {v} : box'[u] # box[v]
  BY DEF RunnerIInv, OwnBox
<1> QED BY <1>1, <1>2, <1>3 DEF RunnerIInv, OwnBox

LEMMA PlaceKeeps ==
  ASSUME RunnerIInv, IInv', NEW w \in Workers, Place(w), RunnerKept, UNCHANGED clientVars
  PROVE  RunnerIInv'
<1> DEFINE b == box[w]
<1>1. PICK d \in Directories :
        /\ dir' = [dir EXCEPT ![b] = d]
        /\ IF d # "verified" THEN Leave(w, "failed")
           ELSE IF Server THEN Goto(w, "push") /\ UNCHANGED <<attempt, page>>
           ELSE Leave(w, "won")
  BY DEF Place
<1>2. /\ at[w] = "place"
      /\ UNCHANGED <<used, made, held, unheard, faults, records, main>>
  BY DEF Place, clientVars
<1>3. /\ b \in Boxes /\ b # None /\ b <= used /\ b # probing /\ dir[b] = "none" /\ b \in made
      /\ b \notin unheard /\ b \notin held /\ \A v \in Workers \ {w} : box[v] # b
  BY <1>2, Owner
<1>4. /\ at \in [Workers -> Stages \cup Outcomes \cup LoopSteps]
      /\ box \in [Workers -> {None} \cup Boxes] /\ page \in [Workers -> Pages]
      /\ dir \in [Boxes -> Directories] /\ held \subseteq Boxes
  BY RunnerTypes DEF RunnerIInv, IInv
<1>5. /\ \A v \in Workers \ {w} : at'[v] = at[v] /\ page'[v] = page[v] /\ box'[v] = box[v]
      /\ \/ d # "verified" /\ box'[w] = None /\ at'[w] = "failed"
         \/ d = "verified" /\ box'[w] = b /\ at'[w] = "push" /\ Server
         \/ d = "verified" /\ box'[w] = b /\ at'[w] = "won" /\ ~Server
  <2>1. CASE d # "verified" BY <1>1, <1>4, <2>1 DEF Leave, Goto
  <2>2. CASE d = "verified" /\ Server BY <1>1, <1>4, <2>2 DEF Goto, attempt
  <2>3. CASE d = "verified" /\ ~Server BY <1>1, <1>4, <2>3 DEF Leave, Goto
  <2> QED BY <2>1, <2>2, <2>3
<1>6. dir'[b] = d /\ \A c \in Boxes \ {b} : dir'[c] = dir[c] BY <1>1, <1>3, <1>4
<1>7. probing' = probing BY DEF RunnerKept
<1>8. \A v \in Workers \ {w} : OwnBox(v)'
  BY <1>2, <1>3, <1>5, <1>6, <1>7, OthersOwn
<1>9. OwnBox(w)'
  BY <1>2, <1>3, <1>5, <1>6, <1>7 DEF OwnBox
<1>10. Placed' BY <1>2, <1>3, <1>4, <1>6 DEF RunnerIInv, Placed
<1>11. RunnerTypeOK' BY DEF RunnerKept, RunnerIInv, RunnerTypeOK, IInv
<1>12. Reprobing'
  <2>1. b \notin todo BY <1>3 DEF RunnerIInv, Reprobing
  <2>2. todo \subseteq Boxes /\ probing \in {None} \cup Boxes BY DEF RunnerIInv, RunnerTypeOK
  <2> QED BY <1>3, <1>6, <2>1, <2>2 DEF RunnerIInv, Reprobing, RunnerKept
<1>13. Ended'
  <2>1. main # "dead" BY <1>2 DEF RunnerIInv, Ended
  <2> QED BY <1>2, <2>1 DEF RunnerIInv, Ended, Exited, RunnerKept
<1>14. Successful' = Successful BY <1>2 DEF RunnerKept, Successful
<1>15. RecordsReal' BY <1>2, <1>14 DEF RunnerIInv, RecordsReal, RunnerKept
<1>16. InFlight \subseteq InFlight'
  <2>1. \A v \in Workers : at[v] = "won" => v # w BY <1>2
  <2> QED BY <1>5, <2>1 DEF InFlight
<1>17. Unrecorded' \subseteq Unrecorded /\ faults <= faults'
  BY <1>2, <1>14, <1>16, RunnerTypes DEF Unrecorded, RunnerIInv, IInv
<1>18. (Cardinality(Unrecorded) <= faults + Killed)' BY <1>2, <1>17, UnrecordedKept
<1> QED BY <1>8, <1>9, <1>10, <1>11, <1>12, <1>13, <1>15, <1>18 DEF RunnerIInv

LEMMA PushKeeps ==
  ASSUME RunnerIInv, IInv', NEW w \in Workers, Push(w), RunnerKept, UNCHANGED clientVars
  PROVE  RunnerIInv'
<1> PICK b \in Boxes : b = box[w]
  <2>1. at[w] = "push" BY DEF Push
  <2> QED BY <2>1, Owner
<1>1. at[w] = "push" /\ UNCHANGED <<used, made, dir, records, main>>
  BY DEF Push, clientVars
<1>2. /\ b # None /\ b <= used /\ b # probing /\ dir[b] = "verified" /\ b \in made
      /\ b \notin unheard /\ b \notin held /\ \A v \in Workers \ {w} : box[v] # b
      /\ Server
  BY <1>1, Owner
<1>3. /\ at \in [Workers -> Stages \cup Outcomes \cup LoopSteps]
      /\ box \in [Workers -> {None} \cup Boxes] /\ page \in [Workers -> Pages]
      /\ faults \in Nat
  BY RunnerTypes DEF RunnerIInv, IInv
<1>4. \/ /\ held' = held \cup {b} /\ Leave(w, "won") /\ unheard' = unheard /\ faults' = faults
      \/ /\ Leave(w, "failed") /\ held' = held /\ unheard' = unheard /\ faults' = faults
      \/ /\ held' = held \cup {b} /\ Leave(w, "failed") /\ unheard' = unheard \cup {b}
         /\ faults' = faults + 1
  BY DEF Push, Created, Fault
<1>5. /\ \A v \in Workers \ {w} : at'[v] = at[v] /\ page'[v] = page[v] /\ box'[v] = box[v]
      /\ \/ box'[w] = b /\ at'[w] = "won" /\ held' = held \cup {b} /\ unheard' = unheard
         \/ box'[w] = None /\ at'[w] = "failed"
  BY <1>3, <1>4 DEF Leave, Goto
<1>6. /\ held \subseteq held' /\ held' \subseteq held \cup {b} /\ unheard' \subseteq held'
      /\ \A c \in Boxes \ {b} : (c \in held' <=> c \in held) /\ (c \in unheard' <=> c \in unheard)
  BY <1>4 DEF RunnerIInv, RecordsReal
<1>7. probing' = probing BY DEF RunnerKept
<1>8. held' \ {b} = held \ {b} /\ unheard' \ {b} = unheard \ {b} BY <1>4
<1>9. \A v \in Workers \ {w} : OwnBox(v)' BY <1>1, <1>2, <1>5, <1>7, <1>8, OthersOwn
<1>10. OwnBox(w)' BY <1>1, <1>2, <1>5, <1>7 DEF OwnBox
<1>11. Placed' BY <1>1, <1>2, <1>6 DEF RunnerIInv, Placed
<1>12. RunnerTypeOK' BY DEF RunnerKept, RunnerIInv, RunnerTypeOK, IInv
<1>13. Reprobing' BY <1>1 DEF RunnerIInv, Reprobing, RunnerKept
<1>14. Ended'
  <2>1. main # "dead" BY <1>1 DEF RunnerIInv, Ended
  <2> QED BY <1>1, <2>1 DEF RunnerIInv, Ended, Exited, RunnerKept
<1>15. Successful' = Successful BY <1>1 DEF RunnerKept, Successful
<1>16. RecordsReal'
  <2>1. Successful \subseteq held' \ unheard'
    BY <1>2, <1>4 DEF RunnerIInv, RecordsReal
  <2> QED BY <1>6, <1>15, <2>1 DEF RunnerIInv, RecordsReal, RunnerKept
<1>17. InFlight' = IF at'[w] = "won" THEN InFlight \cup {b} ELSE InFlight
  <2>1. \A v \in Workers : at[v] = "won" => v # w BY <1>1
  <2> QED BY <1>5, <2>1 DEF InFlight
<1>18. CASE at'[w] = "won" \/ held' = held
  <2>1. Unrecorded' \subseteq Unrecorded BY <1>5, <1>6, <1>15, <1>17, <1>18 DEF Unrecorded
  <2>2. faults <= faults' BY <1>3, <1>4
  <2>3. (Cardinality(Unrecorded) <= faults + Killed)' BY <1>1, <2>1, <2>2, UnrecordedKept
  <2> QED BY <1>9, <1>10, <1>11, <1>12, <1>13, <1>14, <1>16, <2>3 DEF RunnerIInv
<1>19. CASE at'[w] # "won" /\ held' # held
  <2>1. Unrecorded' \subseteq Unrecorded \cup {b} BY <1>6, <1>15, <1>17, <1>19 DEF Unrecorded
  <2>2. faults' = faults + 1
    <3>1. Leave(w, "won") => at'[w] = "won" BY <1>3 DEF Leave, Goto
    <3> QED BY <1>4, <1>19, <3>1
  <2>3. (Cardinality(Unrecorded) <= faults + Killed)' BY <1>1, <2>1, <2>2, UnrecordedOne
  <2> QED BY <1>9, <1>10, <1>11, <1>12, <1>13, <1>14, <1>16, <2>3 DEF RunnerIInv
<1> QED BY <1>18, <1>19

LEMMA RecordKeeps ==
  ASSUME RunnerIInv, IInv', NEW w \in Workers, Record(w), RunnerKept
  PROVE  RunnerIInv'
<1> PICK b \in Boxes : b = box[w]
  <2>1. at[w] = "won" BY DEF Record
  <2> QED BY <2>1, Owner
<1>1. /\ at[w] = "won" /\ box' = [box EXCEPT ![w] = None]
      /\ UNCHANGED <<page, used, made, dir, held, unheard, main>>
  BY DEF Record, browser
<1>2. /\ b # None /\ b <= used /\ b # probing /\ dir[b] = "verified" /\ b \in made
      /\ b \notin unheard /\ (b \in held <=> Server) /\ \A v \in Workers \ {w} : box[v] # b
  BY <1>1, Owner
<1>3. /\ at \in [Workers -> Stages \cup Outcomes \cup LoopSteps]
      /\ box \in [Workers -> {None} \cup Boxes] /\ page \in [Workers -> Pages]
      /\ faults \in Nat
  BY RunnerTypes DEF RunnerIInv, IInv
<1>4. \/ /\ at' = [at EXCEPT ![w] = "count"] /\ faults' = faults
         /\ records' = IF Server THEN records \cup {b} ELSE records
      \/ /\ at' = [at EXCEPT ![w] = "restart"] /\ faults' = faults + 1 /\ records' = records
         /\ Server
  BY DEF Record, Goto, Fault
<1>5. /\ \A v \in Workers \ {w} : at'[v] = at[v] /\ page'[v] = page[v] /\ box'[v] = box[v]
      /\ box'[w] = None /\ at'[w] \in {"count", "restart"}
  BY <1>1, <1>3, <1>4
<1>6. probing' = probing BY DEF RunnerKept
<1>7. \A v \in Workers \ {w} : OwnBox(v)'
  BY <1>1, <1>2, <1>5, <1>6, OthersOwn
<1>8. OwnBox(w)' BY <1>5 DEF OwnBox
<1>9. Placed' BY <1>1 DEF RunnerIInv, Placed
<1>10. RunnerTypeOK' BY DEF RunnerKept, RunnerIInv, RunnerTypeOK, IInv
<1>11. Reprobing' BY <1>1 DEF RunnerIInv, Reprobing, RunnerKept
<1>12. main # "dead" /\ ~Exited
  <2>1. main # "dead" BY <1>1 DEF RunnerIInv, Ended
  <2>2. main # "done" BY <1>1 DEF RunnerIInv, IInv, Summed
  <2> QED BY <2>1, <2>2 DEF Exited
<1>13. Ended' BY <1>1, <1>12 DEF RunnerIInv, Ended, Exited, RunnerKept
<1>14. /\ Successful \subseteq Successful' /\ Successful' \subseteq Successful \cup {b}
       /\ Successful' # Successful => Server
  BY <1>4 DEF Successful, RunnerKept
<1>15. RecordsReal'
  <2>1. Successful' \subseteq held \ unheard
    BY <1>2, <1>14 DEF RunnerIInv, RecordsReal
  <2>2. runner \notin {"completed", "failed"} BY <1>12 DEF RunnerIInv, Ended
  <2> QED BY <1>1, <1>14, <2>1, <2>2 DEF RunnerIInv, RecordsReal, RunnerKept
<1>16. InFlight \subseteq InFlight' \cup {b}
  <2>1. \A v \in Workers \ {w} : at[v] = "won" => at'[v] = "won" /\ box'[v] = box[v] BY <1>5
  <2> QED BY <2>1 DEF InFlight
<1>17. CASE faults' = faults
  <2>1. b \in held => b \in Successful'
    <3>1. b \in held => records' = records \cup {b} BY <1>2, <1>3, <1>4, <1>17
    <3> QED BY <3>1 DEF Successful
  <2>2. Unrecorded' \subseteq Unrecorded BY <1>1, <1>14, <1>16, <2>1 DEF Unrecorded
  <2>3. faults <= faults' BY <1>3, <1>17
  <2>4. (Cardinality(Unrecorded) <= faults + Killed)' BY <1>1, <2>2, <2>3, UnrecordedKept
  <2> QED BY <1>7, <1>8, <1>9, <1>10, <1>11, <1>13, <1>15, <2>4 DEF RunnerIInv
<1>18. CASE faults' = faults + 1
  <2>1. Unrecorded' \subseteq Unrecorded \cup {b} BY <1>1, <1>14, <1>16 DEF Unrecorded
  <2>2. (Cardinality(Unrecorded) <= faults + Killed)' BY <1>1, <1>18, <2>1, UnrecordedOne
  <2> QED BY <1>7, <1>8, <1>9, <1>10, <1>11, <1>13, <1>15, <2>2 DEF RunnerIInv
<1> QED BY <1>4, <1>17, <1>18

\* No more accounts are between push and record than there are workers.
LEMMA InFlightBound ==
  ASSUME RunnerIInv
  PROVE  Cardinality(InFlight) <= Cardinality(Workers)
<1> DEFINE W == {w \in Workers : at[w] = "won" /\ box[w] \in Boxes}
           f == [w \in W |-> box[w]]
<1>1. IsFiniteSet(W) /\ Cardinality(W) <= Cardinality(Workers) BY WorkerSets
<1>2. f \in Surjection(W, InFlight)
  <2>1. f \in [W -> InFlight] BY DEF InFlight
  <2>2. \A b \in InFlight : \E w \in W : f[w] = b BY DEF InFlight
  <2> QED BY <2>1, <2>2 DEF Surjection
<1> HIDE DEF W, f
<1>3. IsFiniteSet(InFlight) /\ Cardinality(InFlight) <= Cardinality(W)
  BY <1>1, <1>2, FS_Surjection
<1>4. /\ Cardinality(InFlight) \in Nat /\ Cardinality(W) \in Nat
      /\ Cardinality(Workers) \in Nat
  BY <1>1, <1>3, SignupConstants, FS_CardinalityType
<1> QED BY <1>1, <1>3, <1>4

\* The client is killed.
LEMMA KilledKeeps ==
  ASSUME RunnerIInv, IInv', Interrupt, main # "join", UNCHANGED <<runner, todo, probing, ckpt>>,
         counted' \in {counted, Successful}, runner \notin {"completed", "failed"}
  PROVE  RunnerIInv'
<1>1. /\ main \notin {"done", "dead"} /\ main' = "dead"
      /\ at' = [w \in Workers |-> IF at[w] = "off" THEN "off" ELSE "dead"]
      /\ box' = [w \in Workers |-> None]
      /\ UNCHANGED <<used, made, dir, held, unheard, faults, records>>
  BY DEF Interrupt, NoAttempts
<1>2. Successful' = Successful BY <1>1 DEF Successful
<1>3. RunnerTypeOK'
  <2>1. Successful \subseteq Boxes BY DEF RunnerIInv, RunnerTypeOK, Successful, TypeOK
  <2> QED BY <2>1 DEF RunnerIInv, RunnerTypeOK, IInv
<1>4. \A w \in Workers : OwnBox(w)' BY <1>1 DEF OwnBox
<1>5. Placed' BY <1>1 DEF RunnerIInv, Placed
<1>6. Reprobing' BY <1>1 DEF RunnerIInv, Reprobing
<1>7. Ended' BY <1>1 DEF Ended, Exited
<1>8. RecordsReal' BY <1>1, <1>2 DEF RunnerIInv, RecordsReal
<1>9. InFlight' = {} BY <1>1 DEF InFlight
<1>10. Unrecorded' \subseteq Unrecorded \cup InFlight BY <1>1, <1>2, <1>9 DEF Unrecorded
<1>11. Unrecorded \in SUBSET Boxes /\ InFlight \in SUBSET Boxes
  BY RunnerTypes DEF RunnerIInv, IInv, Unrecorded, InFlight
<1>12. Cardinality(Unrecorded \cup InFlight) <= Cardinality(Unrecorded) + Cardinality(InFlight)
  <2>1. /\ IsFiniteSet(Unrecorded) /\ IsFiniteSet(InFlight)
        /\ (Unrecorded \cap InFlight) \in SUBSET Boxes
    BY <1>11, BoxSets
  <2>2. Cardinality(Unrecorded \cup InFlight) = Cardinality(Unrecorded) + Cardinality(InFlight)
                                                 - Cardinality(Unrecorded \cap InFlight)
    BY <2>1, FS_Union
  <2>3. /\ Cardinality(Unrecorded \cap InFlight) \in Nat
        /\ Cardinality(Unrecorded) \in Nat /\ Cardinality(InFlight) \in Nat
    BY <1>11, <2>1, BoxSets
  <2> QED BY <2>2, <2>3
<1>13. (Unrecorded \cup InFlight) \in SUBSET Boxes BY <1>11
<1>14. Cardinality(Unrecorded') <= Cardinality(Unrecorded \cup InFlight)
  BY <1>10, <1>13, BoxSets
<1>15. Unrecorded' \in SUBSET Boxes BY <1>10, <1>11
<1>16. /\ Cardinality(Unrecorded') \in Nat /\ Cardinality(Unrecorded \cup InFlight) \in Nat
       /\ Cardinality(Unrecorded) \in Nat /\ Cardinality(InFlight) \in Nat
  BY <1>11, <1>13, <1>15, BoxSets
<1>17. Cardinality(Unrecorded) <= faults + 0 BY <1>1 DEF RunnerIInv, Killed
<1>18. Killed' = Cardinality(Workers) BY <1>1 DEF Killed
<1>19. faults \in Nat /\ Cardinality(Workers) \in Nat
  BY SignupConstants, FS_CardinalityType DEF RunnerIInv, IInv, TypeOK, SignupTypeOK
<1>20. Cardinality(Unrecorded') <= faults' + Killed'
  <2> HIDE DEF Unrecorded, InFlight, Killed
  <2> QED BY <1>1, <1>12, <1>14, <1>16, <1>17, <1>18, <1>19, InFlightBound
<1> QED BY <1>3, <1>4, <1>5, <1>6, <1>7, <1>8, <1>20 DEF RunnerIInv

-----------------------------------------------------------------------------
(* Every step.                                                             *)

\* The client's steps, of its workers, the site, and its main thread.
LEMMA ClientStepKeeps ==
  ASSUME RunnerIInv, ClientStep, RunnerKept
  PROVE  RunnerIInv'
<1>1. IInv' BY NextIInv DEF RunnerIInv, Next
<1>2. TypeOK /\ IInv /\ faults \in Nat BY RunnerTypes DEF RunnerIInv, IInv
<1>3. ASSUME NEW w \in Workers, SignupStep(w), UNCHANGED clientVars PROVE RunnerIInv'
  <2>1. CASE NewMailbox(w) BY <1>1, <1>3, <2>1, NewMailboxKeeps
  <2>2. CASE Place(w) BY <1>1, <1>3, <2>2, PlaceKeeps
  <2>3. CASE Push(w) BY <1>1, <1>3, <2>3, PushKeeps
  <2>4. CASE ~NewMailbox(w) /\ ~Place(w) /\ ~Push(w)
    <3>1. Calm BY <1>2, <1>3, <2>4, CalmPages, CalmOthers DEF SignupStep
    <3>2. faults <= faults' BY <1>2, <1>3, SignupStepMoves DEF Moves
    <3>3. records' = records /\ main' = main BY <1>3 DEF clientVars
    <3> QED BY <1>1, <3>1, <3>2, <3>3, ClientCalmKeeps DEF Exited
  <2> QED BY <2>1, <2>2, <2>3, <2>4
<1>4. ASSUME NEW w \in Workers,
             \/ StartBrowser(w) \/ Claim(w) \/ CountSuccess(w) \/ CountFailure(w) \/ RetrySlot(w)
             \/ NextSlot(w) \/ EndWorker(w)
      PROVE  RunnerIInv'
  <2>1. Calm BY <1>2, <1>4, CalmLoop
  <2>2. faults <= faults' /\ records' = records /\ main' = main
    <3> USE DEF clientVars
    <3>1. faults' \in {faults, faults + 1}
      BY <1>4 DEF StartBrowser, Claim, CountSuccess, CountFailure, RetrySlot, NextSlot, EndWorker,
                  Fault
    <3>2. records' = records /\ main' = main
      BY <1>4 DEF StartBrowser, Claim, CountSuccess, CountFailure, RetrySlot, NextSlot, EndWorker
    <3> QED BY <1>2, <3>1, <3>2
  <2> QED BY <1>1, <2>1, <2>2, ClientCalmKeeps DEF Exited
<1>5. ASSUME NEW w \in Workers, WorkerStep(w) PROVE RunnerIInv'
  BY <1>1, <1>3, <1>4, <1>5, RecordKeeps DEF WorkerStep
<1>6. ASSUME NEW w \in Workers, Spawn(w) PROVE RunnerIInv'
  <2>1. Calm BY <1>2, <1>6, CalmLoop
  <2>2. faults' = faults /\ records' = records /\ main = "spawn" /\ main' \in {"join", "spawn"}
    BY <1>6 DEF Spawn
  <2>3. faults <= faults' BY <1>2, <2>2
  <2> QED BY <1>1, <2>1, <2>2, <2>3, ClientCalmKeeps DEF Exited
<1>7. ASSUME NEW w \in Workers, SiteStep(w), UNCHANGED clientVars PROVE RunnerIInv'
  <2>1. Calm BY <1>2, <1>7, CalmSite
  <2>2. faults' = faults BY <1>2, <1>7, SiteStepMoves
  <2>3. faults <= faults' /\ records' = records /\ main' = main
    BY <1>2, <1>7, <2>2 DEF clientVars
  <2> QED BY <1>1, <2>1, <2>3, ClientCalmKeeps DEF Exited
<1>8. CASE JoinAll
  <2>1. /\ main \in {"join", "stopping"} /\ main' = "report" /\ records' = records
        /\ UNCHANGED <<at, box, page, used, made, dir, held, unheard, faults>>
    BY <1>8 DEF JoinAll, signupVars, attempt, browser, files
  <2>2. Calm BY <2>1, CalmIdle
  <2>3. faults <= faults' BY <1>2, <2>1
  <2> QED BY <1>1, <2>1, <2>2, <2>3, ClientCalmKeeps DEF Exited
<1>9. CASE Report
  <2>1. /\ main = "report" /\ main' = "done" /\ records' = records
        /\ UNCHANGED <<at, box, page, used, made, dir, held, unheard, faults>>
    BY <1>9 DEF Report, signupVars, attempt, browser, files
  <2>2. Calm BY <2>1, CalmIdle
  <2>3. faults <= faults' BY <1>2, <2>1
  <2> QED BY <1>1, <2>1, <2>2, <2>3, ClientCalmKeeps DEF Exited
<1> QED BY <1>5, <1>6, <1>7, <1>8, <1>9 DEF ClientStep

LEMMA NoFault ==
  ASSUME faults' = faults, faults \in Nat
  PROVE  faults <= faults'
OBVIOUS

\* The runner's steps that leave the client alone.
LEMMA ProgramKeeps ==
  ASSUME RunnerIInv, UNCHANGED vars, UNCHANGED <<probing, ckpt>>,
         todo' \in {todo, Selected}, counted' \in {counted, Successful},
         runner' \in {"watch", "reprobe", "last reprobe", "result", "completed", "failed", "gone"},
         runner' \in {"last reprobe", "result", "completed", "failed"} => Exited,
         runner' \in {"watch", "result", "completed", "failed"} => todo' = {} /\ probing = None,
         runner' \in {"completed", "failed"} => counted' = Successful
  PROVE  RunnerIInv'
<1>1. IInv' BY NextIInv DEF RunnerIInv
<1>2. /\ UNCHANGED <<at, box, page, used, made, dir, held, unheard, faults, records, main>>
      /\ faults \in Nat
  BY RunnerTypes DEF vars, signupVars, attempt, browser, files, clientVars, RunnerIInv, IInv
<1>3. Calm BY <1>2, CalmIdle
<1>4. todo' \subseteq {b \in Boxes : dir[b] \in {"pending", "cooldown"}}
  BY DEF RunnerIInv, RunnerTypeOK, Reprobing, Selected
<1>5. Exited => Exited' BY <1>2 DEF Exited
<1>6. faults <= faults' BY <1>2, NoFault
<1> QED BY <1>1, <1>2, <1>3, <1>4, <1>5, <1>6, CalmKeeps

LEMMA WatchKeeps ==
  ASSUME RunnerIInv, Watch
  PROVE  RunnerIInv'
<1>1. /\ runner = "watch" /\ ~Exited /\ counted' = Successful
      /\ UNCHANGED <<runner, todo, probing, ckpt>>
      /\ todo = {} /\ probing = None
  BY DEF Watch, RunnerIInv, Reprobing
<1>2. CASE UNCHANGED vars BY <1>1, <1>2, ProgramKeeps
<1>3. CASE Interrupt /\ UNCHANGED interrupts
  <2>1. interrupts' \in 0..MaxInterrupts BY <1>3 DEF RunnerIInv, IInv, TypeOK
  <2>2. IInv' BY <1>3, <2>1, InterruptIInv DEF RunnerIInv
  <2>3. CASE main # "join" BY <1>1, <1>3, <2>2, <2>3, KilledKeeps
  <2>4. CASE main = "join"
    <3>1. /\ main' = "stopping" /\ records' = records /\ faults' = faults
          /\ UNCHANGED <<at, box, page, used, made, dir, held, unheard>>
      BY <1>3, <2>4 DEF Interrupt, attempt, files
    <3>2. Calm BY <3>1, CalmIdle
    <3>3. faults <= faults' BY <3>1, RunnerTypes DEF RunnerIInv, IInv
    <3> QED BY <1>1, <2>2, <2>4, <3>1, <3>2, <3>3, CalmKeeps
  <2> QED BY <2>3, <2>4
<1> QED BY <1>2, <1>3 DEF Watch

LEMMA RunnerStepKeeps ==
  ASSUME RunnerIInv, RunnerStep
  PROVE  RunnerIInv'
<1>1. CASE StartReprobe BY <1>1, ProgramKeeps DEF StartReprobe
<1>2. CASE StartLastReprobe BY <1>2, ProgramKeeps DEF StartLastReprobe
<1>3. CASE EndReprobe BY <1>3, ProgramKeeps DEF EndReprobe, RunnerIInv, Ended
<1>4. CASE Result BY <1>4, ProgramKeeps DEF Result, RunnerIInv, Ended, Reprobing
<1> QED BY <1>1, <1>2, <1>3, <1>4, WatchKeeps DEF RunnerStep

LEMMA RunnerDiesKeeps ==
  ASSUME RunnerIInv, RunnerDies
  PROVE  RunnerIInv'
<1>1. /\ runner' = "gone" /\ faults < MaxFaults /\ faults' = faults + 1
      /\ UNCHANGED <<at, attempt, browser, used, stop, files, made, dir, held, unheard, clientVars,
                     todo, probing, ckpt, counted>>
  BY DEF RunnerDies, Fault
<1>2. /\ faults \in Nat /\ dir \in [Boxes -> Directories] /\ held \subseteq Boxes
      /\ unheard \subseteq Boxes
  BY RunnerTypes DEF RunnerIInv, IInv
<1>3. faults' \in faults..MaxFaults /\ faults <= faults' BY <1>1, <1>2, SignupConstants
<1>4. IInv' BY <1>1, <1>2, <1>3, OutsideIInv DEF RunnerIInv
<1>5. Calm BY <1>1, CalmIdle DEF attempt, browser
<1>6. records' = records /\ main' = main BY <1>1 DEF clientVars
<1>7. todo \subseteq {b \in Boxes : dir[b] \in {"pending", "cooldown"}}
  BY DEF RunnerIInv, RunnerTypeOK, Reprobing
<1> QED BY <1>1, <1>3, <1>4, <1>5, <1>6, <1>7, CalmKeeps

-----------------------------------------------------------------------------
(* The re-probe.                                                           *)

LEMMA ReprobeKeeps ==
  ASSUME RunnerIInv, NEW b \in Boxes, Reprobe(b)
  PROVE  RunnerIInv'
<1>1. PICK d \in {"pending", "cooldown", "verified"} :
        dir' = [dir EXCEPT ![b] = d] /\ probing' = IF d = "verified" THEN b ELSE None
  BY DEF Reprobe
<1>2. /\ b \in todo /\ probing = None /\ todo' = todo \ {b}
      /\ UNCHANGED <<at, attempt, browser, used, stop, files, made, held, unheard, faults,
                     clientVars, runner, ckpt, counted>>
  BY DEF Reprobe
<1>3. UNCHANGED <<at, box, page, used, made, held, unheard, faults, records, main, runner, ckpt,
                  counted>>
  BY <1>2 DEF attempt, browser, clientVars
<1>4. /\ dir \in [Boxes -> Directories] /\ held \subseteq Boxes /\ unheard \subseteq Boxes
      /\ box \in [Workers -> {None} \cup Boxes] /\ faults \in 0..MaxFaults
      /\ \A c \in Boxes : c # None
  BY RunnerTypes DEF RunnerIInv, IInv, TypeOK, SignupTypeOK
<1>5. /\ dir[b] \in {"pending", "cooldown"}
      /\ runner \notin {"watch", "result", "completed", "failed"}
  BY <1>2 DEF RunnerIInv, Reprobing
<1>6. b <= used /\ b \in made /\ b \notin held
  BY <1>5 DEF RunnerIInv, Placed
<1>7. dir'[b] = d /\ \A c \in Boxes \ {b} : dir'[c] = dir[c] BY <1>1, <1>4
<1>8. IInv'
  <2>1. dir' \in [Boxes -> Directories] BY <1>1, <1>4 DEF Directories
  <2>2. \A c \in Boxes : dir'[c] # "none" => dir[c] # "none" BY <1>5, <1>7
  <2>3. held' \subseteq Boxes /\ unheard' \subseteq Boxes BY <1>3, <1>4
  <2>4. faults' \in faults..MaxFaults BY <1>3, <1>4, SignupConstants
  <2>5. UNCHANGED <<at, attempt, browser, used, stop, files, made, clientVars>> BY <1>2
  <2> QED BY <2>1, <2>2, <2>3, <2>4, <2>5, OutsideIInv DEF RunnerIInv
<1>9. RunnerTypeOK'
  <2>1. /\ todo' \subseteq Boxes /\ probing' \in {None} \cup Boxes
        /\ ckpt' \subseteq Boxes /\ counted' \subseteq Boxes /\ runner' = runner
    BY <1>1, <1>2, <1>3 DEF RunnerIInv, RunnerTypeOK
  <2> QED BY <1>8, <2>1 DEF RunnerIInv, RunnerTypeOK, IInv
<1>10. ASSUME NEW w \in Workers PROVE OwnBox(w)'
  <2>1. CASE box[w] = None BY <1>3, <2>1 DEF OwnBox
  <2>2. CASE box[w] # None
    <3>1. OwnBox(w) /\ box[w] \in Boxes BY <1>4, <2>2 DEF RunnerIInv
    <3>2. box[w] # b BY <1>5, <2>2, <3>1 DEF OwnBox
    <3>3. box[w] # probing' BY <1>1, <2>2, <3>2
    <3>4. dir'[box[w]] = dir[box[w]] BY <1>7, <3>1, <3>2
    <3>5. Registered(w)' <=> Registered(w) BY <1>3 DEF Registered
    <3> QED BY <1>3, <2>2, <3>1, <3>3, <3>4, <3>5 DEF OwnBox
  <2> QED BY <2>1, <2>2
<1>11. Placed' BY <1>3, <1>4, <1>6, <1>7 DEF RunnerIInv, Placed
<1>12. Reprobing'
  <2>1. \A c \in todo' : dir'[c] \in {"pending", "cooldown"}
    <3>1. todo \subseteq Boxes BY DEF RunnerIInv, RunnerTypeOK
    <3> QED BY <1>2, <1>7, <3>1 DEF RunnerIInv, Reprobing
  <2>2. probing' # None => dir'[probing'] = "verified" BY <1>1, <1>7
  <2> QED BY <1>3, <1>5, <2>1, <2>2 DEF Reprobing
<1>13. Ended' BY <1>3 DEF RunnerIInv, Ended, Exited
<1>14. UNCHANGED <<Successful, InFlight, Killed>> BY <1>3 DEF Successful, InFlight, Killed
<1>15. RecordsReal' BY <1>3, <1>14 DEF RunnerIInv, RecordsReal
<1>16. Unrecorded' = Unrecorded BY <1>3, <1>14 DEF Unrecorded
<1>17. (Cardinality(Unrecorded) <= faults + Killed)'
  BY <1>3, <1>14, <1>16 DEF RunnerIInv
<1> QED BY <1>8, <1>9, <1>10, <1>11, <1>12, <1>13, <1>15, <1>17 DEF RunnerIInv

LEMMA ReprobePushKeeps ==
  ASSUME RunnerIInv, ReprobePush
  PROVE  RunnerIInv'
<1>1. PICK b \in Boxes : b = probing
  BY DEF ReprobePush, RunnerIInv, RunnerTypeOK
<1>2. /\ probing' = None
      /\ UNCHANGED <<at, attempt, browser, used, stop, files, made, dir, clientVars, runner, todo,
                     counted>>
  BY DEF ReprobePush
<1>3. UNCHANGED <<at, box, page, used, made, dir, records, main, runner, todo, counted>>
  BY <1>2 DEF attempt, browser, clientVars
<1>4. \/ /\ b \notin held /\ held' = held \cup {b} /\ ckpt' = ckpt \cup {b}
         /\ unheard' = unheard /\ faults' = faults
      \/ /\ held' = held /\ ckpt' = ckpt /\ unheard' = unheard /\ faults' = faults
      \/ /\ b \notin held /\ held' = held \cup {b} /\ ckpt' = ckpt
         /\ unheard' = unheard \cup {b} /\ faults < MaxFaults /\ faults' = faults + 1
  BY <1>1 DEF ReprobePush, Fault
<1>5. /\ dir \in [Boxes -> Directories] /\ held \subseteq Boxes /\ unheard \subseteq Boxes
      /\ box \in [Workers -> {None} \cup Boxes] /\ faults \in 0..MaxFaults /\ faults \in Nat
      /\ \A c \in Boxes : c # None
  BY RunnerTypes DEF RunnerIInv, IInv, TypeOK, SignupTypeOK
<1>6. /\ dir[b] = "verified"
      /\ runner \notin {"watch", "result", "completed", "failed"}
  BY <1>1, <1>5 DEF RunnerIInv, Reprobing
<1>7. b \notin held => b \notin unheard BY DEF RunnerIInv, RecordsReal
<1>8. faults' \in faults..MaxFaults /\ faults <= faults'
  BY <1>4, <1>5, SignupConstants
<1>9. IInv'
  <2>1. held' \subseteq Boxes /\ unheard' \subseteq Boxes BY <1>4, <1>5
  <2>2. dir' \in [Boxes -> Directories] /\ \A c \in Boxes : dir'[c] # "none" => dir[c] # "none"
    BY <1>3, <1>5
  <2>3. UNCHANGED <<at, attempt, browser, used, stop, files, made, clientVars>> BY <1>2
  <2> QED BY <1>8, <2>1, <2>2, <2>3, OutsideIInv DEF RunnerIInv
<1>10. RunnerTypeOK'
  <2>1. ckpt' \subseteq Boxes BY <1>4 DEF RunnerIInv, RunnerTypeOK
  <2> QED BY <1>2, <1>3, <1>9, <2>1 DEF RunnerIInv, RunnerTypeOK, IInv
<1>11. ASSUME NEW w \in Workers PROVE OwnBox(w)'
  <2>1. CASE box[w] = None BY <1>3, <2>1 DEF OwnBox
  <2>2. CASE box[w] # None
    <3>1. OwnBox(w) /\ box[w] # b BY <1>1, <2>2 DEF RunnerIInv, OwnBox
    <3>2. /\ box[w] \in held' <=> box[w] \in held
          /\ box[w] \in unheard' <=> box[w] \in unheard
      BY <1>4, <3>1
    <3>3. Registered(w)' <=> Registered(w) BY <1>3 DEF Registered
    <3> QED BY <1>2, <1>3, <2>2, <3>1, <3>2, <3>3 DEF OwnBox
  <2> QED BY <2>1, <2>2
<1>12. Placed' BY <1>3, <1>4, <1>6 DEF RunnerIInv, Placed
<1>13. Reprobing' BY <1>2, <1>3, <1>6 DEF RunnerIInv, Reprobing
<1>14. Ended' BY <1>3 DEF RunnerIInv, Ended, Exited
<1>15. /\ Successful \subseteq Successful' /\ Successful' \subseteq Successful \cup {b}
       /\ Successful' \subseteq held' \ unheard'
  <2>1. Successful \subseteq held \ unheard BY DEF RunnerIInv, RecordsReal
  <2>2. Successful' = records \cup ckpt' BY <1>3 DEF Successful
  <2>3. Successful \subseteq held' \ unheard' BY <1>4, <2>1
  <2>4. ckpt' \subseteq ckpt \cup {b} /\ (b \in ckpt' \ ckpt => b \in held' \ unheard')
    BY <1>4, <1>7
  <2>5. ckpt \subseteq ckpt' BY <1>4
  <2> QED BY <2>2, <2>3, <2>4, <2>5 DEF Successful
<1>16. RecordsReal'
  <2>1. unheard' \subseteq held' BY <1>4 DEF RunnerIInv, RecordsReal
  <2> QED BY <1>3, <1>6, <1>15, <2>1 DEF RunnerIInv, RecordsReal
<1>17. InFlight' = InFlight BY <1>3 DEF InFlight
<1>18. CASE faults' = faults
  <2>1. held' \subseteq held \cup (Successful' \cap {b})
    BY <1>3, <1>4, <1>5, <1>18 DEF Successful
  <2>2. Unrecorded' \subseteq Unrecorded BY <1>15, <1>17, <2>1 DEF Unrecorded
  <2>3. (Cardinality(Unrecorded) <= faults + Killed)'
    BY <1>3, <1>8, <1>9, <2>2, UnrecordedKept
  <2> QED BY <1>9, <1>10, <1>11, <1>12, <1>13, <1>14, <1>16, <2>3 DEF RunnerIInv
<1>19. CASE faults' = faults + 1
  <2>1. Unrecorded' \subseteq Unrecorded \cup {b} BY <1>4, <1>15, <1>17 DEF Unrecorded
  <2>2. (Cardinality(Unrecorded) <= faults + Killed)'
    BY <1>3, <1>9, <1>19, <2>1, UnrecordedOne
  <2> QED BY <1>9, <1>10, <1>11, <1>12, <1>13, <1>14, <1>16, <2>2 DEF RunnerIInv
<1> QED BY <1>4, <1>18, <1>19

-----------------------------------------------------------------------------
(* The theorems.                                                           *)

LEMMA RunnerInitKeeps == RunnerInit => RunnerIInv
<1> SUFFICES ASSUME RunnerInit PROVE RunnerIInv OBVIOUS
<1> USE DEF RunnerInit, Init, SignupInit
<1>1. IInv BY InitIInv
<1>2. RunnerTypeOK BY <1>1 DEF RunnerTypeOK, IInv
<1>3. \A w \in Workers : box[w] = None OBVIOUS
<1>4. \A w \in Workers : OwnBox(w) BY <1>3 DEF OwnBox
<1>5. Placed /\ Reprobing /\ Ended /\ RecordsReal
  BY DEF Placed, Reprobing, Ended, Exited, RecordsReal, Successful
<1>6. Unrecorded = {} BY DEF Unrecorded
<1>7. Cardinality(Unrecorded) = 0 BY <1>6, FS_EmptySet
<1>8. Killed = 0 BY DEF Killed
<1> HIDE DEF Unrecorded, Killed
<1>9. Cardinality(Unrecorded) <= faults + Killed BY <1>7, <1>8
<1> QED BY <1>1, <1>2, <1>4, <1>5, <1>9 DEF RunnerIInv

LEMMA RunnerStutterKeeps ==
  ASSUME RunnerIInv, UNCHANGED allVars
  PROVE  RunnerIInv'
<1>1. UNCHANGED vars /\ RunnerKept BY DEF allVars, runnerVars, RunnerKept
<1>2. /\ runner \in {"watch", "reprobe", "last reprobe", "result", "completed", "failed", "gone"}
      /\ runner \in {"last reprobe", "result", "completed", "failed"} => Exited
      /\ runner \in {"watch", "result", "completed", "failed"} => todo = {} /\ probing = None
      /\ runner \in {"completed", "failed"} => counted = Successful
  BY DEF RunnerIInv, RunnerTypeOK, Reprobing, Ended, RecordsReal
<1> QED BY <1>1, <1>2, ProgramKeeps DEF RunnerKept

\* The parts of the inductive invariant, those of the client among them, hold
\* in every reachable state of a client and its runner.
THEOREM RunnerInvariance == RunnerSpec => []RunnerIInv
<1>1. RunnerIInv /\ [RunnerNext]_allVars => RunnerIInv'
  <2> SUFFICES ASSUME RunnerIInv, [RunnerNext]_allVars PROVE RunnerIInv' OBVIOUS
  <2>1. CASE ClientStep /\ UNCHANGED runnerVars
    BY <2>1, ClientStepKeeps DEF runnerVars, RunnerKept
  <2>2. CASE RunnerStep BY <2>2, RunnerStepKeeps
  <2>3. CASE ReprobeStep BY <2>3, ReprobeKeeps, ReprobePushKeeps DEF ReprobeStep
  <2>4. CASE RunnerDies BY <2>4, RunnerDiesKeeps
  <2>5. CASE UNCHANGED allVars BY <2>5, RunnerStutterKeeps
  <2> QED BY <2>1, <2>2, <2>3, <2>4, <2>5 DEF RunnerNext
<1> QED BY <1>1, RunnerInitKeeps, PTL DEF RunnerSpec

\* Every account the manifest counts is real: the bridge created it and said
\* so, its credential is verified, and its mailbox has an account at xAI.
THEOREM ManifestIsReal == RunnerSpec => []CountedIsReal
<1>1. RunnerIInv => CountedIsReal
  <2> SUFFICES ASSUME RunnerIInv, NEW b \in counted
      PROVE  b \in (held \cap made) \ unheard /\ dir[b] = "verified" /\ b \in Boxes
    BY DEF CountedIsReal, RunnerIInv, RunnerTypeOK, IInv, TypeOK, SignupTypeOK
  <2>1. b \in held /\ b \notin unheard BY DEF RunnerIInv, RecordsReal
  <2>2. b \in Boxes BY DEF RunnerIInv, RunnerTypeOK
  <2>3. dir[b] = "verified" BY <2>1 DEF RunnerIInv, Placed
  <2>4. b \in made BY <2>2, <2>3 DEF RunnerIInv, Placed
  <2> QED BY <2>1, <2>2, <2>3, <2>4
<1> QED BY <1>1, RunnerInvariance, PTL

\* What a finished run has put into Sub2API and does not count was lost by a
\* fault or by a worker that was killed, one account each.
THEOREM ManifestMissesNothing == RunnerSpec => []CreatedIsCounted
<1>1. RunnerIInv => CreatedIsCounted
  <2> SUFFICES ASSUME RunnerIInv, runner \in {"completed", "failed"}
      PROVE  Cardinality(held \ counted) <= faults + Killed
    BY DEF CreatedIsCounted
  <2>1. counted = Successful /\ Exited BY DEF RunnerIInv, RecordsReal, Ended
  <2>2. \A w \in Workers : at[w] # "won"
    BY <2>1 DEF Exited, RunnerIInv, Ended, IInv, Summed
  <2>3. InFlight = {} BY <2>2 DEF InFlight
  <2>4. held \ counted = Unrecorded BY <2>1, <2>3 DEF Unrecorded
  <2> QED BY <2>4 DEF RunnerIInv
<1> QED BY <1>1, RunnerInvariance, PTL
=============================================================================
