------------------------ MODULE BrowserClient_proofs ------------------------
(***************************************************************************)
(* Proofs about BrowserClient and its attempts (Signup), for every number  *)
(* of workers, slots, mailboxes, letters and faults.                       *)
(***************************************************************************)
EXTENDS BrowserClient, FiniteSetTheorems, TLAPS

\* What a step of worker w's attempt keeps.
Moves(w) ==
  /\ at[w] \in Stages
  /\ \E s \in Stages \cup Outcomes : at' = [at EXCEPT ![w] = s] /\ (s = "cancelled" => stop)
  /\ stop' = stop /\ faults <= faults'
  /\ SignupTypeOK' /\ \A v \in Workers : HasBox(v)' /\ MayChange(v)'

\* It leaves nothing unwritten that was written, or on its way to be.
Loses == Unnoted' \subseteq Unnoted /\ Unsaved' \subseteq Unsaved

\* Steps that change nothing but the place of an attempt and its page.
LEMMA PageMoves ==
  ASSUME IInv, NEW w \in Workers, at[w] \in Stages,
         NEW s \in Stages \cup Outcomes, NEW p \in Pages,
         s = "cancelled" => stop, s # "change",
         at[w] \in Boxless => s \in Boxless,
         s \in Noted => at[w] \in Noted, s \in Saved => at[w] \in Saved,
         at' = [at EXCEPT ![w] = s],
         page' = [page EXCEPT ![w] = p], up' \in [Workers -> BOOLEAN],
         UNCHANGED <<attempt, used, stop, files, made, dir, held, unheard, faults>>
  PROVE  Moves(w) /\ Loses
<1> USE DEF attempt, files
<1>1. SignupTypeOK' BY DEF IInv, TypeOK, SignupTypeOK
<1>2. at \in [Workers -> Stages \cup Outcomes \cup LoopSteps] BY DEF IInv, TypeOK
<1>3. \A v \in Workers : HasBox(v)' /\ MayChange(v)'
  BY <1>2 DEF IInv, HasBox, MayChange, Stages, Outcomes, Boxless
<1>4. Loses BY <1>2 DEF Loses, Unnoted, Unsaved
<1>5. faults <= faults' BY DEF IInv, TypeOK, SignupTypeOK
<1> QED BY <1>1, <1>3, <1>4, <1>5 DEF Moves
\* register_one has returned or raised.
LEMMA LeaveMoves ==
  ASSUME IInv, NEW w \in Workers, at[w] \in Stages, NEW s \in Outcomes,
         s = "cancelled" => stop, s = "won" => box[w] \in Boxes,
         Leave(w, s), up' \in [Workers -> BOOLEAN], stop' = stop,
         used' = used, files' = files, made' = made,
         faults' \in faults..MaxFaults, held' \subseteq Boxes, unheard' \subseteq Boxes,
         dir' \in [Boxes -> Directories]
  PROVE  Moves(w) /\ Unnoted' \subseteq Unnoted /\ (dir' = dir => Loses)
<1> USE DEF files, Leave, Goto
<1>1. SignupTypeOK'
  <2>1. NoLetters \in [Letters -> {Unsent, OnTheWay} \cup 0..Looks] BY DEF NoLetters
  <2>2. 1 \in 1..MailTries /\ 0 \in 0..Canaries /\ MaxFaults \in Nat BY SignupConstants
  <2>3. "none" \in Pages BY DEF Pages
  <2>4. SignupTypeOK BY DEF IInv, TypeOK
  <2>5. box' \in [Workers -> {None} \cup Boxes] /\ tries' \in [Workers -> 1..MailTries]
    BY <2>2, <2>4 DEF SignupTypeOK
  <2>6. letters' \in [Workers -> [Letters -> {Unsent, OnTheWay} \cup 0..Looks]]
    BY <2>1, <2>4 DEF SignupTypeOK
  <2>7. /\ page' \in [Workers -> Pages] /\ gated' \in [Workers -> BOOLEAN]
        /\ talks' \in [Workers -> 0..Canaries]
    BY <2>2, <2>3, <2>4 DEF SignupTypeOK
  <2>8. faults' \in 0..MaxFaults BY <2>2, <2>4 DEF SignupTypeOK
  <2> QED BY <2>4, <2>5, <2>6, <2>7, <2>8 DEF SignupTypeOK
<1>2. /\ at \in [Workers -> Stages \cup Outcomes \cup LoopSteps]
      /\ box \in [Workers -> {None} \cup Boxes] /\ tries \in [Workers -> 1..MailTries]
  BY DEF IInv, TypeOK, SignupTypeOK
<1>3. \A v \in Workers : HasBox(v)' /\ MayChange(v)'
  BY <1>2 DEF IInv, HasBox, MayChange, Stages, Outcomes, Boxless
<1>4. Unnoted' \subseteq Unnoted /\ (dir' = dir => Loses)
  BY <1>2 DEF Loses, Unnoted, Unsaved, Outcomes, Noted, Saved
<1>5. faults <= faults' BY SignupConstants DEF IInv, TypeOK, SignupTypeOK
<1>6. \E o \in Stages \cup Outcomes : at' = [at EXCEPT ![w] = o] /\ (o = "cancelled" => stop)
  OBVIOUS
<1> HIDE DEF Leave
<1> QED BY <1>1, <1>3, <1>4, <1>5, <1>6 DEF Moves

\* Steps on the letters, the gate and the conversations of an attempt.
LEMMA LocalMoves ==
  ASSUME IInv, NEW w \in Workers, at[w] \in Stages,
         NEW s \in Stages, s # "change",
         at[w] \in Boxless => s \in Boxless,
         s \in Noted => at[w] \in Noted, s \in Saved => at[w] \in Saved,
         at' = [at EXCEPT ![w] = s],
         letters' \in [Workers -> [Letters -> {Unsent, OnTheWay} \cup 0..Looks]],
         gated' \in [Workers -> BOOLEAN], talks' \in [Workers -> 0..Canaries],
         page' \in [Workers -> Pages], up' = up,
         UNCHANGED <<box, tries, used, stop, files, made, dir, held, unheard, faults>>
  PROVE  Moves(w) /\ Loses
<1> USE DEF files
<1>1. SignupTypeOK' BY DEF IInv, TypeOK, SignupTypeOK
<1>2. at \in [Workers -> Stages \cup Outcomes \cup LoopSteps] BY DEF IInv, TypeOK
<1>3. \A v \in Workers : HasBox(v)' /\ MayChange(v)'
  BY <1>2 DEF IInv, HasBox, MayChange, Stages, Outcomes, Boxless
<1>4. Loses BY <1>2 DEF Loses, Unnoted, Unsaved
<1>5. faults <= faults' BY DEF IInv, TypeOK, SignupTypeOK
<1> QED BY <1>1, <1>3, <1>4, <1>5 DEF Moves, Stages

\* The steps of an attempt that move it and its page.
LEMMA PageSteps ==
  ASSUME IInv, NEW w \in Workers,
         \/ OpenSignup(w) \/ ClickEntry(w) \/ ReclickEntry(w)
         \/ TypeCodeNative(w) \/ TypeCodeScript(w) \/ SolveChallenge(w) \/ FillProfileScript(w)
         \/ Resubmit(w) \/ ReadCookie(w) \/ PassGate(w) \/ MissGate(w) \/ SetBirthDate(w)
         \/ PressAgeModal(w) \/ DismissAgeModal(w) \/ OpenChat(w) \/ SendPrompt(w)
         \/ ReadReply(w)
  PROVE  Moves(w) /\ Loses
<1> USE DEF Goto, Show, browser, Stages, Outcomes, Pages, Boxless, Noted, Saved, GateStages
<1>0. /\ at \in [Workers -> Stages \cup Outcomes \cup LoopSteps] /\ page \in [Workers -> Pages]
      /\ up \in [Workers -> BOOLEAN]
  BY DEF IInv, TypeOK, SignupTypeOK
<1>1. ASSUME OpenSignup(w) PROVE Moves(w) /\ Loses BY <1>0, <1>1, PageMoves DEF OpenSignup
<1>2. ASSUME ClickEntry(w) PROVE Moves(w) /\ Loses
  <2>1. PICK p \in {"entry", "form"} : Show(w, p) BY <1>2 DEF ClickEntry
  <2> QED BY <1>0, <1>2, <2>1, PageMoves DEF ClickEntry
<1>3. ASSUME ReclickEntry(w) PROVE Moves(w) /\ Loses BY <1>0, <1>3, PageMoves DEF ReclickEntry
<1>4. ASSUME TypeCodeNative(w) PROVE Moves(w) /\ Loses
  BY <1>0, <1>4, PageMoves DEF TypeCodeNative
<1>5. ASSUME TypeCodeScript(w) PROVE Moves(w) /\ Loses
  BY <1>0, <1>5, PageMoves DEF TypeCodeScript
<1>6. ASSUME SolveChallenge(w) PROVE Moves(w) /\ Loses
  BY <1>0, <1>6, PageMoves DEF SolveChallenge
<1>7. ASSUME FillProfileScript(w) PROVE Moves(w) /\ Loses
  BY <1>0, <1>7, PageMoves DEF FillProfileScript
<1>8. ASSUME Resubmit(w) PROVE Moves(w) /\ Loses BY <1>0, <1>8, PageMoves DEF Resubmit
<1>9. ASSUME ReadCookie(w) PROVE Moves(w) /\ Loses BY <1>0, <1>9, PageMoves DEF ReadCookie
<1>10. ASSUME PassGate(w) PROVE Moves(w) /\ Loses BY <1>0, <1>10, PageMoves DEF PassGate
<1>11. ASSUME MissGate(w) PROVE Moves(w) /\ Loses BY <1>0, <1>11, PageMoves DEF MissGate
<1>12. ASSUME SetBirthDate(w) PROVE Moves(w) /\ Loses
  BY <1>0, <1>12, PageMoves DEF SetBirthDate
<1>13. ASSUME PressAgeModal(w) PROVE Moves(w) /\ Loses
  BY <1>0, <1>13, PageMoves DEF PressAgeModal
<1>14. ASSUME DismissAgeModal(w) PROVE Moves(w) /\ Loses
  BY <1>0, <1>14, PageMoves DEF DismissAgeModal
<1>15. ASSUME OpenChat(w) PROVE Moves(w) /\ Loses BY <1>0, <1>15, PageMoves DEF OpenChat
<1>16. ASSUME SendPrompt(w) PROVE Moves(w) /\ Loses BY <1>0, <1>16, PageMoves DEF SendPrompt
<1>17. ASSUME ReadReply(w) PROVE Moves(w) /\ Loses BY <1>0, <1>17, PageMoves DEF ReadReply
<1> QED
  BY <1>1, <1>2, <1>3, <1>4, <1>5, <1>6, <1>7, <1>8, <1>9, <1>10, <1>11, <1>12, <1>13, <1>14,
     <1>15, <1>16, <1>17

\* Sending and looking at letters keeps their type.
LEMMA LetterType ==
  ASSUME IInv, NEW w \in Workers
  PROVE  /\ SendLetter(w) => letters' \in [Workers -> [Letters -> {Unsent, OnTheWay} \cup 0..Looks]]
         /\ Deliver(w) => letters' \in [Workers -> [Letters -> {Unsent, OnTheWay} \cup 0..Looks]]
         /\ \A l \in Letters : LookAt(w, l) =>
              letters' \in [Workers -> [Letters -> {Unsent, OnTheWay} \cup 0..Looks]]
<1>1. letters \in [Workers -> [Letters -> {Unsent, OnTheWay} \cup 0..Looks]]
  BY DEF IInv, TypeOK, SignupTypeOK
<1>2. Looks \in Nat \ {0} BY SignupConstants DEF Looks
<1>3. SendLetter(w) => letters' \in [Workers -> [Letters -> {Unsent, OnTheWay} \cup 0..Looks]]
  BY <1>1 DEF SendLetter
<1>4. Deliver(w) => letters' \in [Workers -> [Letters -> {Unsent, OnTheWay} \cup 0..Looks]]
  BY <1>1, <1>2 DEF Deliver
<1>5. ASSUME NEW l \in Letters, LookAt(w, l)
      PROVE  letters' \in [Workers -> [Letters -> {Unsent, OnTheWay} \cup 0..Looks]]
  <2>1. letters[w][l] + 1 \in 0..Looks BY <1>2, <1>5 DEF LookAt
  <2> QED BY <1>1, <1>5, <2>1 DEF LookAt
<1> QED BY <1>3, <1>4, <1>5

\* The steps of an attempt on its letters, the gate and the conversation.
LEMMA LocalSteps ==
  ASSUME IInv, NEW w \in Workers,
         \/ SubmitEmailNative(w) \/ SubmitEmailScript(w) \/ LookOnce(w) \/ LookAgain(w)
         \/ Resend(w) \/ AcceptTos(w) \/ ClickGate(w) \/ ChatGated(w)
  PROVE  Moves(w) /\ Loses
<1> USE DEF Goto, Show, browser, Boxless, Noted, Saved
<1>0. /\ at \in [Workers -> Stages \cup Outcomes \cup LoopSteps] /\ page \in [Workers -> Pages]
      /\ letters \in [Workers -> [Letters -> {Unsent, OnTheWay} \cup 0..Looks]]
      /\ gated \in [Workers -> BOOLEAN] /\ talks \in [Workers -> 0..Canaries]
  BY DEF IInv, TypeOK, SignupTypeOK
<1>00. {"note", "poll", "type", "gate", "regate"} \subseteq Stages /\ {"code", "other"} \subseteq Pages
  BY DEF Stages, Pages
<1>1. ASSUME SubmitEmailNative(w) PROVE Moves(w) /\ Loses
  <2>1. at[w] = "email" /\ at[w] \in Stages BY <1>1 DEF SubmitEmailNative, Stages
  <2>2. page' \in [Workers -> Pages] BY <1>0, <1>00, <1>1 DEF SubmitEmailNative
  <2>3. letters' \in [Workers -> [Letters -> {Unsent, OnTheWay} \cup 0..Looks]]
    BY <1>0, <1>1, LetterType DEF SubmitEmailNative
  <2> QED BY <1>0, <1>00, <1>1, <2>1, <2>2, <2>3, LocalMoves DEF SubmitEmailNative
<1>2. ASSUME SubmitEmailScript(w) PROVE Moves(w) /\ Loses
  <2>1. at[w] = "email" /\ at[w] \in Stages BY <1>2 DEF SubmitEmailScript, Stages
  <2>2. page' \in [Workers -> Pages] BY <1>0, <1>00, <1>2 DEF SubmitEmailScript
  <2>3. letters' \in [Workers -> [Letters -> {Unsent, OnTheWay} \cup 0..Looks]]
    BY <1>0, <1>2, LetterType DEF SubmitEmailScript
  <2> QED BY <1>0, <1>00, <1>2, <2>1, <2>2, <2>3, LocalMoves DEF SubmitEmailScript
<1>3. ASSUME NEW l \in Letters, LookAt(w, l), at' \in {at, [at EXCEPT ![w] = "type"]}
      PROVE  Moves(w) /\ Loses
  <2>1. at[w] = "poll" /\ at[w] \in Stages BY <1>3 DEF LookAt, Stages
  <2>2. letters' \in [Workers -> [Letters -> {Unsent, OnTheWay} \cup 0..Looks]]
    BY <1>3, LetterType
  <2>3. PICK s \in {"poll", "type"} : at' = [at EXCEPT ![w] = s] BY <1>0, <1>3, <2>1
  <2> QED BY <1>0, <1>00, <1>3, <2>1, <2>2, <2>3, LocalMoves DEF LookAt
<1>4. ASSUME Resend(w) PROVE Moves(w) /\ Loses
  <2>1. at[w] = "poll" /\ at[w] \in Stages /\ at' = [at EXCEPT ![w] = "poll"]
    BY <1>0, <1>4 DEF Resend, Stages
  <2>2. letters' \in [Workers -> [Letters -> {Unsent, OnTheWay} \cup 0..Looks]]
    BY <1>4, LetterType DEF Resend
  <2> QED BY <1>0, <1>00, <1>4, <2>1, <2>2, LocalMoves DEF Resend
<1>5. ASSUME AcceptTos(w) PROVE Moves(w) /\ Loses
  <2>1. at[w] = "tos" /\ at[w] \in Stages BY <1>5 DEF AcceptTos, Stages
  <2>2. gated' \in [Workers -> BOOLEAN] BY <1>0, <1>5 DEF AcceptTos, Ungate
  <2> QED BY <1>0, <1>00, <1>5, <2>1, <2>2, LocalMoves DEF AcceptTos, Ungate
<1>6. ASSUME ClickGate(w) PROVE Moves(w) /\ Loses
  <2>1. /\ at[w] \in {"gate", "gate again", "regate"} /\ at[w] \in Stages
        /\ at' = [at EXCEPT ![w] = at[w]]
    BY <1>0, <1>6 DEF ClickGate, GateStages, Stages
  <2> QED BY <1>0, <1>6, <2>1, LocalMoves DEF ClickGate, Ungate
<1>7. ASSUME ChatGated(w) PROVE Moves(w) /\ Loses
  <2>1. at[w] \in {"surface", "prompt"} /\ at[w] \in Stages BY <1>7 DEF ChatGated, Stages
  <2>2. talks' \in [Workers -> 0..Canaries]
    <3>1. talks[w] + 1 \in 0..Canaries BY <1>0, <1>7, SignupConstants DEF ChatGated
    <3> QED BY <1>0, <1>7, <3>1 DEF ChatGated, Talk
  <2> QED BY <1>0, <1>00, <1>7, <2>1, <2>2, LocalMoves DEF ChatGated, Talk
<1> QED BY <1>1, <1>2, <1>3, <1>4, <1>5, <1>6, <1>7 DEF LookOnce, LookAgain

\* A step to another stage.
LEMMA ToStage ==
  ASSUME NEW w \in Workers, NEW s \in Stages, at' = [at EXCEPT ![w] = s]
  PROVE  \E o \in Stages \cup Outcomes : at' = [at EXCEPT ![w] = o] /\ (o = "cancelled" => stop)
<1>1. s # "cancelled" BY DEF Stages
<1> QED BY <1>1

\* Sets of mailboxes are finite.
LEMMA BoxSets ==
  \A S \in SUBSET Boxes : /\ IsFiniteSet(S) /\ Cardinality(S) \in Nat
                          /\ \A T \in SUBSET S : Cardinality(T) <= Cardinality(S)
<1>1. IsFiniteSet(Boxes)
  <2>1. 1 \in Int /\ MaxBoxes \in Int BY SignupConstants
  <2> QED BY <2>1, FS_Interval DEF Boxes
<1>2. \A S \in SUBSET Boxes : IsFiniteSet(S) BY <1>1, FS_Subset
<1>3. \A S \in SUBSET Boxes : Cardinality(S) \in Nat BY <1>2, FS_CardinalityType
<1>4. ASSUME NEW S \in SUBSET Boxes, NEW T \in SUBSET S PROVE Cardinality(T) <= Cardinality(S)
  BY <1>2, <1>4, FS_Subset
<1> QED BY <1>2, <1>3, <1>4

\* A step that loses nothing, and one that loses a write of one mailbox.
LEMMA LosesNothing ==
  ASSUME IInv, Loses, faults <= faults', faults' \in Nat
  PROVE  WritesLost'
<1>1. Unnoted \in SUBSET Boxes /\ Unsaved \in SUBSET Boxes BY DEF Unnoted, Unsaved
<1>2. Unnoted' \in SUBSET Unnoted /\ Unsaved' \in SUBSET Unsaved BY DEF Loses
<1>3. Cardinality(Unnoted') <= Cardinality(Unnoted) /\ Cardinality(Unsaved') <= Cardinality(Unsaved)
  BY <1>1, <1>2, BoxSets
<1>4. /\ Cardinality(Unnoted) \in Nat /\ Cardinality(Unsaved) \in Nat
      /\ Cardinality(Unnoted') \in Nat /\ Cardinality(Unsaved') \in Nat
  BY <1>1, <1>2, BoxSets
<1>5. faults \in Nat BY SignupConstants DEF IInv, TypeOK, SignupTypeOK
<1>6. Cardinality(Unnoted) + Cardinality(Unsaved) <= faults BY DEF IInv, WritesLost
<1>7. Cardinality(Unnoted') + Cardinality(Unsaved') <= faults' BY <1>3, <1>4, <1>5, <1>6
<1> QED BY <1>7 DEF WritesLost

LEMMA LosesOne ==
  ASSUME NEW S \in SUBSET Boxes, NEW b \in Boxes, NEW T \in SUBSET (S \cup {b})
  PROVE  Cardinality(T) <= Cardinality(S) + 1
<1>1. S \cup {b} \in SUBSET Boxes OBVIOUS
<1>2. Cardinality(T) <= Cardinality(S \cup {b}) BY <1>1, BoxSets
<1>3. Cardinality(S \cup {b}) = IF b \in S THEN Cardinality(S) ELSE Cardinality(S) + 1
  BY BoxSets, FS_AddElement
<1>4. Cardinality(S) \in Nat /\ Cardinality(T) \in Nat BY <1>1, BoxSets
<1> QED BY <1>2, <1>3, <1>4

\* A write that fails costs a fault.
LEMMA NoteMailboxMoves ==
  ASSUME IInv, NEW w \in Workers, NoteMailbox(w)
  PROVE  Moves(w) /\ WritesLost'
<1> USE DEF NoteMailbox, Goto, Fault, attempt, browser
<1>1. at[w] = "note" /\ at' = [at EXCEPT ![w] = "poll"] OBVIOUS
<1>2. /\ at \in [Workers -> Stages \cup Outcomes \cup LoopSteps]
      /\ box \in [Workers -> {None} \cup Boxes] /\ box[w] \in Boxes
  BY <1>1 DEF IInv, TypeOK, SignupTypeOK, HasBox, Stages, Boxless
<1>3. SignupTypeOK' /\ faults' \in Nat /\ faults \in Nat /\ faults <= faults'
  BY <1>2, SignupConstants DEF IInv, TypeOK, SignupTypeOK
<1>4. \A v \in Workers : HasBox(v)' /\ MayChange(v)'
  BY <1>1, <1>2 DEF IInv, HasBox, MayChange, Stages, Outcomes, Boxless
<1>5. Moves(w) BY <1>1, <1>3, <1>4 DEF Moves, Stages
<1>6. Unsaved' \subseteq Unsaved BY <1>1, <1>2 DEF Unsaved, Saved
<1>7. CASE faults' = faults /\ mailFile' = mailFile \cup {box[w]}
  <2>1. Unnoted' \subseteq Unnoted BY <1>1, <1>2, <1>7 DEF Unnoted, Noted
  <2> QED BY <1>3, <1>5, <1>6, <2>1, LosesNothing DEF Loses
<1>8. CASE faults' = faults + 1 /\ mailFile' = mailFile
  <2>1. Unnoted' \in SUBSET (Unnoted \cup {box[w]}) BY <1>1, <1>2, <1>8 DEF Unnoted, Noted
  <2>2. Unnoted \in SUBSET Boxes /\ Unsaved \in SUBSET Boxes BY DEF Unnoted, Unsaved
  <2>3. Cardinality(Unnoted') <= Cardinality(Unnoted) + 1 BY <1>2, <2>1, <2>2, LosesOne
  <2>4. Cardinality(Unsaved') <= Cardinality(Unsaved) BY <1>6, <2>2, BoxSets
  <2>5. /\ Cardinality(Unnoted) \in Nat /\ Cardinality(Unsaved) \in Nat
        /\ Cardinality(Unnoted') \in Nat /\ Cardinality(Unsaved') \in Nat
    BY <1>2, <1>6, <2>1, <2>2, BoxSets
  <2>6. Cardinality(Unnoted) + Cardinality(Unsaved) <= faults BY DEF IInv, WritesLost
  <2>7. Cardinality(Unnoted') + Cardinality(Unsaved') <= faults'
    BY <1>3, <1>8, <2>3, <2>4, <2>5, <2>6
  <2> QED BY <1>5, <2>7 DEF WritesLost
<1> QED BY <1>7, <1>8

LEMMA SaveAccountMoves ==
  ASSUME IInv, NEW w \in Workers, SaveAccount(w)
  PROVE  Moves(w) /\ WritesLost'
<1> USE DEF SaveAccount, Goto, Fault, attempt, browser
<1>1. at[w] = "account" /\ at' = [at EXCEPT ![w] = "mint"] OBVIOUS
<1>2. /\ at \in [Workers -> Stages \cup Outcomes \cup LoopSteps]
      /\ box \in [Workers -> {None} \cup Boxes] /\ box[w] \in Boxes
  BY <1>1 DEF IInv, TypeOK, SignupTypeOK, HasBox, Stages, Boxless
<1>3. SignupTypeOK' /\ faults' \in Nat /\ faults \in Nat /\ faults <= faults'
  BY <1>2, SignupConstants DEF IInv, TypeOK, SignupTypeOK
<1>4. \A v \in Workers : HasBox(v)' /\ MayChange(v)'
  BY <1>1, <1>2 DEF IInv, HasBox, MayChange, Stages, Outcomes, Boxless
<1>5. Moves(w) BY <1>1, <1>3, <1>4 DEF Moves, Stages
<1>6. Unnoted' \subseteq Unnoted BY <1>1, <1>2 DEF Unnoted, Noted
<1>7. CASE faults' = faults /\ acctFile' = acctFile \cup {box[w]}
  <2>1. Unsaved' \subseteq Unsaved BY <1>1, <1>2, <1>7 DEF Unsaved, Saved
  <2> QED BY <1>3, <1>5, <1>6, <2>1, LosesNothing DEF Loses
<1>8. CASE faults' = faults + 1 /\ acctFile' = acctFile
  <2>1. Unsaved' \in SUBSET (Unsaved \cup {box[w]}) BY <1>1, <1>2, <1>8 DEF Unsaved, Saved
  <2>2. Unnoted \in SUBSET Boxes /\ Unsaved \in SUBSET Boxes BY DEF Unnoted, Unsaved
  <2>3. Cardinality(Unsaved') <= Cardinality(Unsaved) + 1 BY <1>2, <2>1, <2>2, LosesOne
  <2>4. Cardinality(Unnoted') <= Cardinality(Unnoted) BY <1>6, <2>2, BoxSets
  <2>5. /\ Cardinality(Unnoted) \in Nat /\ Cardinality(Unsaved) \in Nat
        /\ Cardinality(Unnoted') \in Nat /\ Cardinality(Unsaved') \in Nat
    BY <1>2, <1>6, <2>1, <2>2, BoxSets
  <2>6. Cardinality(Unnoted) + Cardinality(Unsaved) <= faults BY DEF IInv, WritesLost
  <2>7. Cardinality(Unnoted') + Cardinality(Unsaved') <= faults'
    BY <1>3, <1>8, <2>3, <2>4, <2>5, <2>6
  <2> QED BY <1>5, <2>7 DEF WritesLost
<1> QED BY <1>7, <1>8

\* The steps of an attempt that end it, and those on its mailbox and account.
LEMMA OtherSteps ==
  ASSUME IInv, NEW w \in Workers,
         \/ Cancelled(w) \/ GiveUp(w) \/ NewMailbox(w) \/ CodeFails(w) \/ ChangeMailbox(w)
         \/ FillProfileNative(w) \/ LoseBrowser(w) \/ StuckOnFinal(w) \/ Mint(w) \/ Place(w)
         \/ Push(w)
  PROVE  Moves(w) /\ Loses
<1> USE DEF attempt, browser
<1>0. /\ at \in [Workers -> Stages \cup Outcomes \cup LoopSteps] /\ page \in [Workers -> Pages]
      /\ up \in [Workers -> BOOLEAN] /\ box \in [Workers -> {None} \cup Boxes]
      /\ dir \in [Boxes -> Directories] /\ held \subseteq Boxes /\ unheard \subseteq Boxes
      /\ faults \in 0..MaxFaults /\ MaxFaults \in Nat /\ made \subseteq Boxes
      /\ tries \in [Workers -> 1..MailTries] /\ MailTries \in Nat
  BY SignupConstants DEF IInv, TypeOK, SignupTypeOK
<1>00. {"won", "failed", "retry", "cancelled"} \subseteq Outcomes /\ faults \in faults..MaxFaults
  BY <1>0 DEF Outcomes
<1>000. /\ faults <= faults
        /\ "email" \in Stages /\ "open" \in Stages /\ "change" \in Stages /\ "push" \in Stages
        /\ "profile" \in Stages
  <2>1. faults <= faults BY <1>0
  <2> QED BY <2>1 DEF Stages
<1>1. ASSUME Cancelled(w) PROVE Moves(w) /\ Loses
  <2>1. at[w] \in Stages BY <1>1 DEF Cancelled, Cancellable, Stages
  <2> QED BY <1>0, <1>00, <1>1, <2>1, LeaveMoves DEF Cancelled
<1>2. ASSUME GiveUp(w) PROVE Moves(w) /\ Loses
  <2>1. at[w] \in Stages BY <1>2 DEF GiveUp, GivesUp, Stages
  <2> QED BY <1>0, <1>00, <1>2, <2>1, LeaveMoves DEF GiveUp
<1>3. ASSUME NewMailbox(w) PROVE Moves(w) /\ Loses
  <2>1. /\ at[w] = "mailbox" /\ at' = [at EXCEPT ![w] = "email"] BY <1>3 DEF NewMailbox, Goto
  <2>2. used' \in 0..MaxBoxes /\ used + 1 \in Boxes
    BY <1>3, SignupConstants DEF NewMailbox, Boxes, IInv, TypeOK, SignupTypeOK
  <2>3. SignupTypeOK' BY <1>0, <1>3, <2>2 DEF NewMailbox, IInv, TypeOK, SignupTypeOK, files
  <2>4. \A v \in Workers : HasBox(v)' /\ MayChange(v)'
    BY <1>0, <1>3, <2>1, <2>2 DEF NewMailbox, IInv, HasBox, MayChange, Stages, Outcomes, Boxless
  <2>5. Loses BY <1>0, <1>3, <2>1 DEF NewMailbox, Loses, Unnoted, Unsaved, Noted, Saved, files
  <2>6. at[w] \in Stages BY <2>1 DEF Stages
  <2>7. \E s \in Stages \cup Outcomes : at' = [at EXCEPT ![w] = s] /\ (s = "cancelled" => stop)
    BY <1>000, <2>1, ToStage
  <2> QED BY <1>000, <1>3, <2>3, <2>4, <2>5, <2>6, <2>7 DEF NewMailbox, Moves
<1>4. ASSUME CodeFails(w) PROVE Moves(w) /\ Loses
  <2>1. at[w] \in {"poll", "type"} /\ at[w] \in Stages BY <1>4 DEF CodeFails, Stages
  <2>2. CASE tries[w] < MailTries
    <3>1. at' = [at EXCEPT ![w] = "change"] /\ UNCHANGED <<attempt, browser, used, stop, files, made, dir, held, unheard, faults>>
      BY <1>4, <2>2 DEF CodeFails, Goto
    <3>2. SignupTypeOK' BY <1>0, <3>1 DEF IInv, TypeOK, SignupTypeOK, files
    <3>3. \A v \in Workers : HasBox(v)' /\ MayChange(v)'
      BY <1>0, <2>1, <2>2, <3>1 DEF IInv, HasBox, MayChange, Stages, Outcomes, Boxless
    <3>4. Loses BY <1>0, <2>1, <3>1 DEF Loses, Unnoted, Unsaved, Noted, Saved, files
    <3>5. \E s \in Stages \cup Outcomes : at' = [at EXCEPT ![w] = s] /\ (s = "cancelled" => stop)
      BY <1>000, <3>1, ToStage
    <3> QED BY <1>000, <2>1, <3>1, <3>2, <3>3, <3>4, <3>5 DEF Moves
  <2>3. CASE ~ (tries[w] < MailTries)
    <3>1. Leave(w, "failed") BY <1>4, <2>3 DEF CodeFails
    <3> QED BY <1>0, <1>00, <1>4, <2>1, <3>1, LeaveMoves DEF CodeFails
  <2> QED BY <2>2, <2>3
<1>5. ASSUME ChangeMailbox(w) PROVE Moves(w) /\ Loses
  <2>1. at[w] = "change" /\ at[w] \in Stages /\ tries[w] < MailTries
    BY <1>5 DEF ChangeMailbox, Stages, IInv, MayChange
  <2>2. CASE /\ Restart(w, TRUE) /\ Goto(w, "open")
             /\ tries' = [tries EXCEPT ![w] = @ + 1] /\ box' = [box EXCEPT ![w] = None]
             /\ letters' = [letters EXCEPT ![w] = NoLetters] /\ UNCHANGED <<gated, talks, faults>>
    <3>1. tries' \in [Workers -> 1..MailTries] BY <1>0, <2>1, <2>2
    <3>2. letters' \in [Workers -> [Letters -> {Unsent, OnTheWay} \cup 0..Looks]]
      BY <2>2 DEF IInv, TypeOK, SignupTypeOK, NoLetters
    <3>3. page' \in [Workers -> Pages] /\ up' \in [Workers -> BOOLEAN]
      BY <1>0, <2>2 DEF Restart, Pages
    <3>4. box' \in [Workers -> {None} \cup Boxes] BY <1>0, <2>2
    <3>5. SignupTypeOK'
      BY <1>5, <2>2, <3>1, <3>2, <3>3, <3>4 DEF ChangeMailbox, IInv, TypeOK, SignupTypeOK, files
    <3>6. \A v \in Workers : HasBox(v)' /\ MayChange(v)'
      BY <1>0, <2>1, <2>2 DEF Goto, IInv, HasBox, MayChange, Stages, Outcomes, Boxless
    <3>7. Loses
      BY <1>0, <1>5, <2>1, <2>2 DEF ChangeMailbox, Goto, Loses, Unnoted, Unsaved, Noted, Saved, files
    <3>8. \E s \in Stages \cup Outcomes : at' = [at EXCEPT ![w] = s] /\ (s = "cancelled" => stop)
      BY <1>000, <2>2, ToStage DEF Goto
    <3> QED BY <1>000, <1>5, <2>1, <2>2, <3>5, <3>6, <3>7, <3>8 DEF ChangeMailbox, Moves
  <2>3. CASE Fault /\ up' = [up EXCEPT ![w] = FALSE] /\ Leave(w, "failed")
    <3>1. faults' \in faults..MaxFaults /\ up' \in [Workers -> BOOLEAN] BY <1>0, <2>3 DEF Fault
    <3> QED BY <1>0, <1>00, <1>5, <2>1, <2>3, <3>1, LeaveMoves DEF ChangeMailbox
  <2> QED BY <1>5, <2>2, <2>3 DEF ChangeMailbox
<1>6. ASSUME FillProfileNative(w) PROVE Moves(w) /\ Loses
  <2>1. at[w] = "profile" /\ at[w] \in Stages BY <1>6 DEF FillProfileNative, Stages
  <2>2. CASE Goto(w, "final") /\ Show(w, "final") /\ UNCHANGED made
    BY <1>0, <1>6, <2>1, <2>2, PageMoves
       DEF FillProfileNative, Goto, Show, Stages, Pages, Boxless, Noted, Saved
  <2>3. CASE Take(w) /\ UNCHANGED <<at, browser>>
    <3>1. box[w] \in Boxes BY <2>1 DEF IInv, HasBox, Stages, Boxless
    <3>2. SignupTypeOK'
      BY <1>6, <2>3, <3>1 DEF FillProfileNative, Take, IInv, TypeOK, SignupTypeOK, files
    <3>3. \A v \in Workers : HasBox(v)' /\ MayChange(v)'
      BY <1>6, <2>3 DEF FillProfileNative, IInv, HasBox, MayChange
    <3>4. Loses
      BY <1>6, <2>1, <2>3 DEF FillProfileNative, Take, Loses, Unnoted, Unsaved, Noted, files
    <3>5. at' = [at EXCEPT ![w] = at[w]] /\ at[w] # "cancelled" BY <1>0, <2>1, <2>3
    <3> QED BY <1>000, <1>6, <2>1, <3>2, <3>3, <3>4, <3>5 DEF FillProfileNative, Moves
  <2> QED BY <1>6, <2>2, <2>3 DEF FillProfileNative
<1>7. ASSUME LoseBrowser(w) PROVE Moves(w) /\ Loses
  <2>1. at[w] = "final" /\ at[w] \in Stages /\ at' = [at EXCEPT ![w] = at[w]]
    BY <1>0, <1>7 DEF LoseBrowser, Stages
  <2>2. page' \in [Workers -> Pages] /\ up' \in [Workers -> BOOLEAN]
    BY <1>0, <1>7 DEF LoseBrowser, Restart, Pages
  <2>3. faults' \in 0..MaxFaults /\ faults <= faults' BY <1>0, <1>7 DEF LoseBrowser, Fault
  <2>4. SignupTypeOK'
    BY <1>7, <2>2, <2>3 DEF LoseBrowser, IInv, TypeOK, SignupTypeOK, files
  <2>5. \A v \in Workers : HasBox(v)' /\ MayChange(v)'
    BY <1>7 DEF LoseBrowser, IInv, HasBox, MayChange
  <2>6. Loses BY <1>7 DEF LoseBrowser, Loses, Unnoted, Unsaved, files
  <2> QED BY <1>7, <2>1, <2>3, <2>4, <2>5, <2>6 DEF LoseBrowser, Moves
<1>8. ASSUME StuckOnFinal(w) PROVE Moves(w) /\ Loses
  <2>1. at[w] \in Stages BY <1>8 DEF StuckOnFinal, Stages
  <2> QED BY <1>0, <1>00, <1>8, <2>1, LeaveMoves DEF StuckOnFinal
<1>9. ASSUME Mint(w) PROVE Moves(w) /\ Loses
  BY <1>0, <1>9, PageMoves DEF Mint, Goto, Stages, Pages, Boxless, Noted, Saved
<1>10. ASSUME Place(w) PROVE Moves(w) /\ Loses
  <2>1. at[w] = "place" /\ at[w] \in Stages BY <1>10 DEF Place, Stages
  <2>2. box[w] \in Boxes BY <2>1 DEF IInv, HasBox, Stages, Boxless
  <2>3. PICK d \in Directories :
             /\ dir' = [dir EXCEPT ![box[w]] = d]
             /\ IF d # "verified" THEN Leave(w, "failed")
                ELSE IF Server THEN Goto(w, "push") /\ UNCHANGED <<attempt, page>>
                ELSE Leave(w, "won")
    BY <1>10 DEF Place
  <2>4. dir' \in [Boxes -> Directories] BY <1>0, <2>3
  <2>5. Unsaved' \subseteq Unsaved
    <3>1. PICK s \in {"push", "failed", "won"} : at' = [at EXCEPT ![w] = s]
      BY <2>3 DEF Goto, Leave
    <3>2. \A v \in Workers : box'[v] = box[v] \/ v = w
      BY <1>0, <2>3 DEF Leave
    <3>3. acctFile' = acctFile BY <1>10 DEF Place, files
    <3>4. box[w] \in Unsaved \/ box[w] \in acctFile BY <2>1, <2>2 DEF Unsaved, Saved
    <3>5. \A b \in Boxes \ {box[w]} : dir'[b] = dir[b] BY <1>0, <2>3
    <3>6. \A v \in Workers : at'[v] \in Saved => v # w /\ at[v] \in Saved /\ box'[v] = box[v]
      BY <1>0, <3>1, <3>2 DEF Saved
    <3> QED BY <3>3, <3>4, <3>5, <3>6 DEF Unsaved
  <2>6. CASE Leave(w, "failed") \/ Leave(w, "won")
    <3>1. Moves(w) /\ Unnoted' \subseteq Unnoted
      BY <1>0, <1>00, <1>10, <2>1, <2>2, <2>4, <2>6, LeaveMoves DEF Place
    <3> QED BY <2>5, <3>1 DEF Loses
  <2>7. CASE Goto(w, "push") /\ UNCHANGED <<attempt, page>>
    <3>1. SignupTypeOK' BY <1>10, <2>4, <2>7 DEF Place, IInv, TypeOK, SignupTypeOK, files
    <3>2. \A v \in Workers : HasBox(v)' /\ MayChange(v)'
      BY <1>0, <1>10, <2>2, <2>7 DEF Place, Goto, IInv, HasBox, MayChange, Stages, Outcomes, Boxless
    <3>3. Unnoted' \subseteq Unnoted BY <1>0, <1>10, <2>7 DEF Place, Goto, Unnoted, Noted, files
    <3>4. \E s \in Stages \cup Outcomes : at' = [at EXCEPT ![w] = s] /\ (s = "cancelled" => stop)
      BY <1>000, <2>7, ToStage DEF Goto
    <3> QED BY <1>000, <1>10, <2>1, <2>5, <2>7, <3>1, <3>2, <3>3, <3>4 DEF Place, Loses, Moves
  <2> QED BY <2>3, <2>6, <2>7
<1>11. ASSUME Push(w) PROVE Moves(w) /\ Loses
  <2>1. at[w] = "push" /\ at[w] \in Stages BY <1>11 DEF Push, Stages
  <2>2. box[w] \in Boxes BY <2>1 DEF IInv, HasBox, Stages, Boxless
  <2>3. held' \subseteq Boxes /\ unheard' \subseteq Boxes /\ faults' \in faults..MaxFaults
    BY <1>0, <1>11, <2>2 DEF Push, Created, Fault
  <2>4. Leave(w, "won") \/ Leave(w, "failed") BY <1>11 DEF Push
  <2> QED BY <1>0, <1>00, <1>11, <2>1, <2>2, <2>3, <2>4, LeaveMoves DEF Push
<1> QED BY <1>1, <1>2, <1>3, <1>4, <1>5, <1>6, <1>7, <1>8, <1>9, <1>10, <1>11

\* Every step of an attempt.
LEMMA SignupStepMoves ==
  ASSUME IInv, NEW w \in Workers, SignupStep(w)
  PROVE  Moves(w) /\ WritesLost'
<1>1. ASSUME Moves(w), Loses PROVE WritesLost'
  BY <1>1, LosesNothing, SignupConstants DEF Moves, SignupTypeOK
<1> QED BY <1>1, PageSteps, LocalSteps, OtherSteps, NoteMailboxMoves, SaveAccountMoves DEF SignupStep

\* A step of the site moves no attempt.
LEMMA SiteStepMoves ==
  ASSUME IInv, NEW w \in Workers, SiteStep(w)
  PROVE  /\ UNCHANGED <<at, stop, faults>> /\ SignupTypeOK'
         /\ \A v \in Workers : HasBox(v)' /\ MayChange(v)'
         /\ WritesLost'
<1> USE DEF attempt, browser, files
<1>1. faults' = faults => faults <= faults' /\ faults' \in Nat
  BY SignupConstants DEF IInv, TypeOK, SignupTypeOK
<1>2. ASSUME UNCHANGED <<at, box, tries>> PROVE \A v \in Workers : HasBox(v)' /\ MayChange(v)'
  BY <1>2 DEF IInv, HasBox, MayChange
<1>3. CASE Deliver(w)
  <2>1. letters' \in [Workers -> [Letters -> {Unsent, OnTheWay} \cup 0..Looks]]
    BY <1>3, LetterType
  <2>2. SignupTypeOK' BY <1>3, <2>1 DEF Deliver, IInv, TypeOK, SignupTypeOK
  <2>3. Loses BY <1>3 DEF Deliver, Loses, Unnoted, Unsaved
  <2> QED BY <1>1, <1>2, <1>3, <2>2, <2>3, LosesNothing DEF Deliver
<1>4. CASE SiteSignsIn(w)
  <2>1. at[w] = "final" /\ box[w] \in Boxes
    BY <1>4 DEF SiteSignsIn, IInv, HasBox, Stages, Boxless
  <2>2. SignupTypeOK'
    BY <1>4, <2>1 DEF SiteSignsIn, Take, Show, Pages, IInv, TypeOK, SignupTypeOK
  <2>3. Loses BY <1>4, <2>1 DEF SiteSignsIn, Take, Loses, Unnoted, Unsaved, Noted
  <2> QED BY <1>1, <1>2, <1>4, <2>2, <2>3, LosesNothing DEF SiteSignsIn
<1>5. CASE GateReturns(w)
  <2>1. SignupTypeOK' BY <1>5 DEF GateReturns, Ungate, IInv, TypeOK, SignupTypeOK
  <2>2. Loses BY <1>5 DEF GateReturns, Ungate, Loses, Unnoted, Unsaved
  <2> QED BY <1>1, <1>2, <1>5, <2>1, <2>2, LosesNothing DEF GateReturns, Ungate
<1> QED BY <1>3, <1>4, <1>5 DEF SiteStep

-----------------------------------------------------------------------------
(* The workers' slots.                                                     *)

\* Sets of workers are finite.
LEMMA WorkerSets ==
  \A S \in SUBSET Workers : /\ IsFiniteSet(S) /\ Cardinality(S) \in Nat
                            /\ Cardinality(S) <= Cardinality(Workers)
<1>1. \A S \in SUBSET Workers : IsFiniteSet(S) BY SignupConstants, FS_Subset
<1>2. \A S \in SUBSET Workers : Cardinality(S) \in Nat BY <1>1, FS_CardinalityType
<1>3. \A S \in SUBSET Workers : Cardinality(S) <= Cardinality(Workers)
  BY SignupConstants, FS_Subset
<1> QED BY <1>1, <1>2, <1>3

\* How the sets of those that hold a slot, and of those that are gone as well,
\* change when a worker goes from one place to another.
LEMMA HoldingMoves ==
  ASSUME IInv, NEW w \in Workers, NEW s, at' = [at EXCEPT ![w] = s]
  PROVE  /\ Cardinality(Holding)' \in Nat /\ Cardinality(Holding)' <= Cardinality(Workers)
         /\ Cardinality(Holding)' = IF s \in SlotSteps
              THEN IF at[w] \in SlotSteps THEN Cardinality(Holding) ELSE Cardinality(Holding) + 1
              ELSE IF at[w] \in SlotSteps THEN Cardinality(Holding) - 1 ELSE Cardinality(Holding)
         /\ Cardinality(Holding \cup Gone)' \in Nat
         /\ Cardinality(Holding \cup Gone)' = IF s \in SlotSteps \cup LastSteps
              THEN IF at[w] \in SlotSteps \cup LastSteps THEN Cardinality(Holding \cup Gone)
                   ELSE Cardinality(Holding \cup Gone) + 1
              ELSE IF at[w] \in SlotSteps \cup LastSteps THEN Cardinality(Holding \cup Gone) - 1
                   ELSE Cardinality(Holding \cup Gone)
<1>1. at \in [Workers -> Stages \cup Outcomes \cup LoopSteps] BY DEF IInv, TypeOK
<1>2. Holding' = IF s \in SlotSteps THEN Holding \cup {w} ELSE Holding \ {w}
  BY <1>1 DEF Holding
<1>3. (Holding \cup Gone)' = IF s \in SlotSteps \cup LastSteps
                             THEN (Holding \cup Gone) \cup {w} ELSE (Holding \cup Gone) \ {w}
  BY <1>1 DEF Holding, Gone
<1>4. /\ Holding \in SUBSET Workers /\ (Holding \cup Gone) \in SUBSET Workers
      /\ Holding' \in SUBSET Workers /\ (Holding \cup Gone)' \in SUBSET Workers
  BY DEF Holding, Gone
<1>5. w \in Holding <=> at[w] \in SlotSteps BY DEF Holding
<1>6. w \in Holding \cup Gone <=> at[w] \in SlotSteps \cup LastSteps BY DEF Holding, Gone
<1>7. /\ Cardinality(Holding \cup {w}) = IF w \in Holding THEN Cardinality(Holding)
                                         ELSE Cardinality(Holding) + 1
      /\ Cardinality(Holding \ {w}) = IF w \in Holding THEN Cardinality(Holding) - 1
                                      ELSE Cardinality(Holding)
  BY <1>4, WorkerSets, FS_AddElement, FS_RemoveElement
<1>8. /\ Cardinality((Holding \cup Gone) \cup {w}) =
           IF w \in Holding \cup Gone THEN Cardinality(Holding \cup Gone)
           ELSE Cardinality(Holding \cup Gone) + 1
      /\ Cardinality((Holding \cup Gone) \ {w}) =
           IF w \in Holding \cup Gone THEN Cardinality(Holding \cup Gone) - 1
           ELSE Cardinality(Holding \cup Gone)
  BY <1>4, WorkerSets, FS_AddElement, FS_RemoveElement
<1>9. /\ Cardinality(Holding') \in Nat /\ Cardinality(Holding') <= Cardinality(Workers)
      /\ Cardinality((Holding \cup Gone)') \in Nat
  BY <1>4, WorkerSets
<1>10. Cardinality(Holding') = IF s \in SlotSteps
              THEN IF at[w] \in SlotSteps THEN Cardinality(Holding) ELSE Cardinality(Holding) + 1
              ELSE IF at[w] \in SlotSteps THEN Cardinality(Holding) - 1 ELSE Cardinality(Holding)
  BY <1>2, <1>5, <1>7
<1>11. Cardinality((Holding \cup Gone)') = IF s \in SlotSteps \cup LastSteps
              THEN IF at[w] \in SlotSteps \cup LastSteps THEN Cardinality(Holding \cup Gone)
                   ELSE Cardinality(Holding \cup Gone) + 1
              ELSE IF at[w] \in SlotSteps \cup LastSteps THEN Cardinality(Holding \cup Gone) - 1
                   ELSE Cardinality(Holding \cup Gone)
  BY <1>3, <1>6, <1>8
<1> QED BY <1>9, <1>10, <1>11

\* The numbers the counts are about.
LEMMA Numbers ==
  ASSUME IInv
  PROVE  /\ issued \in Nat /\ successes \in Nat /\ failures \in Nat
         /\ Cardinality(Holding) \in Nat /\ Cardinality(Holding \cup Gone) \in Nat
         /\ Cardinality(Holding) <= Cardinality(Workers)
         /\ Cardinality(Holding \cup Gone) <= Cardinality(Workers)
         /\ Cardinality(Workers) \in Nat /\ Count \in Nat /\ Target \in Nat
<1>1. Holding \in SUBSET Workers /\ (Holding \cup Gone) \in SUBSET Workers BY DEF Holding, Gone
<1>2. Workers \in SUBSET Workers OBVIOUS
<1>3. /\ Cardinality(Holding) \in Nat /\ Cardinality(Holding \cup Gone) \in Nat
      /\ Cardinality(Holding) <= Cardinality(Workers)
      /\ Cardinality(Holding \cup Gone) <= Cardinality(Workers) /\ Cardinality(Workers) \in Nat
  BY <1>1, <1>2, WorkerSets
<1>4. /\ issued \in Nat /\ successes \in Nat /\ failures \in Nat /\ Count \in Nat /\ Target \in Nat
  BY ClientConstants DEF IInv, TypeOK
<1> QED BY <1>3, <1>4

\* A worker goes on with the slot it has, or without one as before.
LEMMA SlotKept ==
  ASSUME IInv, NEW w \in Workers, NEW s, at' = [at EXCEPT ![w] = s],
         at[w] \in SlotSteps <=> s \in SlotSteps,
         at[w] \in LastSteps => s \in LastSteps,
         UNCHANGED counters, main' # "dead" => main # "dead", ~stop' => ~stop,
         faults <= faults', faults' \in Nat
  PROVE  SlotsHeld' /\ TargetAhead'
<1>1. /\ Cardinality(Holding)' = Cardinality(Holding) /\ Cardinality(Holding)' \in Nat
      /\ Cardinality(Holding \cup Gone) <= Cardinality(Holding \cup Gone)'
      /\ Cardinality(Holding \cup Gone)' \in Nat
  <2>1. at[w] \in SlotSteps \cup LastSteps => s \in SlotSteps \cup LastSteps OBVIOUS
  <2>2. Cardinality(Holding \cup Gone) \in Nat /\ Cardinality(Holding) \in Nat BY Numbers
  <2>3. Cardinality(Holding)' = Cardinality(Holding) /\ Cardinality(Holding)' \in Nat
    BY HoldingMoves
  <2>4. /\ Cardinality(Holding \cup Gone)' \in Nat
        /\ \/ Cardinality(Holding \cup Gone)' = Cardinality(Holding \cup Gone)
           \/ Cardinality(Holding \cup Gone)' = Cardinality(Holding \cup Gone) + 1
    BY <2>1, HoldingMoves
  <2> QED BY <2>2, <2>3, <2>4
<1>2. faults \in Nat BY SignupConstants DEF IInv, TypeOK, SignupTypeOK
<1>3. UNCHANGED <<issued, successes, failures>> BY DEF counters
<1>4. SlotsHeld' BY <1>1, <1>2, <1>3, Numbers DEF IInv, SlotsHeld
<1>5. TargetAhead' BY <1>1, <1>3 DEF IInv, TargetAhead
<1> QED BY <1>4, <1>5

\* A worker loses its slot: it was cancelled, or its browser does not start.
LEMMA SlotLost ==
  ASSUME IInv, NEW w \in Workers, NEW s \in LastSteps, at' = [at EXCEPT ![w] = s],
         at[w] \in SlotSteps, UNCHANGED counters,
         stop' \/ (faults' = faults + 1)
  PROVE  SlotsHeld' /\ TargetAhead'
<1>1. s \notin SlotSteps BY DEF SlotSteps, Stages, LastSteps
<1>2. /\ Cardinality(Holding)' = Cardinality(Holding) - 1 /\ Cardinality(Holding)' \in Nat
      /\ Cardinality(Holding \cup Gone)' = Cardinality(Holding \cup Gone)
  BY <1>1, HoldingMoves
<1>3. UNCHANGED <<issued, successes, failures>> BY DEF counters
<1>4. faults \in Nat BY SignupConstants DEF IInv, TypeOK, SignupTypeOK
<1>5. SlotsHeld' BY <1>2, <1>3, <1>4, Numbers DEF IInv, SlotsHeld
<1>6. TargetAhead' BY <1>2, <1>3, Numbers DEF IInv, TargetAhead
<1> QED BY <1>5, <1>6

\* A worker counts its slot.
LEMMA SlotCounted ==
  ASSUME IInv, NEW w \in Workers, at' = [at EXCEPT ![w] = "restart"], at[w] \in SlotSteps,
         \/ successes' = successes + 1 /\ failures' = failures
         \/ failures' = failures + 1 /\ successes' = successes,
         issued' = issued, main' = main, stop' = stop, faults <= faults', faults' \in Nat
  PROVE  SlotsHeld' /\ TargetAhead' /\ successes' \in 0..Count /\ failures' \in 0..Count
<1>1. "restart" \notin SlotSteps /\ "restart" \notin LastSteps
  BY DEF SlotSteps, Stages, LastSteps
<1>2. /\ Cardinality(Holding)' = Cardinality(Holding) - 1 /\ Cardinality(Holding)' \in Nat
      /\ Cardinality(Holding \cup Gone)' = Cardinality(Holding \cup Gone) - 1
      /\ Cardinality(Holding \cup Gone)' \in Nat
  BY <1>1, HoldingMoves
<1>3. faults \in Nat /\ issued <= Count
  BY SignupConstants, ClientConstants DEF IInv, TypeOK, SignupTypeOK
<1>4. SlotsHeld' BY <1>2, <1>3, Numbers DEF IInv, SlotsHeld
<1>5. TargetAhead' BY <1>2, <1>3, Numbers DEF IInv, TargetAhead
<1>6. successes' \in 0..Count /\ failures' \in 0..Count
  BY <1>2, <1>3, <1>4, Numbers DEF SlotsHeld
<1> QED BY <1>4, <1>5, <1>6

-----------------------------------------------------------------------------
(* Steps of a worker.                                                      *)

\* A worker that is not off shows that there is no summary yet.
LEMMA SummedKept ==
  ASSUME IInv, NEW w \in Workers, at[w] # "off", UNCHANGED main
  PROVE  Summed' /\ main \notin {"report", "done"}
BY DEF IInv, Summed

\* A step of an attempt.
LEMMA SignupIInv ==
  ASSUME IInv, NEW w \in Workers, SignupStep(w), UNCHANGED clientVars
  PROVE  IInv'
<1>1. Moves(w) /\ WritesLost' BY SignupStepMoves
<1>2. PICK s \in Stages \cup Outcomes : at' = [at EXCEPT ![w] = s] /\ (s = "cancelled" => stop)
  BY <1>1 DEF Moves
<1>3. at[w] \in SlotSteps /\ at[w] \notin LastSteps /\ at[w] # "off"
  BY <1>1 DEF Moves, SlotSteps, LastSteps, Stages
<1>4. UNCHANGED <<counters, retries, records, main, summary, interrupts>> BY DEF clientVars
<1>5. /\ SignupTypeOK' /\ stop' = stop /\ faults <= faults' /\ faults' \in Nat
      /\ \A v \in Workers : HasBox(v)' /\ MayChange(v)'
  BY <1>1, SignupConstants DEF Moves, SignupTypeOK
<1>6. TypeOK' BY <1>2, <1>4, <1>5 DEF IInv, TypeOK, counters
<1>7. SlotsHeld' /\ TargetAhead'
  <2>1. CASE s = "cancelled"
    <3>1. s \in LastSteps BY <2>1 DEF LastSteps
    <3> QED BY <1>2, <1>3, <1>4, <1>5, <2>1, <3>1, SlotLost
  <2>2. CASE s # "cancelled"
    <3>1. s \in SlotSteps BY <1>2, <2>2 DEF SlotSteps, Outcomes
    <3> QED BY <1>2, <1>3, <1>4, <1>5, <3>1, SlotKept
  <2> QED BY <2>1, <2>2
<1>8. Summed' BY <1>3, <1>4, SummedKept
<1> QED BY <1>1, <1>5, <1>6, <1>7, <1>8 DEF IInv

\* A step of the worker outside its attempts.
LEMMA LoopKeeps ==
  ASSUME IInv, NEW w \in Workers, NEW s \in LoopSteps \cup {"open"},
         at[w] \in LoopSteps \cup Outcomes, at[w] # "off", at' = [at EXCEPT ![w] = s],
         box' \in {box, [box EXCEPT ![w] = None]},
         up' \in [Workers -> BOOLEAN], page' \in [Workers -> Pages], faults' \in faults..MaxFaults,
         UNCHANGED <<tries, letters, gated, talks, used, stop, files, made, dir, held, unheard,
                     main, summary>>
  PROVE  /\ SignupTypeOK' /\ at' \in [Workers -> Stages \cup Outcomes \cup LoopSteps]
         /\ \A v \in Workers : HasBox(v)' /\ MayChange(v)'
         /\ WritesLost' /\ Summed' /\ main \notin {"report", "done"}
         /\ faults' \in Nat /\ faults <= faults'
<1> USE DEF files
<1>1. /\ at \in [Workers -> Stages \cup Outcomes \cup LoopSteps]
      /\ box \in [Workers -> {None} \cup Boxes] /\ faults \in 0..MaxFaults /\ MaxFaults \in Nat
  BY SignupConstants DEF IInv, TypeOK, SignupTypeOK
<1>2. faults' \in 0..MaxFaults /\ faults <= faults' /\ faults' \in Nat BY <1>1
<1>3. box' \in [Workers -> {None} \cup Boxes] BY <1>1
<1>4. SignupTypeOK' BY <1>2, <1>3 DEF IInv, TypeOK, SignupTypeOK
<1>5. at' \in [Workers -> Stages \cup Outcomes \cup LoopSteps] BY <1>1 DEF Stages
<1>6. \A v \in Workers \ {w} : at'[v] = at[v] /\ box'[v] = box[v] BY <1>1
<1>7. at'[w] = s /\ s \notin (Stages \cup Outcomes) \ Boxless /\ s # "change"
      /\ s \notin Noted /\ s \notin Saved
  BY <1>1 DEF LoopSteps, Stages, Outcomes, Boxless, Noted, Saved
<1>8. \A v \in Workers : HasBox(v)' /\ MayChange(v)'
  <2>1. \A v \in Workers \ {w} : HasBox(v)' /\ MayChange(v)'
    BY <1>6 DEF IInv, HasBox, MayChange
  <2>2. HasBox(w)' /\ MayChange(w)' BY <1>7 DEF HasBox, MayChange
  <2> QED BY <2>1, <2>2
<1>9. Loses BY <1>6, <1>7 DEF Loses, Unnoted, Unsaved
<1> QED BY <1>2, <1>4, <1>5, <1>8, <1>9, LosesNothing, SummedKept

\* The worker starts.
LEMMA StartBrowserIInv ==
  ASSUME IInv, NEW w \in Workers, StartBrowser(w)
  PROVE  IInv'
<1> USE DEF StartBrowser, Goto, clientVars, attempt, browser
<1>1. PICK s \in {"claim", "off"} : at' = [at EXCEPT ![w] = s] OBVIOUS
<1>2. at[w] = "start" /\ s \in LoopSteps /\ at[w] \in LoopSteps BY <1>1 DEF LoopSteps
<1>3. up' \in [Workers -> BOOLEAN] /\ page' \in [Workers -> Pages] /\ faults' \in faults..MaxFaults
  <2>1. up' \in [Workers -> BOOLEAN] /\ page' \in [Workers -> Pages]
    BY DEF Restart, Pages, IInv, TypeOK, SignupTypeOK
  <2>2. faults \in 0..MaxFaults /\ MaxFaults \in Nat
    BY SignupConstants DEF IInv, TypeOK, SignupTypeOK
  <2>3. faults' = faults \/ (faults < MaxFaults /\ faults' = faults + 1) BY DEF Fault
  <2>4. faults' \in faults..MaxFaults BY <2>2, <2>3
  <2> QED BY <2>1, <2>4
<1>4. /\ SignupTypeOK' /\ at' \in [Workers -> Stages \cup Outcomes \cup LoopSteps]
      /\ \A v \in Workers : HasBox(v)' /\ MayChange(v)'
      /\ WritesLost' /\ Summed' /\ faults' \in Nat /\ faults <= faults'
  BY <1>1, <1>2, <1>3, LoopKeeps
<1>5. SlotsHeld' /\ TargetAhead'
  <2>1. at[w] \notin SlotSteps /\ at[w] \notin LastSteps /\ s \notin SlotSteps
    BY <1>1, <1>2 DEF SlotSteps, LastSteps, Stages
  <2> QED BY <1>1, <1>4, <2>1, SlotKept
<1>6. TypeOK' BY <1>4 DEF counters, IInv, TypeOK
<1> QED BY <1>4, <1>5, <1>6 DEF IInv

\* claim_slot.
LEMMA ClaimIInv ==
  ASSUME IInv, NEW w \in Workers, Claim(w)
  PROVE  IInv'
<1> USE DEF Claim, Goto, attempt, browser
<1>1. PICK s \in {"open", "ending"} : at' = [at EXCEPT ![w] = s] OBVIOUS
<1>2. at[w] = "claim" /\ s \in LoopSteps \cup {"open"} /\ at[w] \in LoopSteps
  BY <1>1 DEF LoopSteps
<1>3. up' \in [Workers -> BOOLEAN] /\ page' \in [Workers -> Pages] /\ faults' \in faults..MaxFaults
  BY SignupConstants DEF IInv, TypeOK, SignupTypeOK
<1>4. /\ SignupTypeOK' /\ at' \in [Workers -> Stages \cup Outcomes \cup LoopSteps]
      /\ \A v \in Workers : HasBox(v)' /\ MayChange(v)'
      /\ WritesLost' /\ Summed' /\ faults' \in Nat /\ faults <= faults'
  BY <1>1, <1>2, <1>3, LoopKeeps
<1>5. /\ at[w] \notin SlotSteps /\ at[w] \notin LastSteps /\ "open" \in SlotSteps
      /\ "ending" \notin SlotSteps
  BY <1>2 DEF SlotSteps, LastSteps, Stages
<1>6. CASE SlotFree
  <2>1. /\ at' = [at EXCEPT ![w] = "open"] /\ issued' = issued + 1
        /\ retries' = [retries EXCEPT ![w] = 0]
    BY <1>6
  <2>2. /\ Cardinality(Holding)' = Cardinality(Holding) + 1
        /\ Cardinality(Holding \cup Gone)' = Cardinality(Holding \cup Gone) + 1
        /\ Cardinality(Holding)' \in Nat /\ Cardinality(Holding)' <= Cardinality(Workers)
    BY <1>5, <2>1, HoldingMoves
  <2>3. issued' \in 0..Count /\ (Target > 0 => successes < Target)
    BY <1>6, <2>1, Numbers DEF SlotFree
  <2>4. UNCHANGED <<successes, failures, main, summary, stop, records, interrupts, faults>>
    OBVIOUS
  <2>5. SlotsHeld' BY <2>1, <2>2, <2>4, Numbers DEF IInv, SlotsHeld
  <2>6. TargetAhead' BY <2>2, <2>3, <2>4, Numbers DEF TargetAhead
  <2>7. TypeOK' BY <1>4, <2>1, <2>3, <2>4, ClientConstants DEF IInv, TypeOK
  <2> QED BY <1>4, <2>5, <2>6, <2>7 DEF IInv
<1>7. CASE ~SlotFree
  <2>1. at' = [at EXCEPT ![w] = "ending"] /\ UNCHANGED <<counters, retries, records, interrupts, main, summary, stop>>
    BY <1>7 DEF counters
  <2>2. SlotsHeld' /\ TargetAhead'
    <3> HIDE DEF Claim
    <3>1. PICK r \in {"ending"} : at' = [at EXCEPT ![w] = r] BY <2>1
    <3>2. (at[w] \in SlotSteps <=> r \in SlotSteps) /\ (at[w] \in LastSteps => r \in LastSteps)
      BY <1>5, <3>1
    <3> QED BY <1>4, <2>1, <3>1, <3>2, SlotKept
  <2>3. TypeOK' BY <1>4, <2>1 DEF IInv, TypeOK, counters
  <2> QED BY <1>4, <2>2, <2>3 DEF IInv
<1> QED BY <1>6, <1>7

\* The result of a slot.
LEMMA ResultIInv ==
  ASSUME IInv, NEW w \in Workers, Record(w) \/ CountSuccess(w) \/ CountFailure(w)
  PROVE  IInv'
<1> USE DEF Record, CountSuccess, CountFailure, Goto, attempt, browser
<1>1. /\ at[w] \in {"won", "count", "failed"} /\ at[w] \in LoopSteps \cup Outcomes
      /\ at[w] \in SlotSteps /\ at[w] \notin LastSteps
  BY DEF LoopSteps, Outcomes, SlotSteps, LastSteps
<1>2. PICK s \in {"count", "restart"} : at' = [at EXCEPT ![w] = s] OBVIOUS
<1>3. s \in LoopSteps BY <1>2 DEF LoopSteps
<1>4. /\ up' \in [Workers -> BOOLEAN] /\ page' \in [Workers -> Pages]
      /\ faults' \in faults..MaxFaults /\ box' \in {box, [box EXCEPT ![w] = None]}
  BY SignupConstants DEF Fault, IInv, TypeOK, SignupTypeOK
<1>5. /\ SignupTypeOK' /\ at' \in [Workers -> Stages \cup Outcomes \cup LoopSteps]
      /\ \A v \in Workers : HasBox(v)' /\ MayChange(v)'
      /\ WritesLost' /\ Summed' /\ faults' \in Nat /\ faults <= faults'
  BY <1>1, <1>2, <1>3, <1>4, LoopKeeps
<1>6. records' \subseteq Boxes
  <2>1. at[w] = "won" => box[w] \in Boxes BY DEF IInv, HasBox, Outcomes, Boxless
  <2> QED BY <2>1 DEF IInv, TypeOK
<1>7. SlotsHeld' /\ TargetAhead' /\ successes' \in 0..Count /\ failures' \in 0..Count
  <2>1. CASE UNCHANGED counters
    <3>1. PICK r \in {"count"} : at' = [at EXCEPT ![w] = r] BY <2>1, Numbers DEF counters
    <3>2. r \in SlotSteps BY <3>1 DEF SlotSteps
    <3>3. UNCHANGED <<main, stop>> OBVIOUS
    <3>4. SlotsHeld' /\ TargetAhead'
      <4> HIDE DEF Record, CountSuccess, CountFailure
      <4> QED BY <1>1, <1>5, <2>1, <3>1, <3>2, <3>3, SlotKept
    <3> QED BY <2>1, <3>4 DEF counters, IInv, TypeOK
  <2>2. CASE at' = [at EXCEPT ![w] = "restart"]
    <3>1. /\ \/ successes' = successes + 1 /\ failures' = failures
             \/ failures' = failures + 1 /\ successes' = successes
          /\ issued' = issued /\ main' = main /\ stop' = stop
      <4>1. at \in [Workers -> Stages \cup Outcomes \cup LoopSteps] BY DEF IInv, TypeOK
      <4>2. at'[w] = "restart" BY <2>2, <4>1
      <4>3. ~ (at' = [at EXCEPT ![w] = "count"]) BY <4>1, <4>2
      <4> QED BY <4>3
    <3> QED BY <1>1, <1>5, <2>2, <3>1, SlotCounted
  <2> QED BY <2>1, <2>2 DEF counters
<1>8. TypeOK' BY <1>5, <1>6, <1>7 DEF IInv, TypeOK
<1> QED BY <1>5, <1>7, <1>8 DEF IInv

\* AccountRetryNeeded.
LEMMA RetrySlotIInv ==
  ASSUME IInv, NEW w \in Workers, RetrySlot(w)
  PROVE  IInv'
<1> USE DEF RetrySlot, Goto, attempt, browser
<1>1. /\ at[w] = "retry" /\ at[w] \in LoopSteps \cup Outcomes
      /\ at[w] \in SlotSteps /\ at[w] \notin LastSteps
  BY DEF LoopSteps, Outcomes, SlotSteps, LastSteps
<1>2. PICK s \in {"open", "ending", "restart"} : at' = [at EXCEPT ![w] = s] OBVIOUS
<1>3. s \in LoopSteps \cup {"open"} BY <1>2 DEF LoopSteps
<1>4. /\ up' \in [Workers -> BOOLEAN] /\ page' \in [Workers -> Pages]
      /\ faults' \in faults..MaxFaults
  <2>1. up' \in [Workers -> BOOLEAN] /\ page' \in [Workers -> Pages]
    BY DEF Restart, Pages, IInv, TypeOK, SignupTypeOK
  <2>2. faults \in 0..MaxFaults /\ MaxFaults \in Nat
    BY SignupConstants DEF IInv, TypeOK, SignupTypeOK
  <2>3. faults' = faults \/ (faults < MaxFaults /\ faults' = faults + 1) BY DEF Fault
  <2>4. faults' \in faults..MaxFaults BY <2>2, <2>3
  <2> QED BY <2>1, <2>4
<1>5. /\ SignupTypeOK' /\ at' \in [Workers -> Stages \cup Outcomes \cup LoopSteps]
      /\ \A v \in Workers : HasBox(v)' /\ MayChange(v)'
      /\ WritesLost' /\ Summed' /\ faults' \in Nat /\ faults <= faults'
  BY <1>1, <1>2, <1>3, <1>4, LoopKeeps
<1>6. CASE /\ retries[w] < SlotRetries /\ retries' = [retries EXCEPT ![w] = @ + 1]
           /\ UNCHANGED failures
           /\ \/ Restart(w, TRUE) /\ Goto(w, "open") /\ UNCHANGED faults
              \/ Restart(w, FALSE) /\ Goto(w, "ending") /\ Fault
  <2>1. retries' \in [Workers -> 0..SlotRetries]
    <3>1. retries \in [Workers -> 0..SlotRetries] /\ retries[w] + 1 \in 0..SlotRetries
      BY <1>6, ClientConstants DEF IInv, TypeOK
    <3> QED BY <1>6, <3>1
  <2>2. UNCHANGED counters BY <1>6 DEF counters
  <2>3. CASE Goto(w, "open")
    <3>1. PICK r \in {"open"} : at' = [at EXCEPT ![w] = r] BY <2>3
    <3>2. r \in SlotSteps BY <3>1 DEF SlotSteps, Stages
    <3>3. SlotsHeld' /\ TargetAhead' BY <1>1, <1>5, <2>2, <3>1, <3>2, SlotKept
    <3>4. TypeOK' BY <1>5, <2>1, <2>2 DEF IInv, TypeOK, counters
    <3> QED BY <1>5, <3>3, <3>4 DEF IInv
  <2>4. CASE Goto(w, "ending") /\ Fault
    <3>1. PICK r \in {"ending"} : at' = [at EXCEPT ![w] = r] BY <2>4
    <3>2. r \in LastSteps BY <3>1 DEF LastSteps
    <3>3. SlotsHeld' /\ TargetAhead' BY <1>1, <2>2, <2>4, <3>1, <3>2, SlotLost DEF Fault
    <3>4. TypeOK' BY <1>5, <2>1, <2>2 DEF IInv, TypeOK, counters
    <3> QED BY <1>5, <3>3, <3>4 DEF IInv
  <2> QED BY <1>6, <2>3, <2>4
<1>7. CASE /\ retries[w] = SlotRetries /\ failures' = failures + 1 /\ Goto(w, "restart")
           /\ UNCHANGED <<retries, browser, faults>>
  <2>1. SlotsHeld' /\ TargetAhead' /\ successes' \in 0..Count /\ failures' \in 0..Count
    BY <1>1, <1>5, <1>7, SlotCounted
  <2>2. TypeOK' BY <1>5, <1>7, <2>1 DEF IInv, TypeOK
  <2> QED BY <1>5, <2>1, <2>2 DEF IInv
<1> QED BY <1>6, <1>7

\* Between two slots, and the end of the worker.
LEMMA BetweenIInv ==
  ASSUME IInv, NEW w \in Workers, NextSlot(w) \/ EndWorker(w)
  PROVE  IInv'
<1> USE DEF NextSlot, EndWorker, Goto, attempt, browser, clientVars
<1>1. at[w] \in {"restart", "ending", "cancelled"} /\ at[w] \in LoopSteps \cup Outcomes
  BY DEF LoopSteps, Outcomes
<1>2. PICK s \in {"claim", "ending", "off"} :
        at' = [at EXCEPT ![w] = s] /\ (at[w] # "restart" => s = "off")
  OBVIOUS
<1>3. s \in LoopSteps BY <1>2 DEF LoopSteps
<1>4. /\ up' \in [Workers -> BOOLEAN] /\ page' \in [Workers -> Pages]
      /\ faults' \in faults..MaxFaults
  <2>1. up' \in [Workers -> BOOLEAN] /\ page' \in [Workers -> Pages]
    BY DEF Restart, Pages, IInv, TypeOK, SignupTypeOK
  <2>2. faults \in 0..MaxFaults /\ MaxFaults \in Nat
    BY SignupConstants DEF IInv, TypeOK, SignupTypeOK
  <2>3. faults' = faults \/ (faults < MaxFaults /\ faults' = faults + 1) BY DEF Fault
  <2>4. faults' \in faults..MaxFaults BY <2>2, <2>3
  <2> QED BY <2>1, <2>4
<1>5. UNCHANGED <<counters, retries, records, interrupts, attempt, used, stop, files, made, dir,
                  held, unheard, main, summary>>
  OBVIOUS
<1> HIDE DEF NextSlot, EndWorker, Goto, browser, clientVars
<1>6. /\ SignupTypeOK' /\ at' \in [Workers -> Stages \cup Outcomes \cup LoopSteps]
      /\ \A v \in Workers : HasBox(v)' /\ MayChange(v)'
      /\ WritesLost' /\ Summed' /\ faults' \in Nat /\ faults <= faults'
  BY <1>1, <1>2, <1>3, <1>4, <1>5, LoopKeeps
<1>7. at[w] \notin SlotSteps /\ s \notin SlotSteps BY <1>1, <1>2 DEF SlotSteps, Stages
<1>8. at[w] \in LastSteps => s \in LastSteps
  <2>1. at[w] \in LastSteps => at[w] # "restart" BY DEF LastSteps
  <2> QED BY <1>2, <2>1 DEF LastSteps
<1>9. SlotsHeld' /\ TargetAhead' BY <1>2, <1>5, <1>6, <1>7, <1>8, SlotKept
<1>10. TypeOK' BY <1>5, <1>6 DEF IInv, TypeOK, counters
<1> QED BY <1>6, <1>9, <1>10 DEF IInv

-----------------------------------------------------------------------------
(* The main thread.                                                        *)

\* A worker thread is started.
LEMMA SpawnIInv ==
  ASSUME IInv, NEW w \in Workers, Spawn(w)
  PROVE  IInv'
<1> USE DEF Spawn, Goto, attempt, browser, files
<1>1. PICK s \in {"start"} : at' = [at EXCEPT ![w] = s] OBVIOUS
<1>2. /\ at \in [Workers -> Stages \cup Outcomes \cup LoopSteps] /\ at[w] = "unborn"
      /\ s = "start" /\ s \in LoopSteps
  BY DEF IInv, TypeOK, LoopSteps
<1>3. /\ at' \in [Workers -> Stages \cup Outcomes \cup LoopSteps] /\ SignupTypeOK'
      /\ main' \in {"spawn", "join"}
  BY <1>1, <1>2 DEF IInv, TypeOK, SignupTypeOK
<1>4. \A v \in Workers : HasBox(v)' /\ MayChange(v)'
  BY <1>1, <1>2 DEF IInv, HasBox, MayChange, Stages, Outcomes
<1>5. Loses BY <1>1, <1>2 DEF Loses, Unnoted, Unsaved, Noted, Saved
<1>6. faults' \in Nat /\ faults <= faults'
  BY SignupConstants DEF IInv, TypeOK, SignupTypeOK
<1>7. WritesLost' BY <1>5, <1>6, LosesNothing
<1>8. at[w] \notin SlotSteps /\ at[w] \notin LastSteps /\ s \notin SlotSteps
  BY <1>2 DEF SlotSteps, Stages, LastSteps
<1>9. SlotsHeld' /\ TargetAhead' BY <1>1, <1>3, <1>6, <1>8, SlotKept
<1>10. TypeOK' BY <1>3 DEF IInv, TypeOK, counters
<1>11. Summed' BY <1>3 DEF Summed
<1> QED BY <1>4, <1>7, <1>9, <1>10, <1>11 DEF IInv

\* The workers are joined, and the summary is written.
LEMMA ReportIInv ==
  ASSUME IInv, JoinAll \/ Report
  PROVE  IInv'
<1> USE DEF JoinAll, Report, signupVars, attempt, browser, files, counters
<1>1. SignupTypeOK' BY DEF IInv, TypeOK, SignupTypeOK
<1>2. TypeOK'
  <2>1. TargetReached \in BOOLEAN BY DEF TargetReached
  <2>2. summary' \in [attempted : 0..Count, successes : 0..Count, failures : 0..Count,
                      reached : BOOLEAN]
    BY <2>1 DEF IInv, TypeOK
  <2>3. /\ at' = at /\ UNCHANGED <<issued, successes, failures, retries, records, interrupts>>
        /\ main' \in {"report", "done"}
    OBVIOUS
  <2> QED BY <1>1, <2>2, <2>3 DEF IInv, TypeOK
<1>3. \A v \in Workers : HasBox(v)' /\ MayChange(v)' BY DEF IInv, HasBox, MayChange
<1>4. WritesLost' BY DEF IInv, WritesLost, Unnoted, Unsaved
<1>5. SlotsHeld' /\ TargetAhead' BY DEF IInv, SlotsHeld, TargetAhead, Holding, Gone
<1>6. Summed' BY DEF IInv, Summed
<1> QED BY <1>2, <1>3, <1>4, <1>5, <1>6 DEF IInv

\* A signal: the workers are told to stop, or the process ends.
LEMMA InterruptIInv ==
  ASSUME IInv, Interrupt, interrupts' \in 0..MaxInterrupts
  PROVE  IInv'
<1> USE DEF Interrupt, attempt, files, counters
<1>1. main \notin {"done", "dead"} /\ interrupts' \in 0..MaxInterrupts
  OBVIOUS
<1>2. CASE main = "join"
  <2>1. main' = "stopping" /\ stop' = TRUE /\ UNCHANGED <<at, attempt, page>> BY <1>2
  <2>2. SignupTypeOK' BY <2>1 DEF IInv, TypeOK, SignupTypeOK
  <2>3. TypeOK' BY <1>1, <2>1, <2>2 DEF IInv, TypeOK
  <2>4. \A v \in Workers : HasBox(v)' /\ MayChange(v)' BY <2>1 DEF IInv, HasBox, MayChange
  <2>5. WritesLost' BY <2>1 DEF IInv, WritesLost, Unnoted, Unsaved
  <2>6. SlotsHeld' /\ TargetAhead' BY <2>1 DEF IInv, SlotsHeld, TargetAhead, Holding, Gone
  <2>7. Summed' BY <2>1 DEF Summed
  <2> QED BY <2>3, <2>4, <2>5, <2>6, <2>7 DEF IInv
<1>3. CASE main # "join"
  <2>1. /\ main' = "dead" /\ NoAttempts /\ stop' = stop
        /\ at' = [w \in Workers |-> IF at[w] = "off" THEN "off" ELSE "dead"]
    BY <1>3
  <2>2. SignupTypeOK'
    <3>1. NoLetters \in [Letters -> {Unsent, OnTheWay} \cup 0..Looks] BY DEF NoLetters
    <3>2. 1 \in 1..MailTries /\ 0 \in 0..Canaries BY SignupConstants
    <3> QED BY <2>1, <3>1, <3>2 DEF NoAttempts, Pages, IInv, TypeOK, SignupTypeOK
  <2>3. TypeOK' BY <1>1, <2>1, <2>2 DEF IInv, TypeOK, LoopSteps
  <2>4. \A v \in Workers : HasBox(v)' /\ MayChange(v)'
    BY <2>1 DEF HasBox, MayChange, Stages, Outcomes
  <2>5. Loses BY <2>1 DEF Loses, Unnoted, Unsaved, Noted, Saved
  <2>6. faults' \in Nat /\ faults <= faults'
    BY SignupConstants DEF IInv, TypeOK, SignupTypeOK
  <2>7. WritesLost' BY <2>5, <2>6, LosesNothing
  <2>8. /\ Holding' = {} /\ (Holding \cup Gone)' = Workers
    BY <2>1 DEF Holding, Gone, SlotSteps, LastSteps, Stages
  <2>9. Cardinality(Holding)' = 0 /\ Cardinality(Holding \cup Gone)' = Cardinality(Workers)
    BY <2>8, FS_EmptySet
  <2>10. SlotsHeld' BY <2>1, <2>9, Numbers DEF IInv, SlotsHeld
  <2>11. TargetAhead' BY <2>9, Numbers DEF IInv, TargetAhead
  <2>12. Summed' BY <2>1 DEF Summed
  <2> QED BY <2>3, <2>4, <2>7, <2>10, <2>11, <2>12 DEF IInv
<1> QED BY <1>2, <1>3

-----------------------------------------------------------------------------
(* The theorems.                                                           *)

\* The initial states satisfy the inductive invariant.
LEMMA InitIInv == Init => IInv
<1> SUFFICES ASSUME Init PROVE IInv OBVIOUS
<1> USE DEF Init, SignupInit
<1>1. SignupTypeOK
  <2>1. NoLetters \in [Letters -> {Unsent, OnTheWay} \cup 0..Looks] BY DEF NoLetters
  <2>2. /\ 1 \in 1..MailTries /\ 0 \in 0..Canaries /\ 0 \in 0..MaxBoxes /\ 0 \in 0..MaxFaults
        /\ "none" \in Pages /\ "none" \in Directories
    BY SignupConstants DEF Pages, Directories
  <2> QED BY <2>1, <2>2 DEF SignupTypeOK
<1>2. TypeOK BY <1>1, ClientConstants DEF TypeOK, LoopSteps, NoSummary
<1>3. \A w \in Workers : HasBox(w) /\ MayChange(w)
  BY DEF HasBox, MayChange, Stages, Outcomes
<1>4. WritesLost
  <2>1. Unnoted = {} /\ Unsaved = {} BY DEF Unnoted, Unsaved, Noted, Saved
  <2> QED BY <2>1, FS_EmptySet DEF WritesLost
<1>5. SlotsHeld /\ TargetAhead
  <2>1. Holding = {} /\ Gone = {} BY DEF Holding, Gone, SlotSteps, LastSteps, Stages
  <2>2. Cardinality(Holding) = 0 /\ Cardinality(Holding \cup Gone) = 0 BY <2>1, FS_EmptySet
  <2>3. Cardinality(Workers) \in Nat BY SignupConstants, FS_CardinalityType
  <2> QED BY <2>2, <2>3, ClientConstants DEF SlotsHeld, TargetAhead
<1>6. Summed BY DEF Summed
<1> QED BY <1>2, <1>3, <1>4, <1>5, <1>6 DEF IInv

\* Every step keeps it.
LEMMA NextIInv == IInv /\ [Next]_vars => IInv'
<1> SUFFICES ASSUME IInv, [Next]_vars PROVE IInv' OBVIOUS
<1>1. ASSUME NEW w \in Workers, WorkerStep(w) PROVE IInv'
  BY <1>1, StartBrowserIInv, ClaimIInv, ResultIInv, RetrySlotIInv, BetweenIInv, SignupIInv
     DEF WorkerStep
<1>2. ASSUME NEW w \in Workers, SiteStep(w), UNCHANGED clientVars PROVE IInv'
  <2>1. /\ UNCHANGED <<at, stop, faults>> /\ SignupTypeOK' /\ WritesLost'
        /\ \A v \in Workers : HasBox(v)' /\ MayChange(v)'
    BY <1>2, SiteStepMoves
  <2>2. TypeOK' BY <1>2, <2>1 DEF IInv, TypeOK, clientVars, counters
  <2>3. SlotsHeld' /\ TargetAhead' /\ Summed'
    BY <1>2, <2>1 DEF IInv, SlotsHeld, TargetAhead, Summed, Holding, Gone, clientVars, counters
  <2> QED BY <2>1, <2>2, <2>3 DEF IInv
<1>3. CASE UNCHANGED vars
  <2> USE <1>3 DEF vars, signupVars, clientVars, attempt, browser, files, counters
  <2>1. SignupTypeOK' BY DEF IInv, TypeOK, SignupTypeOK
  <2>2. TypeOK' BY <2>1 DEF IInv, TypeOK
  <2>3. \A v \in Workers : HasBox(v)' /\ MayChange(v)' BY DEF IInv, HasBox, MayChange
  <2>4. WritesLost' BY DEF IInv, WritesLost, Unnoted, Unsaved
  <2>5. SlotsHeld' /\ TargetAhead' /\ Summed'
    BY DEF IInv, SlotsHeld, TargetAhead, Summed, Holding, Gone
  <2> QED BY <2>2, <2>3, <2>4, <2>5 DEF IInv
<1>4. CASE UserInterrupts
  <2>1. Interrupt /\ interrupts' \in 0..MaxInterrupts
    BY <1>4, ClientConstants DEF UserInterrupts, IInv, TypeOK
  <2> QED BY <2>1, InterruptIInv
<1> QED BY <1>1, <1>2, <1>3, <1>4, SpawnIInv, ReportIInv DEF Next, ClientStep

\* The parts of the inductive invariant hold in every reachable state.
THEOREM ClientInvariance == Spec => []IInv
<1> QED BY InitIInv, NextIInv, PTL DEF Spec

\* However many workers claim slots at once, the client exceeds its target by
\* no more than what the other workers had in flight.
THEOREM TargetBounded == Spec => []OvershootBounded
<1>1. IInv => OvershootBounded
  <2> SUFFICES ASSUME IInv, Target > 0
      PROVE  successes <= Target + Cardinality(Workers) - 1
    BY DEF OvershootBounded
  <2>1. successes + Cardinality(Holding) <= Target + Cardinality(Workers) - 1
    BY DEF IInv, TargetAhead
  <2> QED BY <2>1, Numbers
<1> QED BY <1>1, ClientInvariance, PTL

\* A slot that is counted neither as a success nor as a failure costs a worker
\* its life, and the summary of a run without a stop, a broken browser or file
\* accounts for all of them.
THEOREM SlotsCounted == Spec => []EverySlotCounted
<1>1. IInv => EverySlotCounted
  <2> SUFFICES ASSUME IInv PROVE EverySlotCounted OBVIOUS
  <2>1. issued - successes - failures \in 0..Cardinality(Workers)
    <3>1. /\ successes + failures + Cardinality(Holding) <= issued
          /\ issued <= successes + failures + Cardinality(Holding \cup Gone)
      BY DEF IInv, SlotsHeld
    <3> QED BY <3>1, Numbers
  <2>2. ASSUME main = "done", ~stop, faults = 0
        PROVE  summary.attempted = summary.successes + summary.failures
    <3>1. Holding = {} BY <2>2 DEF IInv, Summed, Holding, SlotSteps, Stages
    <3>2. Cardinality(Holding) = 0 BY <3>1, FS_EmptySet
    <3>3. issued = successes + failures + Cardinality(Holding) BY <2>2 DEF IInv, SlotsHeld
    <3> QED BY <2>2, <3>2, <3>3, Numbers DEF IInv, Summed
  <2> QED BY <2>1, <2>2 DEF EverySlotCounted
<1> QED BY <1>1, ClientInvariance, PTL

\* An account that is not written down, neither its mailbox nor itself, is one
\* whose write failed.
THEOREM WrittenDown == Spec => []AccountsWrittenDown
<1>1. IInv => AccountsWrittenDown
  <2> SUFFICES ASSUME IInv PROVE AccountsWrittenDown OBVIOUS
  <2>1. /\ made \ mailFile \in SUBSET Unnoted
        /\ {b \in Boxes : dir[b] # "none"} \ acctFile \in SUBSET Unsaved
    BY DEF IInv, TypeOK, SignupTypeOK, Unnoted, Unsaved
  <2>2. Unnoted \in SUBSET Boxes /\ Unsaved \in SUBSET Boxes BY DEF Unnoted, Unsaved
  <2>3. /\ Cardinality(made \ mailFile) <= Cardinality(Unnoted)
        /\ Cardinality({b \in Boxes : dir[b] # "none"} \ acctFile) <= Cardinality(Unsaved)
    BY <2>1, <2>2, BoxSets
  <2>4. /\ Cardinality(made \ mailFile) \in Nat /\ Cardinality(Unnoted) \in Nat
        /\ Cardinality({b \in Boxes : dir[b] # "none"} \ acctFile) \in Nat
        /\ Cardinality(Unsaved) \in Nat
    BY <2>1, <2>2, BoxSets
  <2>5. faults \in Nat BY SignupConstants DEF IInv, TypeOK, SignupTypeOK
  <2>6. Cardinality(Unnoted) + Cardinality(Unsaved) <= faults BY DEF IInv, WritesLost
  <2> HIDE DEF Unnoted, Unsaved
  <2> QED BY <2>3, <2>4, <2>5, <2>6 DEF AccountsWrittenDown
<1> QED BY <1>1, ClientInvariance, PTL
=============================================================================
