---------------------------- MODULE Closeout_proofs ----------------------------
(***************************************************************************)
(* Proofs about Closeout and BatchImport, for every number of attempts,    *)
(* accounts, commands and faults: no grant is lost, the records follow the *)
(* journal, and a batch that says imported is.                             *)
(***************************************************************************)
EXTENDS Closeout, TLAPS, FiniteSetTheorems, SequenceTheorems

-----------------------------------------------------------------------------
(* Names and entries.                                                      *)

LEMMA SecretNames ==
  ASSUME NEW t \in Attempts
  PROVE  /\ Auth(t) \in Names /\ Log(t) \in Names
         /\ \A u : Auth(t) = Auth(u) => t = u
         /\ \A u : Auth(t) # Log(u)
         /\ Auth(t) \notin {Bundle, Pending, Helper}
<1>1. Auth(t) \in Names /\ Log(t) \in Names BY DEF Names
<1>2. \A u : Auth(t) = Auth(u) => t = u BY DEF Auth
<1>3. \A u : Auth(t) # Log(u) BY DEF Auth, Log
<1>4. Auth(t) \notin {Bundle, Pending, Helper} BY DEF Auth, Bundle, Pending, Helper
<1> QED BY <1>1, <1>2, <1>3, <1>4

LEMMA Halves ==
  \A n \in Nat : \A k \in 1..2 * n :
    /\ k % 2 = 1 => (k + 1) \div 2 \in 1..n
    /\ k % 2 # 1 => k \div 2 \in 1..n
OBVIOUS

\* What the journal of an artifact lists.
LEMMA JournalEntries ==
  ASSUME NEW ids \in PartialMaps, NEW order \in [1..Cardinality(DOMAIN ids) -> DOMAIN ids],
         NEW a, a.ids = ids
  PROVE  /\ Entries(a, order) \in Seq(Entry) /\ Entries(a, order) # <<>>
         /\ \A k \in DOMAIN Entries(a, order), t \in Attempts :
              Entries(a, order)[k].name = Auth(t) => t \in DOMAIN ids
<1> DEFINE n == Cardinality(DOMAIN ids)
           own == [k \in 1..2 * n |-> IF k % 2 = 1 THEN Auth(order[(k + 1) \div 2])
                                                  ELSE Log(order[k \div 2])]
           last == <<Bundle, Pending, Helper>>
           Owned == {Auth(t) : t \in DOMAIN ids} \cup {Log(t) : t \in DOMAIN ids}
<1>1. DOMAIN ids \subseteq Attempts /\ n \in Nat
  <2>1. DOMAIN ids \subseteq Attempts BY DEF PartialMaps
  <2> QED BY <2>1, BatchAssumption, FS_Subset, FS_CardinalityType
<1>2. own \in Seq(Owned) /\ Len(own) = 2 * n
  <2>1. \A k \in 1..2 * n : own[k] \in Owned BY <1>1, Halves
  <2>2. own \in [1..2 * n -> Owned] BY <2>1
  <2>3. PICK m \in Nat : m = 2 * n BY <1>1
  <2> HIDE DEF own, Owned, n
  <2> QED BY <2>2, <2>3
<1>3. last \in Seq({Bundle, Pending, Helper}) /\ Len(last) = 3 OBVIOUS
<1> DEFINE all == own \o last
<1>4. all \in Seq(Owned \cup {Bundle, Pending, Helper}) /\ Len(all) = 2 * n + 3
  <2> HIDE DEF own, last, Owned
  <2>1. own \in Seq(Owned \cup {Bundle, Pending, Helper})
        /\ last \in Seq(Owned \cup {Bundle, Pending, Helper})
    BY <1>2, <1>3
  <2>2. all \in Seq(Owned \cup {Bundle, Pending, Helper}) /\ Len(all) = Len(own) + Len(last)
    BY <2>1, ConcatProperties
  <2> HIDE DEF all
  <2> QED BY <1>2, <1>3, <2>2
<1>5. Entries(a, order) = Walk(all) BY DEF Entries
<1> HIDE DEF all, own, last
<1>6. Owned \cup {Bundle, Pending, Helper} \subseteq Names BY <1>1 DEF Names
<1>7. DOMAIN all = 1..Len(all) /\ Len(all) \in Nat /\ Len(all) # 0
      /\ \A k \in DOMAIN all : all[k] \in Owned \cup {Bundle, Pending, Helper}
  BY <1>1, <1>4
<1>8. Walk(all) \in [1..Len(all) -> Entry]
      /\ \A k \in 1..Len(all) : Walk(all)[k].name = all[k]
  BY <1>6, <1>7 DEF Walk, Entry
<1>9. Walk(all) \in Seq(Entry) /\ Walk(all) # <<>> /\ DOMAIN Walk(all) = 1..Len(all)
  BY <1>7, <1>8
<1>10. ASSUME NEW k \in 1..Len(all), NEW t \in Attempts, all[k] = Auth(t)
       PROVE  t \in DOMAIN ids
  <2>1. Auth(t) \in Owned BY <1>7, <1>10, SecretNames
  <2> QED BY <2>1, SecretNames
<1> QED BY <1>5, <1>8, <1>9, <1>10

-----------------------------------------------------------------------------
(* Accounts.                                                               *)

\* No step takes an account away, gives it to another attempt, or makes it
\* improper.
Grows ==
  \A i \in Held : /\ accounts'[i] # None /\ accounts'[i].of = accounts[i].of
                  /\ accounts[i].proper => accounts'[i].proper

LEMMA HeldIds ==
  /\ Held \subseteq Ids /\ IsFiniteSet(Held) /\ Cardinality(Held) \in Nat
<1>1. Held \subseteq Ids BY DEF Held
<1>2. IsFiniteSet(Ids)
  <2>1. 1 \in Int /\ MaxIds \in Int BY BatchAssumption
  <2> QED BY <2>1, FS_Interval DEF Ids
<1>3. IsFiniteSet(Held) BY <1>1, <1>2, FS_Subset
<1> QED BY <1>1, <1>3, FS_CardinalityType

\* The accounts an import helper adds.
LEMMA NewAccounts ==
  ASSUME accounts \in [Ids -> Accounts \cup {None}], AccountsNumbered,
         NEW S \in SUBSET Attempts, RoomFor(Cardinality(S)), accounts' = Created(S)
  PROVE  /\ accounts' \in [Ids -> Accounts \cup {None}] /\ Grows /\ AccountsNumbered'
         /\ NewIds(Cardinality(S)) \subseteq Held'
<1> DEFINE new == NewIds(Cardinality(S))
           h == Cardinality(Held)
           n == Cardinality(S)
           of == CHOOSE f \in [new -> S] : \A i, j \in new : i # j => f[i] # f[j]
<1>1. h \in Nat /\ n \in Nat /\ IsFiniteSet(S) /\ h + n <= MaxIds /\ MaxIds \in Nat
  BY BatchAssumption, FS_Subset, FS_CardinalityType, HeldIds DEF RoomFor
<1>2. Held = 1..h /\ new = (h + 1)..(h + n) BY DEF AccountsNumbered, NewIds
<1>3. new \subseteq Ids /\ new \cap Held = {} /\ Held \cup new = 1..(h + n)
  <2> HIDE DEF h, n, new
  <2> QED BY <1>1, <1>2 DEF Ids
<1>4. of \in [new -> S]
  <2>1. IsFiniteSet(new) /\ Cardinality(new) = n
    <3>1. h + 1 \in Int /\ h + n \in Int BY <1>1
    <3>2. IsFiniteSet((h + 1)..(h + n))
          /\ Cardinality((h + 1)..(h + n)) = IF h + 1 > h + n THEN 0 ELSE (h + n) - (h + 1) + 1
      <4> HIDE DEF h, n
      <4> QED BY <3>1, FS_Interval
    <3> HIDE DEF h, n, new
    <3> QED BY <1>1, <1>2, <3>2
  <2>2. ExistsBijection(new, S) BY <1>1, <2>1, FS_SameCardinalityBij
  <2>3. \E f \in [new -> S] : \A i, j \in new : i # j => f[i] # f[j]
    BY <2>2 DEF ExistsBijection, Bijection, Injection, Surjection, IsInjective
  <2> HIDE DEF new
  <2> QED BY <2>3
<1>5. accounts' = [i \in Ids |-> IF i \in new
                                THEN [of |-> of[i], rotated |-> FALSE, active |-> TRUE,
                                      proper |-> FALSE]
                                ELSE accounts[i]]
  BY DEF Created
<1> HIDE DEF of, new, h, n
<1>6. accounts' \in [Ids -> Accounts \cup {None}]
  BY <1>4, <1>5 DEF Accounts
<1>7. \A i \in new : accounts'[i] # None
  <2>1. \A i \in new : accounts'[i] \in Accounts BY <1>3, <1>4, <1>5 DEF Accounts
  <2> QED BY <2>1, NoneAssumption
<1>8. \A i \in Ids \ new : accounts'[i] = accounts[i] BY <1>5
<1>9. Held' = Held \cup new BY <1>3, <1>7, <1>8 DEF Held
<1>10. Cardinality(Held') = h + n
  <2>1. Held' = 1..(h + n) BY <1>3, <1>9
  <2>2. 1 \in Int /\ h + n \in Int /\ h + n \in Nat BY <1>1
  <2>3. Cardinality(1..(h + n)) = IF 1 > h + n THEN 0 ELSE (h + n) - 1 + 1 BY <2>2, FS_Interval
  <2> QED BY <2>1, <2>2, <2>3
<1>11. AccountsNumbered' BY <1>3, <1>9, <1>10 DEF AccountsNumbered
<1>12. Grows BY <1>3, <1>8 DEF Grows, Held
<1>13. NewIds(Cardinality(S)) \subseteq Held' BY <1>9 DEF new
<1> QED BY <1>6, <1>11, <1>12, <1>13

\* What is said of accounts stays true when they grow.
LEMMA GrownServes ==
  ASSUME Grows
  PROVE  /\ Held \subseteq Held'
         /\ \A f : Serves(f) => \A t \in DOMAIN f : f[t] \in AccountsOf(t)'
         /\ \A i \in Held : accounts[i].proper => accounts'[i].proper
<1>1. Held \subseteq Held' BY DEF Grows, Held
<1>2. \A t : AccountsOf(t) \subseteq AccountsOf(t)' BY <1>1 DEF Grows, AccountsOf
<1> QED BY <1>1, <1>2 DEF Grows, Serves

\* Steps that change accounts one by one.
LEMMA ChangedAccounts ==
  ASSUME accounts \in [Ids -> Accounts \cup {None}], AccountsNumbered,
         accounts' \in [Ids -> Accounts \cup {None}],
         \A i \in Ids : /\ accounts'[i] = None <=> accounts[i] = None
                        /\ accounts[i] # None => /\ accounts'[i].of = accounts[i].of
                                                 /\ accounts[i].proper => accounts'[i].proper
  PROVE  Grows /\ AccountsNumbered'
<1>1. Grows BY DEF Grows, Held
<1>2. Held' = Held BY DEF Held
<1> QED BY <1>1, <1>2 DEF AccountsNumbered

-----------------------------------------------------------------------------
(* Steps of the batch: the closeout's files stay as they are.              *)

\* What every step must show besides.
LEMMA BatchKeeps ==
  ASSUME IInv, UNCHANGED closeVars, BatchTypeOK', AccountsNumbered', Grows, built <= built',
         \A t \in Attempts : files[Auth(t)] # None => files'[Auth(t)] # None,
         \A t \in Attempts : rows'[t] = "granted" => rows[t] = "granted" \/ files'[Auth(t)] # None,
         proc'.made \subseteq Held', files'[Helper] # None => files'[Helper].ids \subseteq Held',
         \/ proc'.cmd \in {"import", "none"}
         \/ UNCHANGED <<proc, found>>
         \/ /\ proc'.cmd = "prepare" /\ Serves(found)' /\ found' \in PartialMaps
            /\ proc.cmd = "prepare" \/ built' = built + 1
         \/ proc'.cmd = "confirm" /\ proc'.at = "journal" /\ artifact # None,
         ImportTrue', ImportedIsTrue', CopiesFollow'
  PROVE  IInv'
<1> USE DEF closeVars
<1>1. built \in Nat /\ built' \in Nat BY DEF IInv, TypeOK, BatchTypeOK
<1>2. TypeOK'
  <2>1. artifact # None =>
          artifact \in [no : 0..built', ids : PartialMaps, sha : [Names -> Contents \cup {None}]]
    BY <1>1 DEF IInv, TypeOK
  <2>2. journal # None => /\ journal \in Journals /\ journal.no <= built'
                          /\ journal.entries # <<>>
    <3> SUFFICES ASSUME journal # None
        PROVE  journal \in Journals /\ journal.no <= built' /\ journal.entries # <<>>
      OBVIOUS
    <3>1. journal \in Journals /\ journal.no <= built /\ journal.entries # <<>>
      BY DEF IInv, TypeOK
    <3>2. journal.no \in Nat BY <3>1 DEF Journals
    <3> QED BY <1>1, <3>1, <3>2
  <2> QED BY <2>1, <2>2 DEF IInv, TypeOK
<1>3. AccountsReal'
  <2>1. proc'.cmd = "prepare" => Serves(found)' /\ found' \in PartialMaps
    BY GrownServes DEF IInv, AccountsReal, Serves
  <2>2. artifact # None => Serves(artifact.ids)'
    BY GrownServes DEF IInv, AccountsReal, Serves
  <2> QED BY <2>1, <2>2 DEF AccountsReal
<1>4. Confirmed' BY DEF IInv, Confirmed, Left, NoneLeft, AllDeleted
<1>5. OneArtifact'
  <2>1. artifact # None => artifact.no \in Nat /\ artifact.no <= built
    BY <1>1 DEF IInv, TypeOK
  <2>2. journal # None => journal.no \in Nat /\ journal.no <= built
    BY DEF IInv, TypeOK, Journals
  <2>3. ASSUME proc'.cmd = "prepare"
        PROVE  /\ artifact # None => artifact.no < built'
               /\ journal # None => journal.no < built'
    <3>1. CASE built' = built + 1 BY <1>1, <2>1, <2>2, <3>1
    <3>2. CASE proc.cmd = "prepare"
      <4>1. /\ artifact # None => artifact.no < built
            /\ journal # None => journal.no < built
        BY <3>2 DEF IInv, OneArtifact
      <4> QED BY <1>1, <2>1, <2>2, <4>1
    <3> QED BY <2>3, <3>1, <3>2
  <2>4. \A k : Name(k)' = Name(k) BY DEF Name
  <2> QED BY <2>3, <2>4 DEF IInv, OneArtifact
<1>6. NothingLost'
  <2> SUFFICES ASSUME NEW t \in Attempts, rows'[t] = "granted", files'[Auth(t)] = None
      PROVE  \/ quarantine[Auth(t)] # None
             \/ /\ t \in DOMAIN handoff.ids /\ checkpoint.ids = handoff.ids
                /\ handoff.ids[t] \in AccountsOf(t)'
    BY DEF NothingLost
  <2>1. \/ quarantine[Auth(t)] # None
        \/ /\ t \in DOMAIN handoff.ids /\ checkpoint.ids = handoff.ids
           /\ handoff.ids[t] \in AccountsOf(t)
    BY DEF IInv, NothingLost
  <2>2. AccountsOf(t) \subseteq AccountsOf(t)' BY DEF Grows, AccountsOf, Held
  <2> QED BY <2>1, <2>2
<1> QED BY <1>2, <1>3, <1>4, <1>5, <1>6 DEF IInv

\* A manifest that is not written stays true of production.
LEMMA ImportedStays ==
  ASSUME ImportedIsTrue, Grows, manifest' = manifest
  PROVE  ImportedIsTrue'
<1> SUFFICES ASSUME manifest.status = "imported-preprobed", NEW t \in Sources(manifest)
    PROVE  /\ t \in manifest.pre.passed
           /\ \E i \in manifest.ids \cap AccountsOf(t)' : accounts'[i].proper
  BY DEF ImportedIsTrue
<1>1. /\ t \in manifest.pre.passed
      /\ \E i \in manifest.ids \cap AccountsOf(t) : accounts[i].proper
  BY DEF ImportedIsTrue
<1>2. PICK i \in manifest.ids \cap AccountsOf(t) : accounts[i].proper BY <1>1
<1>3. i \in AccountsOf(t)' /\ accounts'[i].proper BY <1>2 DEF Grows, AccountsOf, Held
<1> QED BY <1>1, <1>2, <1>3

\* A command that ends, with the status it last saved or with another.
LEMMA EndKeeps ==
  ASSUME IInv, UNCHANGED <<closeVars, files, rows, recovery, built>>, Exit, orphan' \subseteq Attempts,
         accounts' \in [Ids -> Accounts \cup {None}], AccountsNumbered', Grows,
         \/ manifest' = manifest
         \/ /\ proc.cmd = "import" /\ manifest' \in Manifests /\ manifest'.cleanup = mem.cleanup
            /\ manifest'.status # "imported-preprobed" \/ ImportedIsTrue'
  PROVE  IInv'
<1>1. proc' = Idle /\ proc'.cmd = "none" /\ proc'.made = {} BY DEF Exit, Idle
<1>2. manifest' \in Manifests BY DEF IInv, TypeOK, BatchTypeOK
<1>3. BatchTypeOK' BY <1>1, <1>2 DEF IInv, TypeOK, BatchTypeOK
<1>4. ImportTrue' BY <1>1 DEF IInv, ImportTrue
<1>5. ImportedIsTrue'
  <2>1. manifest'.status # "imported-preprobed" => ImportedIsTrue' BY DEF ImportedIsTrue
  <2> QED BY <2>1, ImportedStays DEF IInv
<1>6. CopiesFollow'
  <2>1. Follows(manifest)' BY DEF IInv, CopiesFollow, Follows, Left, closeVars
  <2>2. recovery'.at # "idle" => Follows(recovery.mem)'
    BY DEF IInv, CopiesFollow, Follows, Left, closeVars
  <2> QED BY <1>1, <2>1, <2>2 DEF CopiesFollow
<1>7. built <= built'
  <2>1. built \in Nat BY DEF IInv, TypeOK, BatchTypeOK
  <2> QED BY <2>1
<1>8. files'[Helper] # None => files'[Helper].ids \subseteq Held'
  BY GrownServes DEF IInv, AccountsReal
<1>9. UNCHANGED closeVars /\ UNCHANGED <<files, rows>> /\ proc'.made \subseteq Held'
  BY <1>1
<1>10. /\ \A t \in Attempts : files[Auth(t)] # None => files'[Auth(t)] # None
       /\ \A t \in Attempts : rows'[t] = "granted" => rows[t] = "granted" \/ files'[Auth(t)] # None
  BY <1>9
<1> QED BY <1>1, <1>3, <1>4, <1>5, <1>6, <1>7, <1>8, <1>9, <1>10, BatchKeeps

\* An import that goes on.
LEMMA GoKeeps ==
  ASSUME IInv, UNCHANGED <<closeVars, rows, orphan, recovery>>, proc.cmd = "import",
         proc' \in Procs, proc'.cmd = "import", proc'.at # "rebuild",
         proc'.made \subseteq Held',
         mem' \in Manifests, mem'.cleanup = mem.cleanup, mem'.status # "imported-preprobed",
         manifest' \in {manifest, mem'},
         files' \in [Names -> Contents \cup {None}],
         \A t \in Attempts : files'[Auth(t)] = files[Auth(t)],
         files'[Helper] # None => files'[Helper].ids \subseteq Held',
         accounts' \in [Ids -> Accounts \cup {None}], AccountsNumbered', Grows,
         built <= built', built' \in Nat,
         proc'.at \in Resolving => DOMAIN found' = Sources(mem)' /\ Serves(found)',
         proc'.at \in Resolving \ {"reconcile"} => \A i \in FoundIds' : accounts'[i].proper
  PROVE  IInv'
<1>1. manifest' \in Manifests BY DEF IInv, TypeOK, BatchTypeOK
<1>2. BatchTypeOK' BY <1>1 DEF IInv, TypeOK, BatchTypeOK
<1>3. ImportTrue' BY DEF IInv, ImportTrue
<1>4. ImportedIsTrue'
  <2>1. CASE manifest' = manifest BY <2>1, ImportedStays DEF IInv
  <2>2. CASE manifest' = mem' BY <2>2 DEF ImportedIsTrue
  <2> QED BY <2>1, <2>2
<1>5. CopiesFollow'
  <2>1. Follows(manifest)' /\ Follows(mem)'
    BY DEF IInv, CopiesFollow, Follows, Left, closeVars
  <2>2. recovery'.at # "idle" => Follows(recovery.mem)'
    BY DEF IInv, CopiesFollow, Follows, Left, closeVars
  <2> QED BY <2>1, <2>2 DEF CopiesFollow
<1>6. \A t \in Attempts : files[Auth(t)] # None => files'[Auth(t)] # None OBVIOUS
<1>7. UNCHANGED closeVars /\ rows' = rows OBVIOUS
<1>8. \A t \in Attempts : rows'[t] = "granted" => rows[t] = "granted" \/ files'[Auth(t)] # None
  BY <1>7
<1> QED BY <1>2, <1>3, <1>4, <1>5, <1>6, <1>7, <1>8, BatchKeeps

\* The steps of an import that leave files and accounts alone.
LEMMA GoAloneKeeps ==
  ASSUME IInv, UNCHANGED <<closeVars, files, rows, accounts, orphan, recovery>>, proc.cmd = "import",
         proc' \in Procs, proc'.cmd = "import", proc'.at # "rebuild", proc'.made \subseteq Held,
         mem' \in Manifests, mem'.cleanup = mem.cleanup, mem'.status # "imported-preprobed",
         manifest' \in {manifest, mem'}, built' \in {built, built + 1},
         proc'.at \in Resolving => DOMAIN found' = Sources(mem)' /\ Serves(found)',
         proc'.at \in Resolving \ {"reconcile"} => \A i \in FoundIds' : accounts[i].proper
  PROVE  IInv'
<1>1. accounts' = accounts /\ files' = files /\ UNCHANGED <<closeVars, rows, orphan, recovery>> OBVIOUS
<1>2. Held' = Held /\ Grows BY <1>1 DEF Held, Grows
<1>3. AccountsNumbered' BY <1>2 DEF IInv, AccountsNumbered
<1>4. built <= built' /\ built' \in Nat
  <2>1. built \in Nat BY DEF IInv, TypeOK, BatchTypeOK
  <2> QED BY <2>1
<1>5. accounts' \in [Ids -> Accounts \cup {None}] /\ files' \in [Names -> Contents \cup {None}]
  BY <1>1 DEF IInv, TypeOK, BatchTypeOK
<1>6. files'[Helper] # None => files'[Helper].ids \subseteq Held'
  BY <1>1, <1>2 DEF IInv, AccountsReal
<1> QED BY <1>1, <1>2, <1>3, <1>4, <1>5, <1>6, GoKeeps

\* An import at one of its steps.
LEMMA Importing ==
  ASSUME IInv, proc.cmd = "import"
  PROVE  /\ proc \in Procs /\ proc.made \subseteq Held /\ mem \in Manifests
         /\ proc.at # "rebuild" => mem.status # "imported-preprobed"
         /\ Sources(mem) \subseteq Attempts /\ Cardinality(Sources(mem)) \in Nat
<1>1. proc # Idle BY DEF Idle
<1>2. Sources(mem) \subseteq Attempts BY DEF Sources
<1>3. Cardinality(Sources(mem)) \in Nat
  BY <1>2, BatchAssumption, FS_Subset, FS_CardinalityType
<1> QED BY <1>1, <1>2, <1>3 DEF IInv, TypeOK, BatchTypeOK, AccountsReal, ImportTrue

LEMMA GoesOn ==
  ASSUME IInv, proc.cmd = "import", NEW s \in ImportSteps, Go(s)
  PROVE  /\ proc' \in Procs /\ proc'.cmd = "import" /\ proc'.at = s /\ proc'.made = proc.made
         /\ proc'.made \subseteq Held
<1>1. proc \in Procs /\ proc.made \subseteq Held BY Importing
<1>2. s \in ImportSteps \cup PrepareSteps \cup ConfirmSteps OBVIOUS
<1> QED BY <1>1, <1>2 DEF Go, Procs

\* Up to the probes before the import.
LEMMA PreflightKeeps ==
  ASSUME IInv, UNCHANGED closeVars,
         \/ SavePreflight \/ \E partial \in BOOLEAN : BeginPreprobe(partial)
         \/ Preprobe \/ SaveNarrowed
  PROVE  IInv'
<1> USE DEF At, Save
<1>1. CASE SavePreflight
  <2>1. /\ proc.cmd = "import" /\ proc.at = "preflight" /\ manifest' = mem /\ mem' = mem
        /\ Go("gate") /\ UNCHANGED <<closeVars, files, rows, accounts, orphan, recovery, built>>
    BY <1>1 DEF SavePreflight
  <2>2. /\ proc' \in Procs /\ proc'.cmd = "import" /\ proc'.at = "gate" /\ proc'.made \subseteq Held
    BY <2>1, GoesOn DEF ImportSteps
  <2> QED BY <2>1, <2>2, Importing, GoAloneKeeps DEF Resolving
<1>2. ASSUME NEW partial \in BOOLEAN, BeginPreprobe(partial) PROVE IInv'
  <2>1. /\ proc.cmd = "import" /\ proc.at = "gate" /\ manifest' = mem /\ mem' = mem
        /\ proc' = [proc EXCEPT !.at = "preprobe", !.partial = partial]
        /\ UNCHANGED <<closeVars, files, rows, accounts, orphan, recovery, built>>
    BY <1>2 DEF BeginPreprobe
  <2>2. /\ proc' \in Procs /\ proc'.cmd = "import" /\ proc'.at = "preprobe"
        /\ proc'.made \subseteq Held
    BY <2>1, Importing DEF Procs, ImportSteps
  <2> QED BY <2>1, <2>2, Importing, GoAloneKeeps DEF Resolving
<1>3. CASE Preprobe
  <2>1. PICK passed \in SUBSET Sources(mem) :
          /\ mem' = [mem EXCEPT !.pre = [tested |-> Cardinality(Sources(mem)), passed |-> passed]]
          /\ manifest' = mem'
          /\ Go("resolve") \/ Go("narrow")
    BY <1>3 DEF Preprobe
  <2>2. /\ proc.cmd = "import" /\ proc.at = "preprobe"
        /\ UNCHANGED <<closeVars, files, rows, accounts, orphan, recovery, built>>
    BY <1>3 DEF Preprobe
  <2>3. /\ proc' \in Procs /\ proc'.cmd = "import" /\ proc'.at \in {"resolve", "narrow"}
        /\ proc'.made \subseteq Held
    BY <2>1, <2>2, GoesOn DEF ImportSteps
  <2>4. mem' \in Manifests /\ mem'.cleanup = mem.cleanup /\ mem'.status # "imported-preprobed"
    BY <2>1, <2>2, Importing DEF Manifests
  <2> QED BY <2>1, <2>2, <2>3, <2>4, GoAloneKeeps DEF Resolving
<1>4. CASE SaveNarrowed
  <2>1. /\ proc.cmd = "import" /\ proc.at = "narrowed" /\ manifest' = mem /\ mem' = mem
        /\ Go("resolve") /\ UNCHANGED <<closeVars, files, rows, accounts, orphan, recovery, built>>
    BY <1>4 DEF SaveNarrowed
  <2>2. /\ proc' \in Procs /\ proc'.cmd = "import" /\ proc'.at = "resolve"
        /\ proc'.made \subseteq Held
    BY <2>1, GoesOn DEF ImportSteps
  <2> QED BY <2>1, <2>2, Importing, GoAloneKeeps DEF Resolving
<1> QED BY <1>1, <1>2, <1>3, <1>4

\* The accounts that are found, and the backup of those that are all there.
LEMMA ResolveKeeps ==
  ASSUME IInv, UNCHANGED closeVars,
         ResolveExisting \/ HelperVerified \/ BackUp \/ RecordBackup
  PROVE  IInv'
<1> USE DEF At, Save
<1>1. CASE ResolveExisting
  <2>1. /\ proc.cmd = "import" /\ proc.at = "resolve" /\ mem' = [mem EXCEPT !.status = "importing"]
        /\ manifest' = mem' /\ UNCHANGED <<closeVars, files, rows, accounts, orphan, recovery, built>>
        /\ \E s \in {"backup", "pending"} : proc' = [Idle EXCEPT !.cmd = "import", !.at = s]
    BY <1>1 DEF ResolveExisting, Status
  <2>2. /\ proc' \in Procs /\ proc'.cmd = "import" /\ proc'.at \in {"backup", "pending"}
        /\ proc'.made \subseteq Held
    <3>1. PICK s \in {"backup", "pending"} : proc' = [Idle EXCEPT !.cmd = "import", !.at = s]
      BY <2>1
    <3>2. s \in ImportSteps /\ {} \subseteq Ids /\ {} \subseteq Held BY DEF ImportSteps
    <3>3. proc' = [cmd |-> "import", at |-> s, partial |-> FALSE, helper |-> "none", made |-> {},
                   dump |-> 0]
      BY <3>1 DEF Idle
    <3> QED BY <3>2, <3>3 DEF Procs
  <2>3. mem' \in Manifests /\ mem'.cleanup = mem.cleanup /\ mem'.status # "imported-preprobed"
    BY <2>1, Importing DEF Manifests, Statuses
  <2> QED BY <2>1, <2>2, <2>3, GoAloneKeeps DEF Resolving
<1>2. CASE HelperVerified
  <2>1. /\ proc.cmd = "import" /\ proc.at = "checked" /\ manifest' = manifest /\ mem' = mem
        /\ Go("record") /\ UNCHANGED <<closeVars, files, rows, accounts, orphan, recovery, built>>
    BY <1>2 DEF HelperVerified, diskVars
  <2>2. /\ proc' \in Procs /\ proc'.cmd = "import" /\ proc'.at = "record"
        /\ proc'.made \subseteq Held
    BY <2>1, GoesOn DEF ImportSteps
  <2> QED BY <2>1, <2>2, Importing, GoAloneKeeps DEF Resolving
<1>3. CASE BackUp
  <2>1. /\ proc.cmd = "import" /\ proc.at = "backup" /\ manifest' = manifest /\ mem' = mem
        /\ built' = built + 1 /\ proc' = [proc EXCEPT !.at = "record", !.dump = built + 1]
        /\ UNCHANGED <<closeVars, files, rows, accounts, orphan, recovery>>
    BY <1>3 DEF BackUp
  <2>2. built + 1 \in Nat BY DEF IInv, TypeOK, BatchTypeOK
  <2>3. /\ proc' \in Procs /\ proc'.cmd = "import" /\ proc'.at = "record"
        /\ proc'.made \subseteq Held
    BY <2>1, <2>2, Importing DEF Procs, ImportSteps
  <2> QED BY <2>1, <2>3, Importing, GoAloneKeeps DEF Resolving
<1>4. CASE RecordBackup
  <2>1. /\ proc.cmd = "import" /\ proc.at = "record" /\ manifest' = mem' /\ Go("resolve-again")
        /\ mem' = [mem EXCEPT !.backups = @ \cup {proc.dump}]
        /\ UNCHANGED <<closeVars, files, rows, accounts, orphan, recovery, built>>
    BY <1>4 DEF RecordBackup
  <2>2. /\ proc' \in Procs /\ proc'.cmd = "import" /\ proc'.at = "resolve-again"
        /\ proc'.made \subseteq Held
    BY <2>1, GoesOn DEF ImportSteps
  <2>3. proc.dump \in Nat BY <2>1, Importing DEF Procs
  <2>4. mem' \in Manifests /\ mem'.cleanup = mem.cleanup /\ mem'.status # "imported-preprobed"
    BY <2>1, <2>3, Importing DEF Manifests
  <2> QED BY <2>1, <2>2, <2>4, GoAloneKeeps DEF Resolving
<1> QED BY <1>1, <1>2, <1>3, <1>4

\* Those that write a file of the batch, not an OAuth file.
LEMMA Written ==
  ASSUME IInv, NEW n \in {Bundle, Pending, Helper}, NEW c \in Contents,
         files' = [files EXCEPT ![n] = c], n = Helper => c.ids \subseteq Held
  PROVE  /\ files' \in [Names -> Contents \cup {None}]
         /\ \A t \in Attempts : files'[Auth(t)] = files[Auth(t)]
         /\ files'[Helper] # None => files'[Helper].ids \subseteq Held
<1>1. files \in [Names -> Contents \cup {None}] BY DEF IInv, TypeOK, BatchTypeOK
<1>2. n \in Names /\ Helper \in Names BY DEF Names
<1>3. files' \in [Names -> Contents \cup {None}] BY <1>1, <1>2
<1>4. \A m \in Names \ {n} : files'[m] = files[m] BY <1>1, <1>2
<1>5. \A t \in Attempts : files'[Auth(t)] = files[Auth(t)] BY <1>4, SecretNames
<1>6. files'[Helper] # None => files'[Helper].ids \subseteq Held
  <2>1. CASE n = Helper BY <1>1, <1>2, <2>1
  <2>2. CASE n # Helper BY <1>2, <1>4, <2>2 DEF IInv, AccountsReal
  <2> QED BY <2>1, <2>2
<1> QED BY <1>3, <1>5, <1>6

LEMMA GoWriteKeeps ==
  ASSUME IInv, UNCHANGED <<closeVars, rows, accounts, orphan, recovery>>, proc.cmd = "import",
         NEW n \in {Bundle, Pending, Helper}, NEW c \in Contents,
         files' = [files EXCEPT ![n] = c], n = Helper => c.ids \subseteq Held,
         proc' \in Procs, proc'.cmd = "import", proc'.at \notin {"rebuild"} \cup Resolving,
         proc'.made \subseteq Held,
         mem' \in Manifests, mem'.cleanup = mem.cleanup, mem'.status # "imported-preprobed",
         manifest' = manifest, built' \in {built, built + 1}
  PROVE  IInv'
<1>1. /\ files' \in [Names -> Contents \cup {None}]
      /\ \A t \in Attempts : files'[Auth(t)] = files[Auth(t)]
      /\ files'[Helper] # None => files'[Helper].ids \subseteq Held
  BY Written
<1>2. accounts' = accounts /\ UNCHANGED <<closeVars, rows, orphan, recovery>> OBVIOUS
<1>3. Held' = Held /\ Grows BY <1>2 DEF Held, Grows
<1>4. AccountsNumbered' BY <1>3 DEF IInv, AccountsNumbered
<1>5. built <= built' /\ built' \in Nat
  <2>1. built \in Nat BY DEF IInv, TypeOK, BatchTypeOK
  <2> QED BY <2>1
<1>6. accounts' \in [Ids -> Accounts \cup {None}] BY <1>2 DEF IInv, TypeOK, BatchTypeOK
<1>7. proc'.at # "rebuild" /\ proc'.at \notin Resolving OBVIOUS
<1> QED BY <1>1, <1>2, <1>3, <1>4, <1>5, <1>6, <1>7, GoKeeps

LEMMA FileContents ==
  ASSUME NEW of \in SUBSET Attempts, NEW ids \in SUBSET Ids, NEW dump \in Nat, NEW made \in Nat
  PROVE  File(of, ids, dump, made) \in Contents /\ File(of, ids, dump, made).ids = ids
BY DEF File, Contents

LEMMA BundleKeeps ==
  ASSUME IInv, UNCHANGED closeVars, WriteBundle \/ NarrowBundle \/ WritePending
  PROVE  IInv'
<1> USE DEF At
<1>1. built \in Nat /\ built + 1 \in Nat BY DEF IInv, TypeOK, BatchTypeOK
<1>2. CASE WriteBundle
  <2> DEFINE b == File(Sources(mem), {}, 0, built + 1)
             s == IF proc.at = "bundle" THEN "gate" ELSE "preflight"
  <2>1. /\ proc.cmd = "import" /\ proc.at \in {"bundle", "rebuild"} /\ Go(s)
        /\ files' = [files EXCEPT ![Bundle] = b]
        /\ mem' = [mem EXCEPT !.digest = b,
                              !.status = IF proc.at = "bundle" THEN @ ELSE "resuming-import"]
        /\ manifest' = manifest /\ built' = built + 1
        /\ UNCHANGED <<closeVars, rows, accounts, orphan, recovery>>
    BY <1>2 DEF WriteBundle
  <2>2. b \in Contents BY <1>1, <2>1, Importing, FileContents
  <2>3. Bundle # Helper BY DEF Bundle, Helper
  <2>4. s \in ImportSteps /\ s \notin {"rebuild"} \cup Resolving BY DEF ImportSteps, Resolving
  <2> HIDE DEF b
  <2>5. mem' \in Manifests /\ mem'.cleanup = mem.cleanup /\ mem'.status # "imported-preprobed"
    <3>1. mem \in Manifests /\ (proc.at = "bundle" => mem.status # "imported-preprobed")
      BY <2>1, Importing
    <3>2. PICK d \in Contents : d = b BY <2>2
    <3>3. PICK r \in Statuses : /\ r = IF proc.at = "bundle" THEN mem.status ELSE "resuming-import"
                                /\ r # "imported-preprobed"
      BY <3>1 DEF Manifests, Statuses
    <3>4. mem' = [mem EXCEPT !.digest = d, !.status = r] BY <2>1, <3>1, <3>2, <3>3
    <3> QED BY <3>1, <3>3, <3>4 DEF Manifests
  <2> HIDE DEF s
  <2>6. /\ proc' \in Procs /\ proc'.cmd = "import" /\ proc'.at = s /\ proc'.made \subseteq Held
    BY <2>1, <2>4, GoesOn
  <2> QED BY <2>1, <2>2, <2>3, <2>4, <2>5, <2>6, GoWriteKeeps
<1>3. CASE NarrowBundle
  <2> DEFINE dropped == Sources(mem) \ mem.pre.passed
             b == File(mem.pre.passed, {}, 0, built + 1)
             att == [t \in Attempts |-> IF t \in dropped THEN "probe-failed" ELSE mem.att[t]]
  <2>1. /\ proc.cmd = "import" /\ proc.at = "narrow" /\ Go("narrowed")
        /\ files' = [files EXCEPT ![Bundle] = b]
        /\ mem' = [mem EXCEPT !.att = att, !.digest = b, !.succ = Cardinality(mem.pre.passed),
                              !.fail = Cardinality(dropped)]
        /\ manifest' = manifest /\ built' = built + 1
        /\ UNCHANGED <<closeVars, rows, accounts, orphan, recovery>>
    BY <1>3 DEF NarrowBundle
  <2>2. mem \in Manifests /\ mem.status # "imported-preprobed" BY <2>1, Importing
  <2>3. mem.pre.passed \subseteq Attempts /\ dropped \subseteq Attempts
    BY <2>2 DEF Manifests, Sources
  <2>4. b \in Contents BY <1>1, <2>3, FileContents
  <2>5. Bundle # Helper BY DEF Bundle, Helper
  <2>6. /\ Cardinality(mem.pre.passed) \in Nat /\ Cardinality(dropped) \in Nat
        /\ att \in [Attempts -> {"registered", "failed", "probe-failed", "none"}]
    BY <2>2, <2>3, BatchAssumption, FS_Subset, FS_CardinalityType DEF Manifests
  <2> HIDE DEF b, att, dropped
  <2>7. mem' \in Manifests /\ mem'.cleanup = mem.cleanup /\ mem'.status # "imported-preprobed"
    BY <2>1, <2>2, <2>4, <2>6 DEF Manifests
  <2>8. /\ proc' \in Procs /\ proc'.cmd = "import" /\ proc'.at = "narrowed"
        /\ proc'.made \subseteq Held
    BY <2>1, GoesOn DEF ImportSteps
  <2>9. proc'.at \notin {"rebuild"} \cup Resolving BY <2>8 DEF Resolving
  <2> QED BY <2>1, <2>4, <2>5, <2>7, <2>8, <2>9, GoWriteKeeps
<1>4. CASE WritePending
  <2> DEFINE b == File(Missing, {}, 0, built)
  <2>1. /\ proc.cmd = "import" /\ proc.at = "pending" /\ Go("helper")
        /\ files' = [files EXCEPT ![Pending] = b]
        /\ mem' = mem /\ manifest' = manifest /\ built' = built
        /\ UNCHANGED <<closeVars, rows, accounts, orphan, recovery>>
    BY <1>4 DEF WritePending
  <2>2. Missing \subseteq Attempts BY DEF Missing, Sources
  <2>3. b \in Contents BY <1>1, <2>2, FileContents
  <2>4. Pending # Helper BY DEF Pending, Helper
  <2>5. /\ proc' \in Procs /\ proc'.cmd = "import" /\ proc'.at = "helper"
        /\ proc'.made \subseteq Held
    BY <2>1, GoesOn DEF ImportSteps
  <2>6. proc'.at \notin {"rebuild"} \cup Resolving BY <2>5 DEF Resolving
  <2> HIDE DEF b
  <2> QED BY <2>1, <2>3, <2>4, <2>5, <2>6, Importing, GoWriteKeeps
<1> QED BY <1>2, <1>3, <1>4

\* The import helper, and what it reports.
LEMMA HelperKeeps ==
  ASSUME IInv, UNCHANGED closeVars, RunHelper \/ LogHelper
  PROVE  IInv'
<1> USE DEF At
<1>1. built \in Nat /\ built + 1 \in Nat BY DEF IInv, TypeOK, BatchTypeOK
<1>2. CASE RunHelper
  <2>1. PICK S \in SUBSET Missing, outcome \in {"failed", "ok"} :
          /\ RoomFor(Cardinality(S)) /\ accounts' = Created(S)
          /\ proc' = [proc EXCEPT !.at = "helped", !.helper = outcome,
                                  !.made = NewIds(Cardinality(S)), !.dump = built + 1]
    BY <1>2 DEF RunHelper
  <2>2. /\ proc.cmd = "import" /\ proc.at = "helper" /\ built' = built + 1
        /\ UNCHANGED <<closeVars, manifest, files, rows, orphan, mem, recovery>>
    BY <1>2 DEF RunHelper
  <2>3. S \in SUBSET Attempts BY DEF Missing, Sources
  <2>4. /\ accounts' \in [Ids -> Accounts \cup {None}] /\ Grows /\ AccountsNumbered'
        /\ NewIds(Cardinality(S)) \subseteq Held'
    BY <2>1, <2>3, NewAccounts DEF IInv, TypeOK, BatchTypeOK
  <2>5. NewIds(Cardinality(S)) \subseteq Ids BY <2>4 DEF Held
  <2>6. /\ proc' \in Procs /\ proc'.cmd = "import" /\ proc'.at = "helped"
        /\ proc'.made \subseteq Held'
    BY <1>1, <2>1, <2>2, <2>4, <2>5, Importing DEF Procs, ImportSteps
  <2>7. /\ files' \in [Names -> Contents \cup {None}]
        /\ \A t \in Attempts : files'[Auth(t)] = files[Auth(t)]
    BY <2>2 DEF IInv, TypeOK, BatchTypeOK
  <2>8. files'[Helper] # None => files'[Helper].ids \subseteq Held'
    BY <2>2, <2>4, GrownServes DEF IInv, AccountsReal
  <2>9. proc'.at # "rebuild" /\ proc'.at \notin Resolving BY <2>6 DEF Resolving
  <2>10. built <= built' /\ built' \in Nat BY <1>1, <2>2
  <2> QED BY <2>2, <2>4, <2>6, <2>7, <2>8, <2>9, <2>10, Importing, GoKeeps
<1>3. CASE LogHelper
  <2> DEFINE c == IF proc.helper = "ok" THEN File(Missing, proc.made, proc.dump, built)
                                        ELSE File({}, {}, 0, built)
  <2>1. /\ proc.cmd = "import" /\ proc.at = "helped" /\ Go("checked")
        /\ files' = [files EXCEPT ![Helper] = c]
        /\ mem' = mem /\ manifest' = manifest /\ built' = built
        /\ UNCHANGED <<closeVars, rows, accounts, orphan, recovery>>
    BY <1>3 DEF LogHelper
  <2>2. /\ Missing \in SUBSET Attempts /\ proc.made \in SUBSET Ids /\ proc.made \subseteq Held
        /\ proc.dump \in Nat
    BY <2>1, Importing DEF Missing, Sources, Procs
  <2>3. c \in Contents /\ c.ids \subseteq Held BY <1>1, <2>2, FileContents
  <2> HIDE DEF c
  <2>4. /\ proc' \in Procs /\ proc'.cmd = "import" /\ proc'.at = "checked"
        /\ proc'.made \subseteq Held
    BY <2>1, GoesOn DEF ImportSteps
  <2>5. proc'.at \notin {"rebuild"} \cup Resolving BY <2>4 DEF Resolving
  <2> QED BY <2>1, <2>3, <2>4, <2>5, Importing, GoWriteKeeps
<1> QED BY <1>2, <1>3

\* What holds of an import from reconcile on.
LEMMA Reconciling ==
  ASSUME IInv, proc.cmd = "import", proc.at \in Resolving
  PROVE  /\ DOMAIN found = Sources(mem) /\ Serves(found) /\ FoundIds \subseteq Held
         /\ proc.at # "reconcile" => \A i \in FoundIds : accounts[i].proper
<1>1. DOMAIN found = Sources(mem) /\ Serves(found) BY DEF IInv, ImportTrue
<1>2. FoundIds \subseteq Held BY <1>1 DEF FoundIds, Serves, AccountsOf
<1> QED BY <1>1, <1>2 DEF IInv, ImportTrue

\* A saved or an ended manifest with another status.
LEMMA StatusKeeps ==
  ASSUME IInv, proc.cmd = "import", NEW s \in Statuses \ {"imported-preprobed"}
  PROVE  /\ Status(mem, s) \in Manifests /\ Status(mem, s).cleanup = mem.cleanup
         /\ Status(mem, s).status # "imported-preprobed"
<1>1. mem \in Manifests BY Importing
<1> QED BY <1>1 DEF Status, Manifests

LEMMA ReconcileKeeps ==
  ASSUME IInv, UNCHANGED closeVars, Reconcile
  PROVE  IInv'
<1>1. PICK done \in SUBSET FoundIds :
        /\ accounts' = [i \in Ids |-> IF i \in done THEN [accounts[i] EXCEPT !.proper = TRUE]
                                                    ELSE accounts[i]]
        /\ IF done = FoundIds
           THEN Go("verify") /\ UNCHANGED <<manifest, mem, found>>
           ELSE EndWith(Status(mem, "import-verification-failed"))
  BY DEF Reconcile
<1>2. /\ proc.cmd = "import" /\ proc.at = "reconcile" /\ built' = built
      /\ UNCHANGED <<closeVars, files, rows, orphan, recovery, built>>
  BY DEF Reconcile, At
<1>3. DOMAIN found = Sources(mem) /\ Serves(found) /\ FoundIds \subseteq Held
  BY <1>2, Reconciling DEF Resolving
<1>4. accounts \in [Ids -> Accounts \cup {None}] /\ built \in Nat
  BY DEF IInv, TypeOK, BatchTypeOK
<1>5. \A i \in done : accounts[i] \in Accounts BY <1>3, <1>4 DEF Held
<1>6. accounts' \in [Ids -> Accounts \cup {None}] BY <1>1, <1>4, <1>5 DEF Accounts
<1>7. \A i \in Ids : /\ accounts'[i] = None <=> accounts[i] = None
                     /\ accounts[i] # None => /\ accounts'[i].of = accounts[i].of
                                              /\ accounts[i].proper => accounts'[i].proper
  <2>1. ASSUME NEW i \in done
        PROVE  /\ accounts'[i] \in Accounts /\ accounts'[i].of = accounts[i].of /\ accounts'[i].proper
    BY <1>1, <1>3, <1>5 DEF Accounts, Held
  <2>2. \A i \in Ids \ done : accounts'[i] = accounts[i] BY <1>1
  <2> QED BY <1>5, <2>1, <2>2, NoneAssumption
<1>8. Grows /\ AccountsNumbered' BY <1>4, <1>6, <1>7, ChangedAccounts DEF IInv
<1>9. CASE done = FoundIds
  <2>1. Go("verify") /\ UNCHANGED <<manifest, mem, found>> BY <1>1, <1>9
  <2>2. /\ proc' \in Procs /\ proc'.cmd = "import" /\ proc'.at = "verify"
        /\ proc'.made \subseteq Held
    BY <1>2, <2>1, GoesOn DEF ImportSteps
  <2>3. Held \subseteq Held' /\ Serves(found)'
    BY <1>3, <1>8, <2>1, GrownServes DEF Serves
  <2>4. DOMAIN found' = Sources(mem)' BY <1>3, <2>1 DEF Sources
  <2>5. \A i \in FoundIds' : accounts'[i].proper
    <3>1. FoundIds' = FoundIds BY <2>1 DEF FoundIds
    <3> QED BY <1>1, <1>3, <1>4, <1>5, <1>9, <3>1 DEF Accounts, Held
  <2>6. files' \in [Names -> Contents \cup {None}] /\ files' = files
    BY <1>2 DEF IInv, TypeOK, BatchTypeOK
  <2>7. files'[Helper] # None => files'[Helper].ids \subseteq Held'
    BY <2>3, <2>6 DEF IInv, AccountsReal
  <2>8. \A t \in Attempts : files'[Auth(t)] = files[Auth(t)] BY <2>6
  <2>9. built <= built' /\ built' \in Nat BY <1>2, <1>4
  <2>10. /\ mem' \in Manifests /\ mem'.cleanup = mem.cleanup /\ manifest' = manifest
         /\ mem'.status # "imported-preprobed"
    BY <1>2, <2>1, Importing
  <2>11. proc'.made \subseteq Held' /\ proc'.at # "rebuild" BY <2>2, <2>3
  <2> QED BY <1>2, <1>6, <1>8, <2>2, <2>3, <2>4, <2>5, <2>6, <2>7, <2>8, <2>9, <2>10, <2>11, GoKeeps
<1>10. CASE done # FoundIds
  <2>1. Exit /\ manifest' = Status(mem, "import-verification-failed")
    BY <1>1, <1>10 DEF EndWith
  <2>2. "import-verification-failed" \in Statuses \ {"imported-preprobed"} BY DEF Statuses
  <2>3. /\ manifest' \in Manifests /\ manifest'.cleanup = mem.cleanup
        /\ manifest'.status # "imported-preprobed"
    BY <1>2, <2>1, <2>2, StatusKeeps
  <2>4. orphan' \subseteq Attempts BY <1>2 DEF IInv, TypeOK, BatchTypeOK
  <2> QED BY <1>2, <1>6, <1>8, <2>1, <2>3, <2>4, EndKeeps
<1> QED BY <1>9, <1>10

\* A command that ends and leaves the accounts as they are.
LEMMA StopKeeps ==
  ASSUME IInv, UNCHANGED <<closeVars, files, rows, accounts, recovery, built>>, Exit,
         orphan' \subseteq Attempts,
         \/ manifest' = manifest
         \/ /\ proc.cmd = "import" /\ manifest' \in Manifests /\ manifest'.cleanup = mem.cleanup
            /\ manifest'.status # "imported-preprobed" \/ ImportedIsTrue'
  PROVE  IInv'
<1>1. accounts' = accounts /\ UNCHANGED <<closeVars, files, rows, recovery, built>> OBVIOUS
<1>2. Held' = Held /\ Grows BY <1>1 DEF Held, Grows
<1>3. AccountsNumbered' BY <1>2 DEF IInv, AccountsNumbered
<1>4. accounts' \in [Ids -> Accounts \cup {None}] BY <1>1 DEF IInv, TypeOK, BatchTypeOK
<1> QED BY <1>1, <1>2, <1>3, <1>4, EndKeeps

\* An import that ends short of its goal.
LEMMA ShortKeeps ==
  ASSUME IInv, UNCHANGED closeVars,
         SkipImport \/ NoImport \/ PreprobeFailed \/ ImportRaises \/ HelperFailed \/ PostProbeFailed
  PROVE  IInv'
<1>1. orphan \subseteq Attempts BY DEF IInv, TypeOK, BatchTypeOK
<1>2. ASSUME proc.cmd = "import", NEW s \in Statuses \ {"imported-preprobed"},
             EndWith(Status(mem, s)),
             UNCHANGED <<closeVars, files, rows, accounts, orphan, recovery, built>>
      PROVE  IInv'
  <2>1. Exit /\ manifest' = Status(mem, s) BY <1>2 DEF EndWith
  <2>2. /\ manifest' \in Manifests /\ manifest'.cleanup = mem.cleanup
        /\ manifest'.status # "imported-preprobed"
    BY <1>2, <2>1, StatusKeeps
  <2> QED BY <1>1, <1>2, <2>1, <2>2, StopKeeps
<1>3. CASE SkipImport
  <2>1. /\ proc.cmd = "import" /\ EndWith(Status(mem, "registration-failed-import-skipped"))
        /\ UNCHANGED <<closeVars, files, rows, accounts, orphan, recovery, built>>
    BY <1>3 DEF SkipImport, At
  <2> QED BY <1>2, <2>1 DEF Statuses
<1>4. CASE NoImport
  <2>1. /\ proc.cmd = "import" /\ EndWith(Status(mem, "registered-not-imported"))
        /\ UNCHANGED <<closeVars, files, rows, accounts, orphan, recovery, built>>
    BY <1>4 DEF NoImport, At
  <2> QED BY <1>2, <2>1 DEF Statuses
<1>5. CASE PreprobeFailed
  <2> DEFINE att == [t \in Attempts |-> IF proc.partial /\ mem.att[t] = "registered"
                                        THEN "probe-failed" ELSE mem.att[t]]
  <2>1. /\ proc.cmd = "import" /\ Exit
        /\ manifest' = [mem EXCEPT !.status = "preimport-probe-failed", !.att = att]
        /\ UNCHANGED <<closeVars, files, rows, accounts, orphan, recovery, built>>
    BY <1>5 DEF PreprobeFailed, EndWith, At
  <2>2. mem \in Manifests BY <2>1, Importing
  <2>3. att \in [Attempts -> {"registered", "failed", "probe-failed", "none"}]
    BY <2>2 DEF Manifests
  <2> HIDE DEF att
  <2>4. /\ manifest' \in Manifests /\ manifest'.cleanup = mem.cleanup
        /\ manifest'.status # "imported-preprobed"
    BY <2>1, <2>2, <2>3 DEF Manifests, Statuses
  <2> QED BY <1>1, <2>1, <2>4, StopKeeps
<1>6. CASE ImportRaises
  <2>1. /\ Exit /\ manifest' = manifest
        /\ UNCHANGED <<closeVars, files, rows, accounts, orphan, recovery, built>>
    BY <1>6 DEF ImportRaises, RaiseAt, diskVars
  <2> QED BY <1>1, <2>1, StopKeeps
<1>7. CASE HelperFailed
  <2>1. PICK s \in {"import-failed", "import-verification-failed"} : EndWith(Status(mem, s))
    BY <1>7 DEF HelperFailed
  <2>2. /\ proc.cmd = "import"
        /\ UNCHANGED <<closeVars, files, rows, accounts, orphan, recovery, built>>
    BY <1>7 DEF HelperFailed, At
  <2>3. s \in Statuses \ {"imported-preprobed"} BY DEF Statuses
  <2> QED BY <1>2, <2>1, <2>2, <2>3
<1>8. CASE PostProbeFailed
  <2>1. /\ proc.cmd = "import" /\ EndWith(Status(mem, "postimport-account-probe-failed"))
        /\ UNCHANGED <<closeVars, files, rows, accounts, orphan, recovery, built>>
    BY <1>8 DEF PostProbeFailed, At
  <2> QED BY <1>2, <2>1 DEF Statuses
<1> QED BY <1>3, <1>4, <1>5, <1>6, <1>7, <1>8

\* What is resolved by hash are accounts of those attempts.
LEMMA ResolvedServes ==
  ASSUME NEW ts
  PROVE  DOMAIN Resolved(ts) \subseteq ts /\ Serves(Resolved(ts))
<1>1. \A t \in DOMAIN Resolved(ts) : t \in ts /\ Resolved(ts)[t] \in Matches(t) BY DEF Resolved
<1> QED BY <1>1 DEF Serves, Matches

\* From the accounts that are all there to the end of the import.
LEMMA VerifyKeeps ==
  ASSUME IInv, UNCHANGED closeVars,
         ResolveAgain \/ VerifyState \/ PostProbe \/ GroupProbe \/ Imported
  PROVE  IInv'
<1> USE DEF At
<1>1. orphan \subseteq Attempts BY DEF IInv, TypeOK, BatchTypeOK
<1>2. ASSUME proc.cmd = "import", NEW s \in Statuses \ {"imported-preprobed"},
             EndWith(Status(mem, s)),
             UNCHANGED <<closeVars, files, rows, accounts, orphan, recovery, built>>
      PROVE  IInv'
  <2>1. Exit /\ manifest' = Status(mem, s) BY <1>2 DEF EndWith
  <2>2. /\ manifest' \in Manifests /\ manifest'.cleanup = mem.cleanup
        /\ manifest'.status # "imported-preprobed"
    BY <1>2, <2>1, StatusKeeps
  <2> QED BY <1>1, <1>2, <2>1, <2>2, StopKeeps
<1>3. ASSUME proc.cmd = "import", proc.at \in Resolving \ {"reconcile"},
             NEW s \in ImportSteps \ {"rebuild"}, Go(s), UNCHANGED <<mem, manifest, found>>,
             UNCHANGED <<closeVars, files, rows, accounts, orphan, recovery, built>>
      PROVE  IInv'
  <2>1. proc' \in Procs /\ proc'.cmd = "import" /\ proc'.at = s /\ proc'.made \subseteq Held
    BY <1>3, GoesOn
  <2>2. DOMAIN found = Sources(mem) /\ Serves(found) /\ \A i \in FoundIds : accounts[i].proper
    BY <1>3, Reconciling
  <2>3. DOMAIN found' = Sources(mem)' BY <1>3, <2>2 DEF Sources
  <2>4. Serves(found)' BY <1>3, <2>2 DEF Serves, AccountsOf, Held
  <2>5. \A i \in FoundIds' : accounts[i].proper BY <1>3, <2>2 DEF FoundIds
  <2>6. mem \in Manifests /\ mem.status # "imported-preprobed" BY <1>3, Importing DEF Resolving
  <2> QED BY <1>3, <2>1, <2>3, <2>4, <2>5, <2>6, GoAloneKeeps
<1>4. CASE ResolveAgain
  <2>1. /\ proc.cmd = "import" /\ proc.at = "resolve-again"
        /\ UNCHANGED <<closeVars, files, rows, accounts, orphan, recovery, built>>
    BY <1>4 DEF ResolveAgain
  <2>2. CASE DOMAIN Resolved(Sources(mem)) = Sources(mem)
    <3>1. /\ found' = Resolved(Sources(mem)) /\ Go("reconcile") /\ UNCHANGED <<manifest, mem>>
      BY <1>4, <2>2 DEF ResolveAgain
    <3>2. /\ proc' \in Procs /\ proc'.cmd = "import" /\ proc'.at = "reconcile"
          /\ proc'.made \subseteq Held
      BY <2>1, <3>1, GoesOn DEF ImportSteps
    <3>3. DOMAIN found' = Sources(mem)' BY <2>2, <3>1 DEF Sources
    <3>4. Serves(found)'
      <4>1. Serves(Resolved(Sources(mem))) BY ResolvedServes
      <4>2. \A t : AccountsOf(t)' = AccountsOf(t) BY <2>1 DEF AccountsOf, Held
      <4> HIDE DEF Resolved
      <4> QED BY <3>1, <4>1, <4>2 DEF Serves
    <3>5. mem \in Manifests /\ mem.status # "imported-preprobed" BY <2>1, Importing
    <3> QED BY <2>1, <3>1, <3>2, <3>3, <3>4, <3>5, GoAloneKeeps
  <2>3. CASE DOMAIN Resolved(Sources(mem)) # Sources(mem)
    <3>1. EndWith(Status(mem, "import-verification-failed")) BY <1>4, <2>3 DEF ResolveAgain
    <3> QED BY <1>2, <2>1, <3>1 DEF Statuses
  <2> QED BY <2>2, <2>3
<1>5. CASE VerifyState
  <2>1. /\ proc.cmd = "import" /\ proc.at = "verify"
        /\ UNCHANGED <<closeVars, files, rows, accounts, orphan, recovery, built>>
        /\ \/ Go("postprobe") /\ UNCHANGED <<mem, manifest, found>>
           \/ EndWith(Status(mem, "import-verification-failed"))
    BY <1>5 DEF VerifyState
  <2> QED BY <1>2, <1>3, <2>1 DEF Statuses, ImportSteps, Resolving
<1>6. CASE PostProbe
  <2>1. PICK post \in {"passed", "spent", "failed"} :
          /\ mem' = [mem EXCEPT !.post = post] /\ manifest' = mem'
          /\ Go("group") \/ Go("postfailed")
    BY <1>6 DEF PostProbe, Save
  <2>2. /\ proc.cmd = "import" /\ proc.at = "postprobe" /\ found' = found
        /\ UNCHANGED <<closeVars, files, rows, accounts, orphan, recovery, built>>
    BY <1>6 DEF PostProbe
  <2>3. /\ proc' \in Procs /\ proc'.cmd = "import" /\ proc'.at \in {"group", "postfailed"}
        /\ proc'.made \subseteq Held
    BY <2>1, <2>2, GoesOn DEF ImportSteps
  <2>4. mem \in Manifests /\ mem.status # "imported-preprobed" BY <2>2, Importing
  <2>5. /\ mem' \in Manifests /\ mem'.cleanup = mem.cleanup /\ mem'.att = mem.att
        /\ mem'.status # "imported-preprobed"
    BY <2>1, <2>4 DEF Manifests
  <2>6. DOMAIN found = Sources(mem) /\ Serves(found) /\ \A i \in FoundIds : accounts[i].proper
    BY <2>2, Reconciling DEF Resolving
  <2>7. DOMAIN found' = Sources(mem)' BY <2>2, <2>5, <2>6 DEF Sources
  <2>8. Serves(found)' BY <2>2, <2>6 DEF Serves, AccountsOf, Held
  <2>9. \A i \in FoundIds' : accounts[i].proper BY <2>2, <2>6 DEF FoundIds
  <2>10. manifest' = mem' BY <2>1
  <2> QED BY <2>2, <2>3, <2>5, <2>7, <2>8, <2>9, <2>10, GoAloneKeeps
<1>7. CASE GroupProbe
  <2>1. /\ proc.cmd = "import" /\ proc.at = "group"
        /\ UNCHANGED <<closeVars, files, rows, accounts, orphan, recovery, built>>
        /\ \/ Go("finish") /\ UNCHANGED <<mem, manifest, found>>
           \/ EndWith(Status(mem, "postimport-probe-failed"))
    BY <1>7 DEF GroupProbe
  <2> QED BY <1>2, <1>3, <2>1 DEF Statuses, ImportSteps, Resolving
<1>8. CASE Imported
  <2> DEFINE s == IF mem.pre.passed = Sources(mem) THEN "imported-preprobed"
                                                   ELSE "imported-not-probed"
  <2>1. /\ proc.cmd = "import" /\ proc.at = "finish" /\ Exit
        /\ manifest' = [mem EXCEPT !.status = s, !.ids = FoundIds]
        /\ UNCHANGED <<closeVars, files, rows, accounts, orphan, recovery, built>>
    BY <1>8 DEF Imported, EndWith
  <2>2. /\ DOMAIN found = Sources(mem) /\ Serves(found) /\ FoundIds \subseteq Held
        /\ \A i \in FoundIds : accounts[i].proper
    BY <2>1, Reconciling DEF Resolving
  <2>3. mem \in Manifests BY <2>1, Importing
  <2>4. s \in Statuses /\ FoundIds \subseteq Ids BY <2>2 DEF Statuses, Held
  <2>5. s = "imported-preprobed" => mem.pre.passed = Sources(mem) OBVIOUS
  <2> HIDE DEF s
  <2>6. /\ manifest' \in Manifests /\ manifest'.cleanup = mem.cleanup /\ manifest'.att = mem.att
        /\ manifest'.pre = mem.pre /\ manifest'.status = s /\ manifest'.ids = FoundIds
    BY <2>1, <2>3, <2>4 DEF Manifests
  <2>7. ImportedIsTrue'
    <3> SUFFICES ASSUME s = "imported-preprobed", NEW t \in Sources(mem)
        PROVE  /\ t \in mem.pre.passed
               /\ \E i \in FoundIds \cap AccountsOf(t) : accounts[i].proper
      BY <2>1, <2>6 DEF ImportedIsTrue, Sources, AccountsOf, Held
    <3>1. t \in mem.pre.passed BY <2>5
    <3>2. found[t] \in FoundIds \cap AccountsOf(t) BY <2>2 DEF FoundIds, Serves
    <3> QED BY <2>2, <3>1, <3>2
  <2> QED BY <1>1, <2>1, <2>6, <2>7, StopKeeps
<1> QED BY <1>4, <1>5, <1>6, <1>7, <1>8

\* A step that leaves the accounts, and what a command has in hand, as they are.
LEMMA QuietKeeps ==
  ASSUME IInv, UNCHANGED <<closeVars, accounts, orphan, proc, mem, found>>,
         manifest' \in Manifests, files' \in [Names -> Contents \cup {None}],
         rows' \in [Attempts -> {"granted", "created", "none"}],
         recovery' = NoRecovery \/ recovery' \in [at : {"grants", "save"}, mem : Manifests],
         built' \in {built, built + 1},
         \A t \in Attempts : files[Auth(t)] # None => files'[Auth(t)] # None,
         \A t \in Attempts : rows'[t] = "granted" => rows[t] = "granted" \/ files'[Auth(t)] # None,
         files'[Helper] = files[Helper],
         recovery'.at = "save" => recovery'.mem.status # "imported-preprobed",
         recovery'.at # "idle" => Follows(recovery.mem)',
         \/ manifest' = manifest
         \/ Follows(manifest)' /\ ImportedIsTrue'
  PROVE  IInv'
<1>1. built <= built' /\ built' \in Nat
  <2>1. built \in Nat BY DEF IInv, TypeOK, BatchTypeOK
  <2> QED BY <2>1
<1>2. accounts' = accounts /\ UNCHANGED closeVars /\ UNCHANGED <<proc, mem, found>> OBVIOUS
<1>3. Held' = Held /\ Grows BY <1>2 DEF Held, Grows
<1>4. AccountsNumbered' BY <1>3 DEF IInv, AccountsNumbered
<1>5. BatchTypeOK' BY <1>1 DEF IInv, TypeOK, BatchTypeOK
<1>6. proc'.made \subseteq Held' BY <1>2, <1>3 DEF IInv, AccountsReal
<1>7. files'[Helper] # None => files'[Helper].ids \subseteq Held'
  BY <1>3 DEF IInv, AccountsReal
<1>8. ImportTrue'
  <2>1. Sources(mem)' = Sources(mem) /\ FoundIds' = FoundIds BY <1>2 DEF Sources, FoundIds
  <2>2. Serves(found)' <=> Serves(found) BY <1>2, <1>3 DEF Serves, AccountsOf
  <2> QED BY <1>2, <2>1, <2>2 DEF IInv, ImportTrue
<1>9. CopiesFollow'
  <2>1. Follows(manifest)' BY <1>2 DEF IInv, CopiesFollow, Follows, Left, closeVars
  <2>2. proc'.cmd \in {"import", "prepare"} => Follows(mem)'
    BY <1>2 DEF IInv, CopiesFollow, Follows, Left, closeVars
  <2> QED BY <2>1, <2>2 DEF CopiesFollow
<1>10. ImportedIsTrue' BY <1>3, ImportedStays DEF IInv
<1> QED BY <1>1, <1>2, <1>3, <1>4, <1>5, <1>6, <1>7, <1>8, <1>9, <1>10, BatchKeeps

-----------------------------------------------------------------------------
(* Resuming, and signing in again.                                         *)

LEMMA ResumeKeeps ==
  ASSUME IInv, UNCHANGED closeVars, Resume
  PROVE  IInv'
<1>1. /\ proc = Idle /\ proc' = [Idle EXCEPT !.cmd = "import", !.at = "rebuild"] /\ mem' = manifest
      /\ UNCHANGED <<closeVars, manifest, files, rows, accounts, orphan, found, recovery, built>>
  BY DEF Resume, diskVars
<1>2. proc' = [cmd |-> "import", at |-> "rebuild", partial |-> FALSE, helper |-> "none",
               made |-> {}, dump |-> 0]
  BY <1>1 DEF Idle
<1>3. proc' \in Procs
  <2>1. "rebuild" \in ImportSteps /\ {} \subseteq Ids BY DEF ImportSteps
  <2> QED BY <1>2, <2>1 DEF Procs
<1>4. BatchTypeOK' BY <1>1, <1>3 DEF IInv, TypeOK, BatchTypeOK
<1>5. Held' = Held /\ Grows BY <1>1 DEF Held, Grows
<1>6. AccountsNumbered' BY <1>5 DEF IInv, AccountsNumbered
<1>7. ImportTrue' BY <1>1, <1>2 DEF IInv, ImportTrue, Resolving
<1>8. CopiesFollow' BY <1>1 DEF IInv, CopiesFollow, Follows, Left, closeVars
<1>9. ImportedIsTrue' BY <1>1, <1>5, ImportedStays DEF IInv
<1>10. files'[Helper] # None => files'[Helper].ids \subseteq Held'
  BY <1>1, <1>5 DEF IInv, AccountsReal
<1>11. built <= built'
  <2>1. built \in Nat BY DEF IInv, TypeOK, BatchTypeOK
  <2> QED BY <1>1, <2>1
<1>12. proc'.made \subseteq Held' /\ proc'.cmd = "import" BY <1>2
<1>13. UNCHANGED closeVars /\ files' = files /\ rows' = rows BY <1>1
<1> QED BY <1>4, <1>5, <1>6, <1>7, <1>8, <1>9, <1>10, <1>11, <1>12, <1>13, BatchKeeps

\* The recovery as it reads, collects grants, or gives up.
LEMMA RecoverKeeps ==
  ASSUME IInv, UNCHANGED closeVars,
         \/ RecoverLoad \/ \E t \in Attempts : RecoverGrant(t)
         \/ RecoverRaises \/ RecoverKilled
  PROVE  IInv'
<1>1. /\ manifest \in Manifests /\ files \in [Names -> Contents \cup {None}]
      /\ rows \in [Attempts -> {"granted", "created", "none"}] /\ built \in Nat
      /\ recovery = NoRecovery \/ recovery \in [at : {"grants", "save"}, mem : Manifests]
  BY DEF IInv, TypeOK, BatchTypeOK
<1>2. CASE RecoverLoad
  <2>1. /\ recovery' = [at |-> "grants", mem |-> manifest]
        /\ UNCHANGED <<closeVars, manifest, files, rows, accounts, orphan, proc, mem, found, built>>
    BY <1>2 DEF RecoverLoad, diskVars
  <2>2. recovery' \in [at : {"grants", "save"}, mem : Manifests] BY <1>1, <2>1
  <2>3. Follows(recovery.mem)' BY <2>1 DEF IInv, CopiesFollow, Follows, Left, closeVars
  <2>4. UNCHANGED <<closeVars, accounts, orphan, proc, mem, found>> /\ UNCHANGED <<manifest, files, rows, built>>
    BY <2>1
  <2>5. recovery'.at # "save" BY <2>1
  <2> QED BY <1>1, <2>2, <2>3, <2>4, <2>5, QuietKeeps
<1>3. ASSUME NEW t \in Attempts, RecoverGrant(t) PROVE IInv'
  <2> DEFINE c == File({t}, {}, 0, 0)
  <2>1. /\ recovery.at = "grants" /\ recovery' = [recovery EXCEPT !.mem.att[t] = "registered"]
        /\ files' = [files EXCEPT ![Auth(t)] = c] /\ rows' = [rows EXCEPT ![t] = "granted"]
        /\ UNCHANGED <<closeVars, manifest, accounts, orphan, proc, mem, found, built>>
    BY <1>3 DEF RecoverGrant
  <2>2. c \in Contents /\ c # None
    <3>1. c \in Contents BY FileContents
    <3> HIDE DEF c
    <3> QED BY <3>1, NoneAssumption
  <2> HIDE DEF c
  <2>3. Auth(t) \in Names /\ Auth(t) # Helper /\ Helper \in Names BY SecretNames DEF Names
  <2>4. /\ files' \in [Names -> Contents \cup {None}] /\ files'[Auth(t)] # None
        /\ \A n \in Names \ {Auth(t)} : files'[n] = files[n]
    BY <1>1, <2>1, <2>2, <2>3
  <2>5. \A u \in Attempts : files[Auth(u)] # None => files'[Auth(u)] # None
    BY <2>4, SecretNames
  <2>6. /\ rows' \in [Attempts -> {"granted", "created", "none"}]
        /\ \A u \in Attempts : rows'[u] = "granted" => rows[u] = "granted" \/ files'[Auth(u)] # None
    BY <1>1, <2>1, <2>4
  <2>7. recovery \in [at : {"grants", "save"}, mem : Manifests]
    BY <1>1, <2>1 DEF NoRecovery
  <2>8. /\ recovery' \in [at : {"grants", "save"}, mem : Manifests] /\ recovery'.at = "grants"
        /\ recovery'.mem.cleanup = recovery.mem.cleanup
    BY <2>1, <2>7 DEF Manifests
  <2>9. Follows(recovery.mem)'
    BY <2>1, <2>8 DEF IInv, CopiesFollow, Follows, Left, closeVars
  <2>10. UNCHANGED <<closeVars, accounts, orphan, proc, mem, found>> /\ UNCHANGED <<manifest, built>>
    BY <2>1
  <2> QED BY <1>1, <2>3, <2>4, <2>5, <2>6, <2>8, <2>9, <2>10, QuietKeeps
<1>4. CASE RecoverRaises \/ RecoverKilled
  <2>1. /\ recovery' = NoRecovery
        /\ UNCHANGED <<closeVars, accounts, orphan, proc, mem, found>>
        /\ UNCHANGED <<manifest, files, rows, built>>
    BY <1>4 DEF RecoverRaises, RecoverKilled, diskVars
  <2>2. recovery'.at = "idle" BY <2>1 DEF NoRecovery
  <2> QED BY <1>1, <2>1, <2>2, QuietKeeps
<1> QED BY <1>2, <1>3, <1>4

\* The recovery as it writes the bundle and the manifest.
LEMMA RecoverWrites ==
  ASSUME IInv, UNCHANGED closeVars, RecoverBundle \/ RecoverNothing \/ RecoverSave
  PROVE  IInv'
<1>1. /\ manifest \in Manifests /\ files \in [Names -> Contents \cup {None}]
      /\ rows \in [Attempts -> {"granted", "created", "none"}] /\ built \in Nat
      /\ recovery = NoRecovery \/ recovery \in [at : {"grants", "save"}, mem : Manifests]
  BY DEF IInv, TypeOK, BatchTypeOK
<1>2. CASE RecoverBundle
  <2> DEFINE b == File(Sources(recovery.mem), {}, 0, built + 1)
             m == [recovery.mem EXCEPT !.digest = b,
                      !.succ = Cardinality(Sources(recovery.mem)),
                      !.fail = Cardinality(FailedOf(recovery.mem)),
                      !.status = "registered-not-imported"]
  <2>1. /\ recovery.at = "grants" /\ recovery' = [at |-> "save", mem |-> m]
        /\ files' = [files EXCEPT ![Bundle] = b] /\ built' = built + 1
        /\ UNCHANGED <<closeVars, manifest, rows, accounts, orphan, proc, mem, found>>
    BY <1>2 DEF RecoverBundle
  <2>2. recovery.mem \in Manifests BY <1>1, <2>1 DEF NoRecovery
  <2>3. Sources(recovery.mem) \subseteq Attempts /\ FailedOf(recovery.mem) \subseteq Attempts
    BY DEF Sources, FailedOf
  <2>4. b \in Contents BY <1>1, <2>3, FileContents
  <2>5. Cardinality(Sources(recovery.mem)) \in Nat /\ Cardinality(FailedOf(recovery.mem)) \in Nat
    BY <2>3, BatchAssumption, FS_Subset, FS_CardinalityType
  <2> HIDE DEF b
  <2>6. m \in Manifests /\ m.cleanup = recovery.mem.cleanup /\ m.status # "imported-preprobed"
    BY <2>2, <2>4, <2>5 DEF Manifests, Statuses
  <2> HIDE DEF m
  <2>7. /\ recovery' \in [at : {"grants", "save"}, mem : Manifests]
        /\ recovery'.mem.cleanup = recovery.mem.cleanup
        /\ recovery'.mem.status # "imported-preprobed"
    BY <2>1, <2>6
  <2>8. Follows(recovery.mem)'
    BY <2>1, <2>7 DEF IInv, CopiesFollow, Follows, Left, closeVars
  <2>9. Bundle \in Names /\ Helper \in Names /\ Bundle # Helper BY DEF Names, Bundle, Helper
  <2>10. /\ files' \in [Names -> Contents \cup {None}]
         /\ \A n \in Names \ {Bundle} : files'[n] = files[n]
    BY <1>1, <2>1, <2>4, <2>9
  <2>11. /\ \A t \in Attempts : files[Auth(t)] # None => files'[Auth(t)] # None
         /\ files'[Helper] = files[Helper]
    BY <2>9, <2>10, SecretNames
  <2>12. UNCHANGED <<closeVars, accounts, orphan, proc, mem, found>> /\ UNCHANGED <<manifest, rows>>
    BY <2>1
  <2> QED BY <1>1, <2>1, <2>7, <2>8, <2>10, <2>11, <2>12, QuietKeeps
<1>3. CASE RecoverNothing \/ RecoverSave
  <2>1. /\ recovery.at \in {"grants", "save"} /\ manifest' = recovery.mem
        /\ recovery.at = "grants" => Sources(recovery.mem) = {}
        /\ recovery' = NoRecovery
        /\ UNCHANGED <<closeVars, files, rows, accounts, orphan, proc, mem, found, built>>
    BY <1>3 DEF RecoverNothing, RecoverSave
  <2>2. manifest' \in Manifests BY <1>1, <2>1 DEF NoRecovery
  <2>3. Follows(manifest)' BY <2>1 DEF IInv, CopiesFollow, Follows, Left, closeVars
  <2>4. ImportedIsTrue'
    <3>1. CASE recovery.at = "grants"
      <4>1. Sources(manifest)' = {} BY <2>1, <3>1 DEF Sources
      <4> QED BY <4>1 DEF ImportedIsTrue
    <3>2. CASE recovery.at = "save"
      <4>1. manifest'.status # "imported-preprobed" BY <2>1, <3>2 DEF IInv, ImportTrue
      <4> QED BY <4>1 DEF ImportedIsTrue
    <3> QED BY <2>1, <3>1, <3>2
  <2>5. recovery'.at = "idle" BY <2>1 DEF NoRecovery
  <2>6. UNCHANGED <<closeVars, accounts, orphan, proc, mem, found>> /\ UNCHANGED <<files, rows, built>>
    BY <2>1
  <2> QED BY <1>1, <2>1, <2>2, <2>3, <2>4, <2>5, <2>6, QuietKeeps
<1> QED BY <1>2, <1>3

-----------------------------------------------------------------------------
(* The world around.                                                       *)

LEMMA WorldKeeps ==
  ASSUME IInv, UNCHANGED closeVars, WorldNext
  PROVE  IInv'
<1>1. /\ accounts \in [Ids -> Accounts \cup {None}] /\ orphan \subseteq Attempts
      /\ built \in Nat /\ built + 1 \in Nat
  BY DEF IInv, TypeOK, BatchTypeOK
<1>2. CASE Kill
  <2>1. /\ Exit /\ manifest' = manifest /\ orphan' \in {orphan, orphan \cup Missing}
        /\ UNCHANGED <<closeVars, files, rows, accounts, recovery, built>>
    BY <1>2 DEF Kill, diskVars
  <2>2. orphan' \subseteq Attempts BY <1>1, <2>1 DEF Missing, Sources
  <2> QED BY <2>1, <2>2, StopKeeps
<1>3. ASSUME accounts' \in [Ids -> Accounts \cup {None}], AccountsNumbered', Grows,
             orphan' \subseteq Attempts, built' \in {built, built + 1},
             UNCHANGED <<closeVars, manifest, files, rows, proc, mem, found, recovery>>
      PROVE  IInv'
  <2>1. BatchTypeOK' BY <1>1, <1>3 DEF IInv, TypeOK, BatchTypeOK
  <2>2. Held \subseteq Held' BY <1>3, GrownServes
  <2>3. proc'.made \subseteq Held' BY <1>3, <2>2 DEF IInv, AccountsReal
  <2>4. files'[Helper] # None => files'[Helper].ids \subseteq Held'
    BY <1>3, <2>2 DEF IInv, AccountsReal
  <2>5. ImportTrue'
    <3>1. Sources(mem)' = Sources(mem) /\ FoundIds' = FoundIds BY <1>3 DEF Sources, FoundIds
    <3>2. Serves(found) => Serves(found)' BY <1>3, GrownServes DEF Serves
    <3>3. proc.cmd = "import" /\ proc.at \in Resolving => FoundIds \subseteq Held BY Reconciling
    <3>4. \A i \in Held : accounts[i].proper => accounts'[i].proper BY <1>3, GrownServes
    <3> QED BY <1>3, <3>1, <3>2, <3>3, <3>4 DEF IInv, ImportTrue
  <2>6. ImportedIsTrue' BY <1>3, ImportedStays DEF IInv
  <2>7. CopiesFollow' BY <1>3 DEF IInv, CopiesFollow, Follows, Left, closeVars
  <2>8. built <= built' BY <1>1, <1>3
  <2>9. UNCHANGED closeVars /\ UNCHANGED <<files, rows>> /\ UNCHANGED <<proc, found>> BY <1>3
  <2> QED BY <1>3, <2>1, <2>3, <2>4, <2>5, <2>6, <2>7, <2>8, <2>9, BatchKeeps
<1>4. CASE OrphanEnds
  <2>1. PICK S \in SUBSET orphan : RoomFor(Cardinality(S)) /\ accounts' = Created(S)
    BY <1>4 DEF OrphanEnds
  <2>2. /\ orphan' = {} /\ built' = built + 1
        /\ UNCHANGED <<closeVars, manifest, files, rows, proc, mem, found, recovery>>
    BY <1>4 DEF OrphanEnds
  <2>3. S \in SUBSET Attempts BY <1>1
  <2>4. accounts' \in [Ids -> Accounts \cup {None}] /\ Grows /\ AccountsNumbered'
    BY <1>1, <2>1, <2>3, NewAccounts DEF IInv
  <2> QED BY <1>3, <2>2, <2>4
<1>5. ASSUME NEW i \in Ids, Rotate(i) \/ Deactivate(i) PROVE IInv'
  <2>1. /\ accounts[i] # None
        /\ \/ accounts' = [accounts EXCEPT ![i].rotated = TRUE]
           \/ accounts' = [accounts EXCEPT ![i].active = FALSE]
    BY <1>5 DEF Rotate, Deactivate
  <2>2. /\ UNCHANGED <<closeVars, manifest, files, rows, proc, mem, found, recovery>>
        /\ UNCHANGED <<orphan, built>>
    BY <1>5 DEF Rotate, Deactivate, diskVars
  <2>3. accounts[i] \in Accounts BY <1>1, <2>1
  <2>4. /\ accounts'[i] \in Accounts /\ accounts'[i].of = accounts[i].of
        /\ accounts'[i].proper = accounts[i].proper
        /\ \A j \in Ids \ {i} : accounts'[j] = accounts[j]
        /\ accounts' \in [Ids -> Accounts \cup {None}]
    BY <1>1, <2>1, <2>3 DEF Accounts
  <2>5. \A j \in Ids : /\ accounts'[j] = None <=> accounts[j] = None
                       /\ accounts[j] # None => /\ accounts'[j].of = accounts[j].of
                                                /\ accounts[j].proper => accounts'[j].proper
    BY <2>1, <2>4, NoneAssumption
  <2>6. Grows /\ AccountsNumbered' BY <1>1, <2>4, <2>5, ChangedAccounts DEF IInv
  <2> QED BY <1>1, <1>3, <2>2, <2>4, <2>6
<1> QED BY <1>2, <1>4, <1>5 DEF WorldNext

-----------------------------------------------------------------------------
(* The closeout as it prepares.                                            *)

\* What the artifact maps a source to is an account of its attempt.
LEMMA MappedServes ==
  ASSUME NEW t, NEW ids \in SUBSET Held, NEW i \in Maps(t, ids)
  PROVE  i \in AccountsOf(t)
BY DEF Maps, AccountsOf

\* The steps that leave the closeout's own files alone.
LEMMA PrepareKeeps ==
  ASSUME IInv, PrepareRead \/ PrepareProbed \/ PrepareRaises \/ Confirm
  PROVE  IInv'
<1> USE DEF At
<1>1. /\ manifest \in Manifests /\ accounts \in [Ids -> Accounts \cup {None}]
      /\ orphan \subseteq Attempts /\ built \in Nat
  BY DEF IInv, TypeOK, BatchTypeOK
<1>2. ASSUME UNCHANGED <<closeVars, manifest, files, rows, accounts, orphan, recovery>>,
             proc' \in Procs, proc'.made \subseteq Held, built' \in {built, built + 1},
             \/ /\ proc'.cmd = "prepare" /\ Serves(found') /\ found' \in PartialMaps
                /\ proc.cmd = "prepare" \/ built' = built + 1
                /\ mem' \in Manifests /\ Follows(mem')
             \/ proc'.cmd = "confirm" /\ proc'.at = "journal" /\ artifact # None
      PROVE  IInv'
  <2>1. Held' = Held /\ Grows BY <1>2 DEF Held, Grows
  <2>2. AccountsNumbered' BY <2>1 DEF IInv, AccountsNumbered
  <2>3. BatchTypeOK' BY <1>1, <1>2 DEF IInv, TypeOK, BatchTypeOK
  <2>4. ImportTrue' BY <1>2 DEF IInv, ImportTrue
  <2>5. ImportedIsTrue' BY <1>2, <2>1, ImportedStays DEF IInv
  <2>6. CopiesFollow' BY <1>2 DEF IInv, CopiesFollow, Follows, Left, closeVars
  <2>7. files'[Helper] # None => files'[Helper].ids \subseteq Held'
    BY <1>2, <2>1 DEF IInv, AccountsReal
  <2>8. built <= built' BY <1>1, <1>2
  <2>9. Serves(found') => Serves(found)' BY <1>2, <2>1 DEF Serves, AccountsOf
  <2>10. UNCHANGED closeVars /\ files' = files /\ rows' = rows /\ proc'.made \subseteq Held'
    BY <1>2, <2>1
  <2> QED BY <1>2, <2>1, <2>2, <2>3, <2>4, <2>5, <2>6, <2>7, <2>8, <2>9, <2>10, BatchKeeps
<1>3. CASE PrepareRead
  <2> DEFINE ids == files[Helper].ids
             f == [t \in Sources(manifest) |-> CHOOSE i \in Maps(t, ids) : TRUE]
  <2>1. /\ Mapped(manifest) /\ ImportEvidence(manifest) /\ mem' = manifest /\ found' = f
        /\ proc' = [Idle EXCEPT !.cmd = "prepare", !.at = "probe"] /\ built' = built + 1
        /\ UNCHANGED <<closeVars, manifest, files, rows, accounts, orphan, recovery>>
    BY <1>3 DEF PrepareRead, diskVars
  <2>2. ids \subseteq Held BY <2>1 DEF IInv, AccountsReal, ImportEvidence
  <2>3. \A t \in Sources(manifest) : Maps(t, ids) # {} BY <2>1 DEF Mapped
  <2>4. \A t \in Sources(manifest) : f[t] \in AccountsOf(t)
    <3>1. \A t \in Sources(manifest) : f[t] \in Maps(t, ids) BY <2>3
    <3> HIDE DEF f, ids
    <3> QED BY <2>2, <3>1, MappedServes
  <2>5. Sources(manifest) \subseteq Attempts BY DEF Sources
  <2>6. f \in [Sources(manifest) -> Ids] BY <2>4 DEF AccountsOf, Held
  <2>7. DOMAIN f = Sources(manifest) OBVIOUS
  <2> HIDE DEF f
  <2>8. found' \in PartialMaps /\ Serves(found')
    BY <2>1, <2>4, <2>5, <2>6, <2>7 DEF PartialMaps, Serves
  <2>9. proc' = [cmd |-> "prepare", at |-> "probe", partial |-> FALSE, helper |-> "none",
                 made |-> {}, dump |-> 0]
    BY <2>1 DEF Idle
  <2>10. proc' \in Procs /\ proc'.cmd = "prepare" /\ proc'.made \subseteq Held
    <3>1. "probe" \in PrepareSteps /\ {} \subseteq Ids /\ {} \subseteq Held BY DEF PrepareSteps
    <3> QED BY <2>9, <3>1 DEF Procs
  <2>11. Follows(mem') BY <2>1 DEF IInv, CopiesFollow
  <2> QED BY <1>1, <1>2, <2>1, <2>8, <2>10, <2>11
<1>4. CASE PrepareProbed
  <2>1. /\ proc.cmd = "prepare" /\ Go("write") /\ UNCHANGED <<mem, found, built>>
        /\ UNCHANGED <<closeVars, manifest, files, rows, accounts, orphan, recovery>>
    BY <1>4 DEF PrepareProbed, diskVars
  <2>2. proc \in Procs
    <3>1. proc # Idle BY <2>1 DEF Idle
    <3> QED BY <3>1 DEF IInv, TypeOK, BatchTypeOK
  <2>3. proc' \in Procs /\ proc'.cmd = "prepare" /\ proc'.made = proc.made
    BY <2>1, <2>2 DEF Go, Procs, PrepareSteps
  <2>4. proc.made \subseteq Held /\ Serves(found) /\ found \in PartialMaps
    BY <2>1 DEF IInv, AccountsReal
  <2>5. mem \in Manifests /\ Follows(mem)
    BY <2>1 DEF IInv, TypeOK, BatchTypeOK, CopiesFollow
  <2>6. Serves(found') /\ found' \in PartialMaps /\ mem' \in Manifests /\ Follows(mem')
    BY <2>1, <2>4, <2>5
  <2> QED BY <1>2, <2>1, <2>3, <2>4, <2>6
<1>5. CASE PrepareRaises
  <2>1. /\ Exit /\ manifest' = manifest
        /\ UNCHANGED <<closeVars, files, rows, accounts, orphan, recovery, built>>
    BY <1>5 DEF PrepareRaises, RaiseAt, diskVars
  <2>2. orphan' \subseteq Attempts BY <1>1, <2>1
  <2> QED BY <2>1, <2>2, StopKeeps
<1>6. CASE Confirm
  <2>1. /\ artifact # None /\ proc' = [Idle EXCEPT !.cmd = "confirm", !.at = "journal"]
        /\ built' = built
        /\ UNCHANGED <<closeVars, manifest, files, rows, accounts, orphan, recovery>>
    BY <1>6 DEF Confirm, diskVars
  <2>2. proc' = [cmd |-> "confirm", at |-> "journal", partial |-> FALSE, helper |-> "none",
                 made |-> {}, dump |-> 0]
    BY <2>1 DEF Idle
  <2>3. "journal" \in ConfirmSteps /\ {} \subseteq Ids /\ {} \subseteq Held BY DEF ConfirmSteps
  <2>4. proc' \in Procs /\ proc'.made \subseteq Held /\ proc'.cmd = "confirm" /\ proc'.at = "journal"
    BY <2>2, <2>3 DEF Procs
  <2> QED BY <1>2, <2>1, <2>4
<1> QED BY <1>3, <1>4, <1>5, <1>6

LEMMA ArtifactKeeps ==
  ASSUME IInv, PrepareWrite \/ Expire
  PROVE  IInv'
<1>1. CASE Expire
  <2>1. UNCHANGED <<batchVars, artifact, journal, quarantine, checkpoint, handoff>>
    BY <1>1 DEF Expire
  <2>2. TypeOK' /\ AccountsNumbered' /\ AccountsReal' /\ ImportTrue' /\ ImportedIsTrue'
    BY <2>1 DEF IInv, TypeOK, BatchTypeOK, AccountsNumbered, AccountsReal, ImportTrue,
                ImportedIsTrue, batchVars, diskVars, Held, Serves, AccountsOf, FoundIds, Sources
  <2>3. CopiesFollow' /\ Confirmed' /\ OneArtifact' /\ NothingLost'
    BY <2>1 DEF IInv, CopiesFollow, Confirmed, OneArtifact, NothingLost, batchVars, diskVars,
                Follows, Left, Name, AccountsOf, Held
  <2> QED BY <2>2, <2>3 DEF IInv
<1>2. CASE PrepareWrite
  <2>1. /\ proc.cmd = "prepare" /\ Exit
        /\ artifact' = [no |-> built, ids |-> found, sha |-> [n \in Names |-> files[n]]]
        /\ UNCHANGED <<manifest, files, rows, accounts, orphan, recovery, built>>
        /\ UNCHANGED <<journal, quarantine, checkpoint, handoff>>
    BY <1>2 DEF PrepareWrite, At, BatchKept
  <2>2. proc' = Idle /\ proc'.cmd = "none" /\ proc'.made = {} BY <2>1 DEF Exit, Idle
  <2>3. built \in Nat /\ files \in [Names -> Contents \cup {None}]
    BY DEF IInv, TypeOK, BatchTypeOK
  <2>4. Serves(found) /\ found \in PartialMaps BY <2>1 DEF IInv, AccountsReal
  <2>5. Held' = Held /\ \A t : AccountsOf(t)' = AccountsOf(t) BY <2>1 DEF Held, AccountsOf
  <2>6. TypeOK'
    <3>1. artifact' \in [no : 0..built, ids : PartialMaps, sha : [Names -> Contents \cup {None}]]
      BY <2>1, <2>3, <2>4
    <3>2. BatchTypeOK' BY <2>1, <2>2 DEF IInv, TypeOK, BatchTypeOK
    <3> QED BY <2>1, <3>1, <3>2 DEF IInv, TypeOK
  <2>7. AccountsNumbered' BY <2>5 DEF IInv, AccountsNumbered
  <2>8. AccountsReal'
    <3>1. artifact'.ids = found BY <2>1
    <3> QED BY <2>1, <2>2, <2>4, <2>5, <3>1 DEF IInv, AccountsReal, Serves
  <2>9. ImportTrue' BY <2>1, <2>2 DEF IInv, ImportTrue
  <2>10. ImportedIsTrue' BY <2>1, <2>5, ImportedStays DEF IInv, Grows, Held
  <2>11. CopiesFollow' BY <2>1, <2>2 DEF IInv, CopiesFollow, Follows, Left
  <2>12. Confirmed' BY <2>2 DEF Confirmed
  <2>13. OneArtifact'
    <3>1. journal # None => journal.no < built /\ journal.no \in Nat
      BY <2>1 DEF IInv, OneArtifact, TypeOK, Journals
    <3>2. artifact'.no = built BY <2>1
    <3> QED BY <2>1, <2>2, <2>3, <3>1, <3>2 DEF IInv, OneArtifact
  <2>14. NothingLost' BY <2>1, <2>5 DEF IInv, NothingLost
  <2> QED BY <2>6, <2>7, <2>8, <2>9, <2>10, <2>11, <2>12, <2>13, <2>14 DEF IInv
<1> QED BY <1>1, <1>2

-----------------------------------------------------------------------------
(* The closeout as it confirms.                                            *)

\* What a confirmation past its journal knows.
LEMMA Confirming ==
  ASSUME IInv, proc.cmd = "confirm"
  PROVE  /\ proc \in Procs /\ artifact # None /\ artifact.ids \in PartialMaps
         /\ artifact.sha \in [Names -> Contents \cup {None}] /\ Serves(artifact.ids)
         /\ artifact.no \in Nat /\ artifact.no <= built
         /\ proc.at # "journal" =>
               /\ journal \in Journals /\ journal.no <= built /\ journal.entries # <<>>
               /\ journal # None /\ journal.no = artifact.no
               /\ checkpoint.ids \in {<<>>, artifact.ids} /\ handoff.ids \in {<<>>, checkpoint.ids}
               /\ \A k \in DOMAIN journal.entries, t \in Attempts :
                     Name(k) = Auth(t) => t \in DOMAIN artifact.ids
<1>1. proc # Idle BY DEF Idle
<1>2. proc \in Procs /\ artifact # None BY <1>1 DEF IInv, TypeOK, BatchTypeOK, Confirmed
<1>3. /\ artifact.ids \in PartialMaps /\ artifact.sha \in [Names -> Contents \cup {None}]
      /\ artifact.no \in Nat /\ artifact.no <= built
  BY <1>2 DEF IInv, TypeOK, BatchTypeOK
<1>4. Serves(artifact.ids) BY <1>2 DEF IInv, AccountsReal
<1>5. ASSUME proc.at # "journal"
      PROVE  /\ journal \in Journals /\ journal.no <= built /\ journal.entries # <<>>
             /\ journal # None /\ journal.no = artifact.no
             /\ checkpoint.ids \in {<<>>, artifact.ids} /\ handoff.ids \in {<<>>, checkpoint.ids}
             /\ \A k \in DOMAIN journal.entries, t \in Attempts :
                   Name(k) = Auth(t) => t \in DOMAIN artifact.ids
  <2>1. journal # None /\ journal.no = artifact.no BY <1>5 DEF IInv, Confirmed
  <2>2. journal \in Journals /\ journal.no <= built /\ journal.entries # <<>>
    BY <2>1 DEF IInv, TypeOK
  <2>3. checkpoint.ids \in {<<>>, artifact.ids} /\ handoff.ids \in {<<>>, checkpoint.ids}
    BY <1>2, <2>1 DEF IInv, OneArtifact
  <2>4. \A k \in DOMAIN journal.entries, t \in Attempts :
           Name(k) = Auth(t) => t \in DOMAIN artifact.ids
    BY <1>2, <2>1 DEF IInv, OneArtifact
  <2> QED BY <2>1, <2>2, <2>3, <2>4
<1> QED BY <1>2, <1>3, <1>4, <1>5

\* What every step of a confirmation must show.
LEMMA CloseKeeps ==
  ASSUME IInv, proc.cmd = "confirm", UNCHANGED <<rows, accounts, orphan, recovery, built, artifact>>,
         \/ proc' = Idle
         \/ proc' \in Procs /\ proc'.cmd = "confirm" /\ proc'.made = proc.made,
         \/ manifest' = manifest
         \/ manifest' \in Manifests /\ manifest'.status = "completed" /\ Follows(manifest)',
         files' \in [Names -> Contents \cup {None}], files'[Helper] \in {files[Helper], None},
         quarantine' \in [Names -> Contents \cup {None}],
         \/ journal' = journal
         \/ journal' \in Journals /\ journal'.no <= built /\ journal'.entries # <<>>,
         \A m \in Manifests : Follows(m) => Follows(m)',
         Confirmed', OneArtifact', NothingLost'
  PROVE  IInv'
<1>1. Held' = Held /\ \A t : AccountsOf(t)' = AccountsOf(t) BY DEF Held, AccountsOf
<1>2. proc'.cmd \in {"none", "confirm"} /\ proc'.made \in {{}, proc.made} BY DEF Idle
<1>3. BatchTypeOK' BY <1>2 DEF IInv, TypeOK, BatchTypeOK
<1>4. TypeOK' BY <1>3 DEF IInv, TypeOK
<1>5. AccountsNumbered' BY <1>1 DEF IInv, AccountsNumbered
<1>6. AccountsReal' BY <1>1, <1>2 DEF IInv, AccountsReal, Serves
<1>7. ImportTrue' BY <1>2 DEF IInv, ImportTrue
<1>8. ImportedIsTrue'
  <2>1. CASE manifest' = manifest BY <1>1, <2>1, ImportedStays DEF IInv, Grows, Held
  <2>2. CASE manifest'.status = "completed" BY <2>2 DEF ImportedIsTrue
  <2> QED BY <2>1, <2>2
<1>9. CopiesFollow'
  <2>1. Follows(manifest)'
    <3>1. PICK m \in Manifests : m = manifest BY DEF IInv, TypeOK, BatchTypeOK
    <3>2. manifest' = manifest => Follows(m)' BY <3>1 DEF IInv, CopiesFollow
    <3> QED BY <3>1, <3>2 DEF Follows
  <2>2. recovery.at # "idle" => Follows(recovery.mem)'
    <3> SUFFICES ASSUME recovery.at # "idle" PROVE Follows(recovery.mem)' OBVIOUS
    <3>1. PICK m \in Manifests : m = recovery.mem
      BY DEF IInv, TypeOK, BatchTypeOK, NoRecovery
    <3>2. Follows(m)' BY <3>1 DEF IInv, CopiesFollow
    <3> QED BY <3>1, <3>2 DEF Follows
  <2> QED BY <1>2, <2>1, <2>2 DEF CopiesFollow
<1> QED BY <1>4, <1>5, <1>6, <1>7, <1>8, <1>9 DEF IInv

\* The steps that write neither the journal, nor a secret file.
LEMMA RecordKeeps ==
  ASSUME IInv, proc.cmd = "confirm",
         UNCHANGED <<rows, accounts, orphan, recovery, built, artifact, files, quarantine, journal>>,
         \/ proc' = Idle
         \/ proc' \in Procs /\ proc'.cmd = "confirm" /\ proc'.made = proc.made,
         \/ manifest' = manifest
         \/ manifest' \in Manifests /\ manifest'.status = "completed" /\ Follows(manifest)',
         \/ UNCHANGED <<checkpoint, handoff>>
         \/ /\ proc.at # "journal" /\ checkpoint'.ids = artifact.ids
            /\ handoff'.ids \in {handoff.ids, artifact.ids},
         Confirmed'
  PROVE  IInv'
<1>1. /\ files' = files /\ files \in [Names -> Contents \cup {None}]
      /\ quarantine' = quarantine /\ quarantine \in [Names -> Contents \cup {None}]
  BY DEF IInv, TypeOK, BatchTypeOK
<1>2. \A m \in Manifests : Follows(m) => Follows(m)' BY DEF Follows, Left
<1>3. \A t : AccountsOf(t)' = AccountsOf(t) BY DEF Held, AccountsOf
<1>4. proc'.cmd # "prepare" BY DEF Idle
<1>5. \A k : Name(k)' = Name(k) BY DEF Name
<1>6. CASE UNCHANGED <<checkpoint, handoff>>
  <2>1. OneArtifact' BY <1>4, <1>5, <1>6 DEF IInv, OneArtifact
  <2>2. NothingLost' BY <1>1, <1>3, <1>6 DEF IInv, NothingLost
  <2> QED BY <1>1, <1>2, <2>1, <2>2, CloseKeeps
<1>7. CASE /\ proc.at # "journal" /\ checkpoint'.ids = artifact.ids
           /\ handoff'.ids \in {handoff.ids, artifact.ids}
  <2>1. /\ journal # None /\ checkpoint.ids \in {<<>>, artifact.ids}
        /\ handoff.ids \in {<<>>, checkpoint.ids}
    BY <1>7, Confirming
  <2>2. handoff'.ids \in {<<>>, checkpoint'.ids} BY <1>7, <2>1
  <2>3. OneArtifact'
    BY <1>4, <1>5, <1>7, <2>1, <2>2 DEF IInv, OneArtifact
  <2>4. NothingLost'
    <3> SUFFICES ASSUME NEW t \in Attempts, rows[t] = "granted", files[Auth(t)] = None,
                        quarantine[Auth(t)] = None
        PROVE  /\ t \in DOMAIN handoff'.ids /\ checkpoint'.ids = handoff'.ids
               /\ handoff'.ids[t] \in AccountsOf(t)
      BY <1>1, <1>3 DEF NothingLost
    <3>1. /\ t \in DOMAIN handoff.ids /\ checkpoint.ids = handoff.ids
          /\ handoff.ids[t] \in AccountsOf(t)
      BY DEF IInv, NothingLost
    <3>2. handoff.ids # <<>> BY <3>1
    <3>3. handoff.ids = artifact.ids BY <2>1, <3>1, <3>2
    <3> QED BY <1>7, <3>1, <3>3
  <2> QED BY <1>1, <1>2, <2>3, <2>4, CloseKeeps
<1> QED BY <1>6, <1>7

LEMMA ConfirmGoes ==
  ASSUME IInv, proc.cmd = "confirm", NEW s \in ConfirmSteps, Go(s)
  PROVE  /\ proc' \in Procs /\ proc'.cmd = "confirm" /\ proc'.made = proc.made /\ proc'.at = s
<1>1. proc \in Procs BY Confirming
<1> QED BY <1>1 DEF Go, Procs

\* The journal of this artifact, new or old.
LEMMA JournalKeeps ==
  ASSUME IInv, NewJournal \/ OldJournal
  PROVE  IInv'
<1> USE DEF At
<1>1. CASE NewJournal
  <2>1. PICK order \in Orders(artifact) :
          journal' = [no |-> artifact.no, status |-> "quarantining",
                      entries |-> Entries(artifact, order)]
    BY <1>1 DEF NewJournal
  <2>2. /\ proc.cmd = "confirm" /\ proc.at = "journal" /\ journal = None /\ Go("checkpoint")
        /\ UNCHANGED <<rows, accounts, orphan, recovery, built, artifact>>
        /\ UNCHANGED <<manifest, files, quarantine, checkpoint, handoff>>
    BY <1>1 DEF NewJournal, BatchKept
  <2>3. /\ artifact # None /\ artifact.ids \in PartialMaps
        /\ artifact.no \in Nat /\ artifact.no <= built
    BY <2>2, Confirming
  <2>4. order \in [1..Cardinality(DOMAIN artifact.ids) -> DOMAIN artifact.ids] BY DEF Orders
  <2>5. /\ Entries(artifact, order) \in Seq(Entry) /\ Entries(artifact, order) # <<>>
        /\ \A k \in DOMAIN Entries(artifact, order), t \in Attempts :
              Entries(artifact, order)[k].name = Auth(t) => t \in DOMAIN artifact.ids
    BY <2>3, <2>4, JournalEntries
  <2>6. /\ journal'.entries = Entries(artifact, order) /\ journal'.no = artifact.no
        /\ journal' \in Journals
    BY <2>1, <2>3, <2>5 DEF Journals
  <2>7. journal' # None BY <2>6, JournalAssumption
  <2>8. /\ proc' \in Procs /\ proc'.cmd = "confirm" /\ proc'.made = proc.made
        /\ proc'.at = "checkpoint"
    BY <2>2, ConfirmGoes DEF ConfirmSteps
  <2>9. \A m \in Manifests : Follows(m) => Follows(m)' BY <2>2 DEF Follows
  <2>10. Confirmed' BY <2>2, <2>3, <2>6, <2>7, <2>8 DEF Confirmed, NoneLeft, AllDeleted
  <2>11. OneArtifact'
    <3>1. checkpoint.ids = <<>> /\ handoff.ids = <<>> BY <2>2 DEF IInv, OneArtifact
    <3>2. \A k \in DOMAIN journal'.entries, t \in Attempts :
            Name(k)' = Auth(t) => t \in DOMAIN artifact.ids
      BY <2>5, <2>6 DEF Name
    <3> QED BY <2>2, <2>3, <2>6, <2>7, <2>8, <3>1, <3>2 DEF OneArtifact
  <2>12. NothingLost' BY <2>2 DEF IInv, NothingLost, AccountsOf, Held
  <2>13. /\ files' \in [Names -> Contents \cup {None}] /\ files'[Helper] = files[Helper]
         /\ quarantine' \in [Names -> Contents \cup {None}]
    BY <2>2 DEF IInv, TypeOK, BatchTypeOK
  <2>14. journal'.no <= built /\ journal'.entries # <<>> BY <2>3, <2>5, <2>6
  <2>15. manifest' = manifest BY <2>2
  <2> QED BY <2>2, <2>6, <2>8, <2>9, <2>10, <2>11, <2>12, <2>13, <2>14, <2>15, CloseKeeps
<1>2. CASE OldJournal
  <2>1. /\ proc.cmd = "confirm" /\ proc.at = "journal" /\ journal # None
        /\ UNCHANGED <<rows, accounts, orphan, recovery, built, artifact, files, quarantine, journal>>
        /\ UNCHANGED <<manifest, checkpoint, handoff>>
    BY <1>2 DEF OldJournal, BatchKept, closeVars
  <2>2. CASE journal.no = artifact.no
    <3>1. Go("checkpoint") BY <1>2, <2>2 DEF OldJournal
    <3>2. /\ proc' \in Procs /\ proc'.cmd = "confirm" /\ proc'.made = proc.made
          /\ proc'.at = "checkpoint"
      BY <2>1, <3>1, ConfirmGoes DEF ConfirmSteps
    <3>3. Confirmed'
      BY <2>1, <2>2, <3>2, Confirming DEF Confirmed, NoneLeft, AllDeleted
    <3> QED BY <2>1, <3>2, <3>3, RecordKeeps
  <2>3. CASE journal.no # artifact.no
    <3>1. proc' = Idle BY <1>2, <2>3 DEF OldJournal, Exit
    <3>2. Confirmed' BY <3>1 DEF Confirmed, Idle
    <3> QED BY <2>1, <3>1, <3>2, RecordKeeps
  <2> QED BY <2>2, <2>3
<1> QED BY <1>1, <1>2

\* Checkpoint, handoff and manifest, before the quarantine, after it, and at the
\* end.
LEMMA RecordsKeep ==
  ASSUME IInv,
         \/ CheckpointPrepared \/ CheckpointQuarantined \/ CheckpointFinal
         \/ HandoffPrepared \/ HandoffQuarantined \/ HandoffFinal
  PROVE  IInv'
<1> USE DEF At
<1>1. ASSUME NEW at \in {"checkpoint", "checkpoint-quarantined", "checkpoint-final"},
             NEW status, NEW next, WriteCheckpoint(at, status, next),
             \/ at = "checkpoint" /\ next = "handoff"
             \/ at = "checkpoint-quarantined" /\ next = "purge"
             \/ at = "checkpoint-final" /\ next = "done"
      PROVE  IInv'
  <2>1. /\ proc.cmd = "confirm" /\ proc.at = at /\ checkpoint' = [status |-> status, ids |-> artifact.ids]
        /\ UNCHANGED <<rows, accounts, orphan, recovery, built, artifact, files, quarantine, journal>>
        /\ UNCHANGED <<manifest, handoff>>
    BY <1>1 DEF WriteCheckpoint, BatchKept
  <2>2. checkpoint'.ids = artifact.ids /\ proc.at # "journal" BY <2>1
  <2>3. CASE next = "done"
    <3>1. proc' = Idle BY <1>1, <2>3 DEF WriteCheckpoint, Exit
    <3>2. Confirmed' BY <3>1 DEF Confirmed, Idle
    <3> QED BY <2>1, <2>2, <3>1, <3>2, RecordKeeps
  <2>4. CASE next # "done"
    <3>1. next \in ConfirmSteps /\ Go(next) BY <1>1, <2>4 DEF WriteCheckpoint, ConfirmSteps
    <3>2. /\ proc' \in Procs /\ proc'.cmd = "confirm" /\ proc'.made = proc.made
          /\ proc'.at = next
      BY <2>1, <3>1, ConfirmGoes
    <3>3. Confirmed'
      <4>1. artifact # None /\ journal # None /\ journal.no = artifact.no
        BY <2>1, <2>2, Confirming
      <4>2. CASE at = "checkpoint"
        BY <1>1, <2>1, <2>2, <3>2, <4>1, <4>2 DEF Confirmed, NoneLeft, AllDeleted
      <4>3. CASE at = "checkpoint-quarantined"
        <5>1. handoff.ids = artifact.ids /\ Left({"pending"}) = {}
          BY <2>1, <4>3 DEF IInv, Confirmed, NoneLeft
        <5> QED BY <1>1, <2>1, <2>2, <3>2, <4>1, <4>3, <5>1 DEF Confirmed, AllDeleted, Left
      <4> QED BY <1>1, <2>4, <4>2, <4>3
    <3> QED BY <2>1, <2>2, <3>2, <3>3, RecordKeeps
  <2> QED BY <2>3, <2>4
<1>2. ASSUME NEW at \in {"handoff", "handoff-quarantined", "handoff-final"},
             NEW status, NEW next, WriteHandoff(at, status, next),
             \/ at = "handoff" /\ next = "quarantine"
             \/ at = "handoff-quarantined" /\ next = "checkpoint-quarantined"
             \/ at = "handoff-final" /\ next = "checkpoint-final"
      PROVE  IInv'
  <2>1. /\ proc.cmd = "confirm" /\ proc.at = at /\ handoff' = [status |-> status, ids |-> artifact.ids]
        /\ Go(next)
        /\ UNCHANGED <<rows, accounts, orphan, recovery, built, artifact, files, quarantine, journal>>
        /\ UNCHANGED <<manifest, checkpoint>>
    BY <1>2 DEF WriteHandoff, BatchKept
  <2>2. handoff'.ids = artifact.ids /\ proc.at # "journal" BY <2>1
  <2>3. next \in ConfirmSteps BY <1>2 DEF ConfirmSteps
  <2>4. /\ proc' \in Procs /\ proc'.cmd = "confirm" /\ proc'.made = proc.made /\ proc'.at = next
    BY <2>1, <2>3, ConfirmGoes
  <2>5. /\ artifact # None /\ journal # None /\ journal.no = artifact.no
        /\ checkpoint.ids = artifact.ids
    BY <1>2, <2>1 DEF IInv, Confirmed
  <2>6. Confirmed'
    <3>1. CASE at = "handoff"
      BY <1>2, <2>1, <2>2, <2>4, <2>5, <3>1 DEF Confirmed, NoneLeft, AllDeleted
    <3>2. CASE at = "handoff-quarantined"
      <4>1. Left({"pending"}) = {} BY <2>1, <3>2 DEF IInv, Confirmed, NoneLeft
      <4> QED BY <1>2, <2>1, <2>2, <2>4, <2>5, <3>2, <4>1 DEF Confirmed, AllDeleted, Left
    <3>3. CASE at = "handoff-final"
      <4>1. Left({"pending"}) = {} /\ Left({"quarantined"}) = {}
        BY <2>1, <3>3 DEF IInv, Confirmed, NoneLeft, AllDeleted
      <4> QED BY <1>2, <2>1, <2>2, <2>4, <2>5, <3>3, <4>1 DEF Confirmed, Left
    <3> QED BY <3>1, <3>2, <3>3
  <2> QED BY <2>1, <2>2, <2>4, <2>5, <2>6, RecordKeeps
<1> QED BY <1>1, <1>2 DEF CheckpointPrepared, CheckpointQuarantined, CheckpointFinal,
                         HandoffPrepared, HandoffQuarantined, HandoffFinal

\* The sanitized manifest.
LEMMA CleanManifest ==
  ASSUME IInv, artifact # None, NEW c \in {"quarantined", "completed"}
  PROVE  /\ Clean(c) \in Manifests /\ Clean(c).status = "completed" /\ Clean(c).cleanup = c
<1> DEFINE ids == {artifact.ids[t] : t \in DOMAIN artifact.ids}
           att == [t \in Attempts |-> "none"]
           S == {t \in Attempts : att[t] = "registered"}
           F == {t \in Attempts : att[t] = "failed"}
<1>1. artifact.ids \in PartialMaps BY DEF IInv, TypeOK
<1>2. PICK D \in SUBSET Attempts : artifact.ids \in [D -> Ids] BY <1>1 DEF PartialMaps
<1>3. ids \subseteq Ids BY <1>2
<1>4. Cardinality(S) \in Nat /\ Cardinality(F) \in Nat
  BY BatchAssumption, FS_Subset, FS_CardinalityType
<1>5. RuntimeManifest(att, None) =
        [status |-> "running", att |-> att, digest |-> None, succ |-> Cardinality(S),
         fail |-> Cardinality(F), pre |-> [tested |-> 0, passed |-> {}], post |-> "none",
         ids |-> {}, backups |-> {}, cleanup |-> "none"]
  BY Zenon DEF RuntimeManifest
<1>6. Clean(c) = [RuntimeManifest(att, None) EXCEPT !.status = "completed", !.cleanup = c,
                                                    !.ids = ids]
  BY Zenon DEF Clean
<1>7. att \in [Attempts -> {"registered", "failed", "probe-failed", "none"}] OBVIOUS
<1> HIDE DEF ids, att, S, F
<1>8. RuntimeManifest(att, None) \in Manifests BY <1>4, <1>5, <1>7 DEF Manifests, Statuses
<1> QED BY <1>3, <1>6, <1>8 DEF Manifests, Statuses

LEMMA ManifestKeeps ==
  ASSUME IInv, ManifestQuarantined \/ ManifestFinal
  PROVE  IInv'
<1> USE DEF At
<1>1. ASSUME NEW at \in {"manifest", "manifest-final"}, NEW c \in {"quarantined", "completed"},
             NEW next \in {"handoff-quarantined", "handoff-final"}, WriteManifest(at, c, next),
             \/ at = "manifest" /\ c = "quarantined" /\ next = "handoff-quarantined"
             \/ at = "manifest-final" /\ c = "completed" /\ next = "handoff-final"
      PROVE  IInv'
  <2>1. /\ proc.cmd = "confirm" /\ proc.at = at /\ manifest' = Clean(c) /\ Go(next)
        /\ UNCHANGED <<rows, accounts, orphan, recovery, built, artifact, files, quarantine, journal>>
        /\ UNCHANGED <<checkpoint, handoff>>
    BY <1>1 DEF WriteManifest, BatchKept, closeVars
  <2>2. /\ proc' \in Procs /\ proc'.cmd = "confirm" /\ proc'.made = proc.made /\ proc'.at = next
    BY <2>1, ConfirmGoes DEF ConfirmSteps
  <2>3. /\ artifact # None /\ journal # None /\ journal.no = artifact.no
        /\ checkpoint.ids = artifact.ids /\ handoff.ids = artifact.ids
        /\ Left({"pending"}) = {}
        /\ at = "manifest-final" => Left({"quarantined"}) = {}
    BY <1>1, <2>1 DEF IInv, Confirmed, NoneLeft, AllDeleted
  <2>4. /\ manifest' \in Manifests /\ manifest'.status = "completed" /\ manifest'.cleanup = c
    BY <2>1, <2>3, CleanManifest
  <2>5. Follows(manifest)' BY <1>1, <2>1, <2>3, <2>4 DEF Follows, Left
  <2>6. Confirmed' BY <1>1, <2>1, <2>2, <2>3 DEF Confirmed, AllDeleted, Left
  <2> QED BY <2>1, <2>2, <2>4, <2>5, <2>6, RecordKeeps
<1> QED BY <1>1 DEF ManifestQuarantined, ManifestFinal

-----------------------------------------------------------------------------
(* The quarantine.                                                         *)

LEMMA EntryNames ==
  ASSUME IInv, proc.cmd = "confirm", proc.at # "journal", NEW k \in DOMAIN journal.entries
  PROVE  journal.entries[k] \in Entry /\ Name(k) \in Names
<1>1. journal.entries \in Seq(Entry) BY Confirming DEF Journals
<1>2. journal.entries[k] \in Entry BY <1>1
<1> QED BY <1>2 DEF Name, Entry

\* One entry goes from one state to the next.
LEMMA EntrySet ==
  ASSUME IInv, proc.cmd = "confirm", proc.at # "journal", NEW k \in DOMAIN journal.entries,
         NEW s \in {"quarantined", "deleted"}, SetEntry(k, s)
  PROVE  /\ journal' \in Journals /\ journal' # None /\ journal'.no = journal.no
         /\ journal'.entries # <<>> /\ DOMAIN journal'.entries = DOMAIN journal.entries
         /\ \A l \in DOMAIN journal.entries :
               /\ journal'.entries[l].name = journal.entries[l].name
               /\ l # k => journal'.entries[l].state = journal.entries[l].state
         /\ journal'.entries[k].state = s
<1>1. journal \in Journals /\ journal.entries # <<>> BY Confirming
<1>2. PICK e \in Seq(Entry) : e = journal.entries BY <1>1 DEF Journals
<1>3. journal' = [journal EXCEPT !.entries[k].state = s] BY DEF SetEntry
<1>4. journal.entries[k] \in Entry BY EntryNames
<1> DEFINE x == [journal.entries[k] EXCEPT !.state = s]
<1>5. x \in Entry /\ x.name = e[k].name /\ x.state = s BY <1>2, <1>4 DEF Entry
<1>6. journal' = [journal EXCEPT !.entries = [e EXCEPT ![k] = x]] BY <1>2, <1>3
<1> HIDE DEF x
<1>7. /\ [e EXCEPT ![k] = x] \in Seq(Entry) /\ DOMAIN [e EXCEPT ![k] = x] = DOMAIN e
      /\ [e EXCEPT ![k] = x][k] = x /\ \A l \in DOMAIN e \ {k} : [e EXCEPT ![k] = x][l] = e[l]
  BY <1>2, <1>5
<1>8. PICK f \in Seq(Entry) : f = [e EXCEPT ![k] = x] BY <1>7
<1>9. journal'.entries = f /\ journal'.no = journal.no /\ journal' \in Journals
  BY <1>1, <1>6, <1>8 DEF Journals
<1>10. f # <<>> /\ DOMAIN f = DOMAIN e
  <2>1. DOMAIN f = DOMAIN e /\ k \in DOMAIN f BY <1>2, <1>7, <1>8
  <2> QED BY <2>1
<1>11. journal' # None BY <1>9, JournalAssumption
<1>12. f[k] = x /\ \A l \in DOMAIN e \ {k} : f[l] = e[l] BY <1>7, <1>8
<1> QED BY <1>2, <1>5, <1>9, <1>10, <1>11, <1>12

\* A move: the file is in the quarantine before the journal says so.
LEMMA MoveKeeps ==
  ASSUME IInv, MoveSource
  PROVE  IInv'
<1> DEFINE ok(n) == IF files[n] # None THEN files[n] = artifact.sha[n]
                                       ELSE quarantine[n] = artifact.sha[n]
<1>1. /\ proc.cmd = "confirm" /\ proc.at = "quarantine"
      /\ UNCHANGED <<rows, accounts, orphan, recovery, built, artifact>>
      /\ UNCHANGED <<manifest, journal, checkpoint, handoff>>
  BY DEF MoveSource, At
<1>2. PICK k \in DOMAIN journal.entries :
        /\ First(k, {"pending"})
        /\ IF ok(Name(k)) THEN Go("moved") /\ UNCHANGED <<mem, found>> ELSE Exit
        /\ IF ok(Name(k)) /\ files[Name(k)] # None
           THEN /\ files' = [files EXCEPT ![Name(k)] = None]
                /\ quarantine' = [quarantine EXCEPT ![Name(k)] = files[Name(k)]]
           ELSE UNCHANGED <<files, quarantine>>
  BY DEF MoveSource
<1>3. PICK n \in Names : n = Name(k) BY <1>1, EntryNames
<1>4. /\ files \in [Names -> Contents \cup {None}] /\ quarantine \in [Names -> Contents \cup {None}]
  BY DEF IInv, TypeOK, BatchTypeOK
<1>5. /\ artifact # None /\ journal # None /\ journal.no = artifact.no
      /\ checkpoint.ids = artifact.ids /\ handoff.ids = artifact.ids
  BY <1>1 DEF IInv, Confirmed
<1>6. CASE ~ok(n)
  <2>1. proc' = Idle /\ UNCHANGED <<files, quarantine>> BY <1>2, <1>3, <1>6 DEF Exit
  <2>2. Confirmed' BY <2>1 DEF Confirmed, Idle
  <2> QED BY <1>1, <2>1, <2>2, RecordKeeps
<1>7. CASE ok(n)
  <2>1. Go("moved") BY <1>2, <1>3, <1>7
  <2>2. /\ proc' \in Procs /\ proc'.cmd = "confirm" /\ proc'.made = proc.made /\ proc'.at = "moved"
    BY <1>1, <2>1, ConfirmGoes DEF ConfirmSteps
  <2>3. Confirmed' BY <1>1, <1>5, <2>2 DEF Confirmed, NoneLeft, AllDeleted
  <2>4. CASE files[n] = None
    <3>1. UNCHANGED <<files, quarantine>> BY <1>2, <1>3, <2>4
    <3> QED BY <1>1, <2>2, <2>3, <3>1, RecordKeeps
  <2>5. CASE files[n] # None
    <3>1. /\ files' = [files EXCEPT ![n] = None]
          /\ quarantine' = [quarantine EXCEPT ![n] = files[n]]
      BY <1>2, <1>3, <1>7, <2>5
    <3>2. /\ files' \in [Names -> Contents \cup {None}] /\ files'[n] = None
          /\ \A m \in Names \ {n} : files'[m] = files[m]
      BY <1>4, <3>1
    <3>3. /\ quarantine' \in [Names -> Contents \cup {None}] /\ quarantine'[n] # None
          /\ \A m \in Names \ {n} : quarantine'[m] = quarantine[m]
      BY <1>4, <2>5, <3>1
    <3>4. files'[Helper] \in {files[Helper], None} BY <3>2 DEF Names
    <3>5. \A m \in Manifests : Follows(m) => Follows(m)' BY <1>1 DEF Follows, Left
    <3>6. OneArtifact'
      <4>1. \A l : Name(l)' = Name(l) BY <1>1 DEF Name
      <4> QED BY <1>1, <2>2, <4>1 DEF IInv, OneArtifact
    <3>7. NothingLost'
      <4> SUFFICES ASSUME NEW t \in Attempts, rows[t] = "granted", files'[Auth(t)] = None,
                          quarantine'[Auth(t)] = None
          PROVE  /\ t \in DOMAIN handoff.ids /\ checkpoint.ids = handoff.ids
                 /\ handoff.ids[t] \in AccountsOf(t)
        BY <1>1 DEF NothingLost, AccountsOf, Held
      <4>1. Auth(t) \in Names BY SecretNames
      <4>2. Auth(t) # n BY <3>3
      <4>3. files[Auth(t)] = None /\ quarantine[Auth(t)] = None BY <3>2, <3>3, <4>1, <4>2
      <4> QED BY <4>3 DEF IInv, NothingLost
    <3> QED BY <1>1, <2>2, <2>3, <3>2, <3>3, <3>4, <3>5, <3>6, <3>7, CloseKeeps
  <2> QED BY <2>4, <2>5
<1> QED BY <1>6, <1>7

\* An unlink: handoff and checkpoint name the account by then.
LEMMA PurgeKeeps ==
  ASSUME IInv, Purge
  PROVE  IInv'
<1>1. /\ proc.cmd = "confirm" /\ proc.at = "purge"
      /\ UNCHANGED <<rows, accounts, orphan, recovery, built, artifact>>
      /\ UNCHANGED <<manifest, files, journal, checkpoint, handoff>>
  BY DEF Purge, At, BatchKept
<1>2. PICK k \in DOMAIN journal.entries :
        IF quarantine[Name(k)] \in {None, artifact.sha[Name(k)]}
        THEN /\ quarantine' = [quarantine EXCEPT ![Name(k)] = None]
             /\ Go("purged")
             /\ UNCHANGED <<mem, found>>
        ELSE Exit /\ UNCHANGED quarantine
  BY DEF Purge
<1>3. PICK n \in Names : n = Name(k) BY <1>1, EntryNames
<1>4. quarantine \in [Names -> Contents \cup {None}] /\ files' \in [Names -> Contents \cup {None}]
  BY <1>1 DEF IInv, TypeOK, BatchTypeOK
<1>5. /\ artifact # None /\ journal # None /\ journal.no = artifact.no
      /\ checkpoint.ids = artifact.ids /\ handoff.ids = artifact.ids
      /\ Left({"pending"}) = {}
  BY <1>1 DEF IInv, Confirmed, NoneLeft
<1>6. CASE quarantine[n] \notin {None, artifact.sha[n]}
  <2>1. proc' = Idle /\ quarantine' = quarantine BY <1>2, <1>3, <1>6 DEF Exit
  <2>2. Confirmed' BY <2>1 DEF Confirmed, Idle
  <2> QED BY <1>1, <2>1, <2>2, RecordKeeps
<1>7. CASE quarantine[n] \in {None, artifact.sha[n]}
  <2>1. quarantine' = [quarantine EXCEPT ![n] = None] /\ Go("purged") BY <1>2, <1>3, <1>7
  <2>2. /\ proc' \in Procs /\ proc'.cmd = "confirm" /\ proc'.made = proc.made
        /\ proc'.at = "purged"
    BY <1>1, <2>1, ConfirmGoes DEF ConfirmSteps
  <2>3. Confirmed' BY <1>1, <1>5, <2>2 DEF Confirmed, AllDeleted, Left
  <2>4. /\ quarantine' \in [Names -> Contents \cup {None}]
        /\ \A m \in Names \ {n} : quarantine'[m] = quarantine[m]
    BY <1>4, <2>1
  <2>5. \A m \in Manifests : Follows(m) => Follows(m)' BY <1>1 DEF Follows, Left
  <2>6. OneArtifact'
    <3>1. \A l : Name(l)' = Name(l) BY <1>1 DEF Name
    <3> QED BY <1>1, <2>2, <3>1 DEF IInv, OneArtifact
  <2>7. NothingLost'
    <3> SUFFICES ASSUME NEW t \in Attempts, rows[t] = "granted", files[Auth(t)] = None,
                        quarantine'[Auth(t)] = None
        PROVE  /\ t \in DOMAIN handoff.ids /\ checkpoint.ids = handoff.ids
               /\ handoff.ids[t] \in AccountsOf(t)
      BY <1>1 DEF NothingLost, AccountsOf, Held
    <3>1. CASE n = Auth(t)
      <4>1. t \in DOMAIN artifact.ids BY <1>1, <1>3, <3>1, Confirming
      <4>2. Serves(artifact.ids) BY <1>1, Confirming
      <4> QED BY <1>5, <4>1, <4>2 DEF Serves
    <3>2. CASE n # Auth(t)
      <4>1. Auth(t) \in Names BY SecretNames
      <4>2. quarantine[Auth(t)] = None BY <2>4, <3>2, <4>1
      <4> QED BY <4>2 DEF IInv, NothingLost
    <3> QED BY <3>1, <3>2
  <2>8. files'[Helper] = files[Helper] BY <1>1
  <2> QED BY <1>1, <1>4, <2>2, <2>3, <2>4, <2>5, <2>6, <2>7, <2>8, CloseKeeps
<1> QED BY <1>6, <1>7

\* What is written to the journal after a move, an unlink, and at the end of
\* each.
LEMMA JournalledKeeps ==
  ASSUME IInv, JournalMove \/ JournalPurge \/ AllQuarantined \/ AllPurged
  PROVE  IInv'
<1> USE DEF At
<1>1. /\ proc.cmd = "confirm" /\ proc.at \in {"moved", "purged", "quarantine", "purge"}
      /\ UNCHANGED <<rows, accounts, orphan, recovery, built, artifact>>
      /\ UNCHANGED <<manifest, files, quarantine, checkpoint, handoff>>
  BY DEF JournalMove, JournalPurge, AllQuarantined, AllPurged, JournalStatus, BatchKept
<1>2. /\ artifact # None /\ journal # None /\ journal.no = artifact.no
      /\ checkpoint.ids = artifact.ids /\ handoff.ids = artifact.ids
      /\ proc.at \in {"purged", "purge"} => Left({"pending"}) = {}
  BY <1>1 DEF IInv, Confirmed, NoneLeft
<1>3. journal \in Journals /\ journal.no <= built /\ journal.entries # <<>>
  BY <1>1, Confirming
<1>4. ASSUME journal' \in Journals, journal' # None, journal'.no = journal.no,
             journal'.entries # <<>>, DOMAIN journal'.entries = DOMAIN journal.entries,
             \A l \in DOMAIN journal.entries :
                journal'.entries[l].name = journal.entries[l].name,
             proc' \in Procs, proc'.cmd = "confirm", proc'.made = proc.made,
             proc'.at \in {"quarantine", "purge", "manifest", "manifest-final"},
             \A m \in Manifests : Follows(m) => Follows(m)',
             proc'.at # "quarantine" => Left({"pending"})' = {},
             proc'.at = "manifest-final" => Left({"quarantined"})' = {}
      PROVE  IInv'
  <2>1. Confirmed' BY <1>1, <1>2, <1>4 DEF Confirmed, NoneLeft, AllDeleted
  <2>2. OneArtifact'
    <3>1. \A l \in DOMAIN journal.entries : Name(l)' = Name(l) BY <1>4 DEF Name
    <3> QED BY <1>1, <1>2, <1>4, <3>1 DEF IInv, OneArtifact
  <2>3. NothingLost' BY <1>1 DEF IInv, NothingLost, AccountsOf, Held
  <2>4. /\ files' \in [Names -> Contents \cup {None}] /\ files'[Helper] = files[Helper]
        /\ quarantine' \in [Names -> Contents \cup {None}]
    BY <1>1 DEF IInv, TypeOK, BatchTypeOK
  <2>5. journal'.no <= built /\ manifest' = manifest BY <1>1, <1>3, <1>4
  <2> QED BY <1>1, <1>4, <2>1, <2>2, <2>3, <2>4, <2>5, CloseKeeps
<1>5. CASE JournalMove
  <2>1. PICK k \in DOMAIN journal.entries : First(k, {"pending"}) /\ SetEntry(k, "quarantined")
    BY <1>5 DEF JournalMove
  <2>2. proc.at = "moved" /\ Go("quarantine") BY <1>5 DEF JournalMove
  <2>3. /\ proc' \in Procs /\ proc'.cmd = "confirm" /\ proc'.made = proc.made
        /\ proc'.at = "quarantine"
    BY <1>1, <2>2, ConfirmGoes DEF ConfirmSteps
  <2>4. Left({"pending"}) # {} BY <2>1 DEF First
  <2>5. \A m \in Manifests : Follows(m) => Follows(m)' BY <2>4 DEF Follows
  <2> QED BY <1>1, <1>4, <2>1, <2>2, <2>3, <2>5, EntrySet
<1>6. CASE JournalPurge
  <2>1. PICK k \in DOMAIN journal.entries : First(k, {"quarantined"}) /\ SetEntry(k, "deleted")
    BY <1>6 DEF JournalPurge
  <2>2. proc.at = "purged" /\ Go("purge") BY <1>6 DEF JournalPurge
  <2>3. /\ proc' \in Procs /\ proc'.cmd = "confirm" /\ proc'.made = proc.made
        /\ proc'.at = "purge"
    BY <1>1, <2>2, ConfirmGoes DEF ConfirmSteps
  <2>4. /\ journal' \in Journals /\ journal' # None /\ journal'.no = journal.no
        /\ journal'.entries # <<>> /\ DOMAIN journal'.entries = DOMAIN journal.entries
        /\ \A l \in DOMAIN journal.entries :
              /\ journal'.entries[l].name = journal.entries[l].name
              /\ l # k => journal'.entries[l].state = journal.entries[l].state
        /\ journal'.entries[k].state = "deleted"
    BY <1>1, <2>1, <2>2, EntrySet
  <2>5. Left({"pending"})' = {}
    <3>1. \A l \in DOMAIN journal.entries : journal.entries[l].state # "pending"
      BY <1>2, <2>2 DEF Left
    <3> QED BY <2>4, <3>1 DEF Left
  <2>6. Left({"quarantined"}) # {} BY <2>1 DEF First
  <2>7. \A m \in Manifests : Follows(m) => Follows(m)' BY <2>4, <2>5, <2>6 DEF Follows
  <2> QED BY <1>4, <2>3, <2>4, <2>5, <2>7
<1>7. ASSUME NEW states, NEW status \in {"quarantined", "completed"},
             NEW next \in {"manifest", "manifest-final"},
             Left(states) = {}, journal' = [journal EXCEPT !.status = status], Go(next),
             \/ proc.at = "quarantine" /\ next = "manifest" /\ states = {"pending"}
             \/ proc.at = "purge" /\ next = "manifest-final" /\ states = {"quarantined"}
      PROVE  IInv'
  <2>1. /\ proc' \in Procs /\ proc'.cmd = "confirm" /\ proc'.made = proc.made /\ proc'.at = next
    BY <1>1, <1>7, ConfirmGoes DEF ConfirmSteps
  <2>2. journal' \in Journals /\ journal'.no = journal.no /\ journal'.entries = journal.entries
    BY <1>3, <1>7 DEF Journals
  <2>3. journal' # None BY <2>2, JournalAssumption
  <2>4. \A m \in Manifests : Follows(m) => Follows(m)' BY <2>2, <2>3 DEF Follows, Left
  <2>5. Left({"pending"})' = {} /\ (next = "manifest-final" => Left({"quarantined"})' = {})
    BY <1>2, <1>7, <2>2 DEF Left
  <2> QED BY <1>3, <1>4, <2>1, <2>2, <2>3, <2>4, <2>5
<1>8. CASE AllQuarantined
  <2>1. /\ proc.at = "quarantine" /\ Left({"pending"}) = {}
        /\ journal' = [journal EXCEPT !.status = "quarantined"] /\ Go("manifest")
    BY <1>8 DEF AllQuarantined, JournalStatus
  <2> QED BY <1>7, <2>1
<1>9. CASE AllPurged
  <2>1. /\ proc.at = "purge" /\ Left({"quarantined"}) = {}
        /\ journal' = [journal EXCEPT !.status = "completed"] /\ Go("manifest-final")
    BY <1>9 DEF AllPurged, JournalStatus
  <2> QED BY <1>7, <2>1
<1> QED BY <1>5, <1>6, <1>8, <1>9

-----------------------------------------------------------------------------
(* The system.                                                             *)

LEMMA InitOK == Init => IInv
<1> SUFFICES ASSUME Init PROVE IInv OBVIOUS
<1>1. PICK att \in [Attempts -> {"registered", "failed"}] :
        /\ rows \in [Attempts -> {"granted", "created", "none"}]
        /\ \A t \in Attempts : (att[t] = "registered") <=> (rows[t] = "granted")
        /\ manifest = RuntimeManifest(att, None)
        /\ files = [n \in Names |->
                      IF n \in {Auth(t) : t \in Sources(manifest)} \cup {Log(t) : t \in Attempts}
                      THEN File({n[2]}, {}, 0, 0)
                      ELSE None]
        /\ proc = [Idle EXCEPT !.cmd = "import", !.at = "bundle"] /\ mem = manifest
        /\ accounts = [i \in Ids |-> None] /\ orphan = {}
        /\ recovery = NoRecovery /\ built = 0
  BY DEF Init, BatchInit
<1>2. /\ artifact = None /\ journal = None /\ quarantine = [n \in Names |-> None]
      /\ checkpoint.ids = <<>> /\ handoff.ids = <<>>
  BY DEF Init, CloseoutInit, NoRecord
<1>3. /\ manifest \in Manifests /\ manifest.att = att /\ manifest.status = "running"
      /\ manifest.cleanup = "none"
  <2> DEFINE S == {t \in Attempts : att[t] = "registered"}
             F == {t \in Attempts : att[t] = "failed"}
  <2>1. Cardinality(S) \in Nat /\ Cardinality(F) \in Nat
    BY BatchAssumption, FS_Subset, FS_CardinalityType
  <2>2. manifest = [status |-> "running", att |-> att, digest |-> None, succ |-> Cardinality(S),
                    fail |-> Cardinality(F), pre |-> [tested |-> 0, passed |-> {}],
                    post |-> "none", ids |-> {}, backups |-> {}, cleanup |-> "none"]
    BY <1>1, Zenon DEF RuntimeManifest
  <2>3. att \in [Attempts -> {"registered", "failed", "probe-failed", "none"}] OBVIOUS
  <2> HIDE DEF S, F
  <2> QED BY <2>1, <2>2, <2>3 DEF Manifests, Statuses
<1>4. Held = {} BY <1>1 DEF Held
<1>5. \A t \in Attempts : Auth(t)[2] = t /\ Log(t)[2] = t BY DEF Auth, Log
<1>6. Sources(manifest) \subseteq Attempts BY DEF Sources
<1>7. ASSUME NEW n \in Names
      PROVE  files[n] \in Contents \cup {None}
  <2> DEFINE Kept == {Auth(t) : t \in Sources(manifest)} \cup {Log(t) : t \in Attempts}
  <2>1. CASE n \notin Kept BY <1>1, <2>1
  <2>2. CASE n \in Kept
    <3>1. PICK t \in Attempts : n = Auth(t) \/ n = Log(t) BY <1>6, <2>2
    <3>2. n[2] = t BY <1>5, <3>1
    <3>3. files[n] = File({t}, {}, 0, 0) BY <1>1, <2>2, <3>2
    <3> QED BY <3>3, FileContents
  <2> QED BY <2>1, <2>2
<1>8. files \in [Names -> Contents \cup {None}] BY <1>1, <1>7
<1>9. Helper \in Names /\ files[Helper] = None
  <2>1. Helper \in Names BY DEF Names
  <2>2. Helper \notin {Auth(t) : t \in Sources(manifest)} \cup {Log(t) : t \in Attempts}
    BY DEF Helper, Auth, Log
  <2> QED BY <1>1, <2>1, <2>2
<1>10. proc = [cmd |-> "import", at |-> "bundle", partial |-> FALSE, helper |-> "none",
               made |-> {}, dump |-> 0]
  BY <1>1 DEF Idle
<1>11. proc \in Procs /\ proc.cmd = "import" /\ proc.at = "bundle" /\ proc.made = {}
  <2>1. "bundle" \in ImportSteps /\ {} \subseteq Ids BY DEF ImportSteps
  <2> QED BY <1>10, <2>1 DEF Procs
<1>12. TypeOK
  <2>1. BatchTypeOK BY <1>1, <1>3, <1>8, <1>11 DEF BatchTypeOK
  <2> QED BY <1>2, <2>1 DEF TypeOK
<1>13. AccountsNumbered
  <2>1. Cardinality(Held) = 0 BY <1>4, FS_EmptySet
  <2> QED BY <1>4, <2>1 DEF AccountsNumbered
<1>14. AccountsReal BY <1>2, <1>9, <1>11 DEF AccountsReal
<1>15. ImportTrue BY <1>1, <1>3, <1>11 DEF ImportTrue, NoRecovery, Resolving
<1>16. ImportedIsTrue BY <1>3 DEF ImportedIsTrue
<1>17. CopiesFollow BY <1>1, <1>3 DEF CopiesFollow, Follows, NoRecovery
<1>18. Confirmed BY <1>11 DEF Confirmed
<1>19. OneArtifact BY <1>2, <1>11 DEF OneArtifact
<1>20. NothingLost
  <2> SUFFICES ASSUME NEW t \in Attempts, rows[t] = "granted" PROVE files[Auth(t)] # None
    BY DEF NothingLost
  <2>1. t \in Sources(manifest) BY <1>1, <1>3 DEF Sources
  <2>2. files[Auth(t)] = File({t}, {}, 0, 0) BY <1>1, <1>5, <2>1, SecretNames
  <2>3. File({t}, {}, 0, 0) \in Contents BY FileContents
  <2> QED BY <2>2, <2>3, NoneAssumption
<1> QED BY <1>12, <1>13, <1>14, <1>15, <1>16, <1>17, <1>18, <1>19, <1>20 DEF IInv

LEMMA StutterOK ==
  ASSUME IInv, UNCHANGED vars
  PROVE  IInv'
<1>1. UNCHANGED <<batchVars, artifact, journal, quarantine, checkpoint, handoff>>
  BY DEF vars, closeVars
<1>2. TypeOK' /\ AccountsNumbered' /\ AccountsReal' /\ ImportTrue' /\ ImportedIsTrue'
  BY <1>1 DEF IInv, TypeOK, BatchTypeOK, AccountsNumbered, AccountsReal, ImportTrue,
              ImportedIsTrue, batchVars, diskVars, Held, Serves, AccountsOf, FoundIds, Sources
<1>3. CopiesFollow' /\ Confirmed' /\ OneArtifact' /\ NothingLost'
  BY <1>1 DEF IInv, CopiesFollow, Confirmed, OneArtifact, NothingLost, batchVars, diskVars,
              Follows, Left, Name, AccountsOf, Held
<1> QED BY <1>2, <1>3 DEF IInv

LEMMA NextOK == IInv /\ [Next]_vars => IInv'
<1> SUFFICES ASSUME IInv, [Next]_vars PROVE IInv' OBVIOUS
<1>1. CASE ImportNext /\ UNCHANGED closeVars
  <2>1. CASE Resume BY <1>1, <2>1, ResumeKeeps
  <2>2. CASE \/ SavePreflight \/ \E partial \in BOOLEAN : BeginPreprobe(partial)
             \/ Preprobe \/ SaveNarrowed
    BY <1>1, <2>2, PreflightKeeps
  <2>3. CASE SkipImport \/ NoImport \/ PreprobeFailed \/ ImportRaises \/ HelperFailed \/ PostProbeFailed
    BY <1>1, <2>3, ShortKeeps
  <2>4. CASE WriteBundle \/ NarrowBundle \/ WritePending BY <1>1, <2>4, BundleKeeps
  <2>5. CASE ResolveExisting \/ HelperVerified \/ BackUp \/ RecordBackup
    BY <1>1, <2>5, ResolveKeeps
  <2>6. CASE RunHelper \/ LogHelper BY <1>1, <2>6, HelperKeeps
  <2>7. CASE Reconcile BY <1>1, <2>7, ReconcileKeeps
  <2>8. CASE ResolveAgain \/ VerifyState \/ PostProbe \/ GroupProbe \/ Imported
    BY <1>1, <2>8, VerifyKeeps
  <2> QED BY <1>1, <2>1, <2>2, <2>3, <2>4, <2>5, <2>6, <2>7, <2>8 DEF ImportNext
<1>2. CASE RecoverNext /\ UNCHANGED closeVars
  <2>1. CASE \/ RecoverLoad \/ \E t \in Attempts : RecoverGrant(t)
             \/ RecoverRaises \/ RecoverKilled
    BY <1>2, <2>1, RecoverKeeps
  <2>2. CASE RecoverBundle \/ RecoverNothing \/ RecoverSave BY <1>2, <2>2, RecoverWrites
  <2> QED BY <1>2, <2>1, <2>2 DEF RecoverNext
<1>3. CASE WorldNext /\ UNCHANGED closeVars BY <1>3, WorldKeeps
<1>4. CASE CloseoutNext
  <2>1. CASE PrepareRead \/ PrepareProbed \/ PrepareRaises \/ Confirm BY <2>1, PrepareKeeps
  <2>2. CASE PrepareWrite \/ Expire BY <2>2, ArtifactKeeps
  <2>3. CASE NewJournal \/ OldJournal BY <2>3, JournalKeeps
  <2>4. CASE \/ CheckpointPrepared \/ CheckpointQuarantined \/ CheckpointFinal
             \/ HandoffPrepared \/ HandoffQuarantined \/ HandoffFinal
    BY <2>4, RecordsKeep
  <2>5. CASE ManifestQuarantined \/ ManifestFinal BY <2>5, ManifestKeeps
  <2>6. CASE MoveSource BY <2>6, MoveKeeps
  <2>7. CASE Purge BY <2>7, PurgeKeeps
  <2>8. CASE JournalMove \/ JournalPurge \/ AllQuarantined \/ AllPurged
    BY <2>8, JournalledKeeps
  <2> QED BY <1>4, <2>1, <2>2, <2>3, <2>4, <2>5, <2>6, <2>7, <2>8 DEF CloseoutNext, ConfirmStep
<1>5. CASE UNCHANGED vars BY <1>5, StutterOK
<1> QED BY <1>1, <1>2, <1>3, <1>4, <1>5 DEF Next

\* The inductive invariant of the batch and its closeout: types, accounts without
\* gaps, names of accounts that exist, manifests that do not run ahead of the
\* journal, and what a confirmation has done by each of its steps.
THEOREM CloseoutInvariance == Spec => []IInv
<1>1. Init => IInv BY InitOK
<1>2. IInv /\ [Next]_vars => IInv' BY NextOK
<1> QED BY <1>1, <1>2, PTL DEF Spec

\* No grant is lost: import, recovery and closeout, killed anywhere, leave each
\* OAuth file in its place or in the quarantine, or the records name the account
\* that took it over.
THEOREM GrantsKept == Spec => []NothingLost
<1>1. IInv => NothingLost BY DEF IInv
<1> QED BY <1>1, CloseoutInvariance, PTL

\* A manifest that says imported is true of production: it is written once
\* reconcile_imported_accounts has done, and again only as it was read.
THEOREM ImportedHolds == Spec => []ImportedIsTrue
<1>1. IInv => ImportedIsTrue BY DEF IInv
<1> QED BY <1>1, CloseoutInvariance, PTL

\* What manifest.json says of the cleanup never runs ahead of its journal, also
\* when the recovery writes back a copy it has read before.
THEOREM RecordsFollow == Spec => []RecordsFollowJournal
<1>1. IInv => RecordsFollowJournal
  <2> SUFFICES ASSUME IInv PROVE RecordsFollowJournal OBVIOUS
  <2> DEFINE states == {journal.entries[k].state : k \in DOMAIN journal.entries}
  <2>1. Follows(manifest) BY DEF IInv, CopiesFollow
  <2>2. manifest.cleanup # "none" => journal \in Journals /\ journal.entries # <<>>
    BY <2>1 DEF Follows, IInv, TypeOK
  <2>3. manifest.cleanup # "none" => "pending" \notin states BY <2>1 DEF Follows, Left
  <2>4. ASSUME manifest.cleanup = "completed" PROVE states = {"deleted"}
    <3>1. PICK e \in Seq(Entry) : e = journal.entries /\ e # <<>>
      BY <2>2, <2>4 DEF Journals
    <3>2. \A k \in DOMAIN e : e[k].state \in {"pending", "quarantined", "deleted"}
      <4>1. \A k \in DOMAIN e : e[k] \in Entry OBVIOUS
      <4> QED BY <4>1 DEF Entry
    <3>3. \A k \in DOMAIN e : e[k].state \notin {"pending", "quarantined"}
      BY <2>1, <2>4, <3>1 DEF Follows, Left
    <3>4. DOMAIN e # {}
      <4>1. Len(e) # 0 /\ Len(e) \in Nat /\ DOMAIN e = 1..Len(e) BY <3>1, EmptySeq
      <4> QED BY <4>1
    <3> QED BY <3>1, <3>2, <3>3, <3>4
  <2> QED BY <2>3, <2>4 DEF RecordsFollowJournal
<1> QED BY <1>1, CloseoutInvariance, PTL
=============================================================================
