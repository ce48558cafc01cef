---------------------------- MODULE Egress_proofs ----------------------------
(***************************************************************************)
(* For any accounts, proxies and numbers of plans, applies and faults: an  *)
(* apply leaves no account unschedulable in silence, its rows and its      *)
(* summary say what is true, it takes away no binding but its own, and     *)
(* every plan balances the pool.  The last is induction over the loop of   *)
(* compute_balanced_quotas: by its least counterexample, since a theorem   *)
(* of the library that takes a predicate cannot be cited.                  *)
(***************************************************************************)
EXTENDS Egress, FiniteSetTheorems, SequenceTheorems, WellFoundedInduction, TLAPS

-----------------------------------------------------------------------------
(* The operators of the model.                                             *)

\* Smallest names the least element of a set of naturals.
LEMMA LeastIn ==
  ASSUME NEW T \in SUBSET Nat, T # {}
  PROVE  Smallest(T) \in T /\ \A y \in T : Smallest(T) <= y
<1> DEFINE Less == {ss \in Nat \X Nat : ss[1] < ss[2]}
<1>1. IsWellFoundedOn(Less, Nat)
  BY NatLessThanWellFounded DEF OpToRel
<1>2. PICK x \in T : \A y \in T : ~ (<<y, x>> \in Less)
  <2> HIDE DEF Less
  <2> QED BY <1>1, WFMin
<1>3. ASSUME NEW y \in T PROVE x <= y
  <2>1. <<y, x>> \in Nat \X Nat /\ ~ (<<y, x>> \in Less) BY <1>2
  <2> QED BY <2>1
<1>4. \E z \in T : \A y \in T : z <= y BY <1>3
<1> QED BY <1>4 DEF Smallest

\* Smallest names an account of the set it is given.
LEMMA SmallestIn ==
  ASSUME NEW T \in SUBSET Accounts, T # {}
  PROVE  Smallest(T) \in T
BY LeastIn, EgressAssumption

\* An account ID is never 0, a proxy ID neither.
LEMMA NoZero == 0 \notin Accounts /\ 0 \notin Proxies
BY EgressAssumption

\* The plan of an apply in progress is a plan of candidates.
LEMMA PlanOfRun ==
  ASSUME IInv, run.at # "idle"
  PROVE  /\ run.plan \in DOMAIN plans /\ PlanOK(Plan)
         /\ DOMAIN Plan.proxyOf \subseteq Accounts
         /\ run.todo \subseteq Accounts /\ run.done \subseteq Accounts
         /\ \A a \in DOMAIN Plan.proxyOf :
               /\ Plan.proxyOf[a] \in Proxies
               /\ Plan.before[a] \in AccountState /\ Candidate(Plan.before[a])
<1>1. run.plan \in DOMAIN plans /\ PlanOK(Plan) BY DEF IInv, Walks, TypeOK, Plan
<1>2. DOMAIN Plan.proxyOf \subseteq Accounts BY <1>1 DEF PlanOK
<1>3. run.todo \subseteq Accounts /\ run.done \subseteq Accounts BY DEF IInv, TypeOK, RunType
<1> QED BY <1>1, <1>2, <1>3 DEF PlanOK

\* The account in hand is one of the plan.
LEMMA CurIsAccount ==
  ASSUME IInv, run.at \in InHand
  PROVE  /\ run.at # "idle" /\ Cur \in Accounts /\ Cur \in DOMAIN Plan.proxyOf
         /\ Cur \in run.todo /\ Cur \notin run.skip /\ Cur \notin run.done
         /\ acct[Cur] \in AccountState
<1>1. run.at # "idle" BY DEF InHand
<1>2. Cur \in run.todo \ run.skip BY DEF IInv, Walks
<1>3. Cur \in DOMAIN Plan.proxyOf /\ Cur \notin run.done BY <1>1, <1>2 DEF IInv, Walks
<1>4. Cur \in Accounts BY <1>1, <1>3, PlanOfRun
<1> QED BY <1>1, <1>2, <1>3, <1>4 DEF IInv, TypeOK

-----------------------------------------------------------------------------
(* The quotas: what compute_balanced_quotas computes, by induction over the  *)
(* number of candidates.                                                     *)

\* Induction, over the set of the numbers something holds for.
LEMMA Induction ==
  ASSUME NEW T \in SUBSET Nat, 0 \in T, \A n \in T : n + 1 \in T
  PROVE  T = Nat
<1> SUFFICES ASSUME Nat \ T # {} PROVE FALSE
  OBVIOUS
<1> DEFINE n == Smallest(Nat \ T)
<1>1. Nat \ T \in SUBSET Nat OBVIOUS
<1>2. n \in Nat \ T /\ \A m \in Nat \ T : n <= m BY <1>1, LeastIn
<1> HIDE DEF n
<1>3. n # 0 BY <1>2
<1>4. n - 1 \in Nat /\ n - 1 < n BY <1>2, <1>3
<1>5. n - 1 \in T BY <1>2, <1>4
<1>6. (n - 1) + 1 = n BY <1>2
<1> QED BY <1>2, <1>5, <1>6

\* f is the table of totals that the loop goes through from current.
IsFill(f, current, n) ==
  f = [k \in 0..n |-> IF k = 0 THEN current ELSE AddOne(f[k - 1])]

LEMMA FillExists ==
  ASSUME NEW current, NEW n \in Nat
  PROVE  \E f : IsFill(f, current, n)
<1> DEFINE T == {m \in Nat : \E f : IsFill(f, current, m)}
<1>1. 0 \in T
  <2> DEFINE g == [k \in 0..0 |-> current]
  <2>1. g = [k \in 0..0 |-> IF k = 0 THEN current ELSE AddOne(g[k - 1])]
    OBVIOUS
  <2> QED BY <2>1 DEF IsFill
<1>2. ASSUME NEW m \in T PROVE m + 1 \in T
  <2>1. PICK f : f = [k \in 0..m |-> IF k = 0 THEN current ELSE AddOne(f[k - 1])]
    BY DEF IsFill
  <2> DEFINE g == [k \in 0..m + 1 |-> IF k = m + 1 THEN AddOne(f[m]) ELSE f[k]]
  <2>2. ASSUME NEW k \in 0..m + 1
        PROVE  g[k] = IF k = 0 THEN current ELSE AddOne(g[k - 1])
    <3>1. CASE k = m + 1
      <4>1. k - 1 = m /\ m \in 0..m + 1 /\ m # m + 1 /\ k # 0 BY <3>1
      <4>2. g[k - 1] = f[m] BY <4>1
      <4> QED BY <3>1, <4>1, <4>2
    <3>2. CASE k # m + 1 /\ k # 0
      <4>1. k \in 0..m /\ k - 1 \in 0..m + 1 /\ k - 1 # m + 1 BY <3>2
      <4>2. g[k - 1] = f[k - 1] /\ g[k] = f[k] BY <3>2, <4>1
      <4>3. f[k] = AddOne(f[k - 1]) BY <2>1, <3>2, <4>1
      <4> QED BY <3>2, <4>2, <4>3
    <3>3. CASE k # m + 1 /\ k = 0
      <4>1. k \in 0..m BY <3>3
      <4>2. f[k] = current BY <2>1, <3>3, <4>1
      <4> QED BY <3>3, <4>2
    <3> QED BY <3>1, <3>2, <3>3
  <2>3. g = [k \in 0..m + 1 |-> g[k]] OBVIOUS
  <2> HIDE DEF g
  <2>4. g = [k \in 0..m + 1 |-> IF k = 0 THEN current ELSE AddOne(g[k - 1])]
    BY <2>2, <2>3
  <2> QED BY <2>4 DEF IsFill
<1> HIDE DEF T
<1>3. T \in SUBSET Nat BY DEF T
<1>4. T = Nat BY <1>1, <1>2, <1>3, Induction
<1> QED BY <1>4 DEF T

\* A longer loop goes through the same totals first.
LEMMA FillAgrees ==
  ASSUME NEW current, NEW n \in Nat, NEW m \in Nat, m <= n,
         NEW f, IsFill(f, current, n), NEW g, IsFill(g, current, m)
  PROVE  f[m] = g[m]
<1> DEFINE T == {k \in Nat : k <= m => f[k] = g[k]}
<1>1. 0 \in T BY DEF IsFill
<1>2. ASSUME NEW k \in T PROVE k + 1 \in T
  <2> SUFFICES ASSUME k + 1 <= m PROVE f[k + 1] = g[k + 1] OBVIOUS
  <2>1. f[k] = g[k] OBVIOUS
  <2>2. k + 1 \in 0..m /\ k + 1 \in 0..n /\ k + 1 # 0 /\ (k + 1) - 1 = k OBVIOUS
  <2>3. f[k + 1] = AddOne(f[k]) BY <2>2 DEF IsFill
  <2>4. g[k + 1] = AddOne(g[k]) BY <2>2 DEF IsFill
  <2> QED BY <2>1, <2>3, <2>4
<1> HIDE DEF T
<1>3. T \in SUBSET Nat BY DEF T
<1>4. T = Nat BY <1>1, <1>2, <1>3, Induction
<1>5. m \in T BY <1>4
<1> QED BY <1>5 DEF T

LEMMA TotalsFill ==
  ASSUME NEW current, NEW n \in Nat
  PROVE  \E f : IsFill(f, current, n) /\ Totals(current, n) = f[n]
<1> DEFINE fill == CHOOSE f : f = [k \in 0..n |-> IF k = 0 THEN current ELSE AddOne(f[k - 1])]
<1>1. Totals(current, n) = fill[n] BY DEF Totals
<1>2. fill = [k \in 0..n |-> IF k = 0 THEN current ELSE AddOne(fill[k - 1])]
  BY FillExists DEF IsFill
<1> HIDE DEF fill
<1> QED BY <1>1, <1>2 DEF IsFill

\* The loop: no candidate, no change; one more candidate, one more step.
LEMMA TotalsZero ==
  ASSUME NEW current
  PROVE  Totals(current, 0) = current
<1>1. PICK f : IsFill(f, current, 0) /\ Totals(current, 0) = f[0] BY TotalsFill
<1> QED BY <1>1 DEF IsFill

LEMMA TotalsNext ==
  ASSUME NEW current, NEW n \in Nat
  PROVE  Totals(current, n + 1) = AddOne(Totals(current, n))
<1>1. PICK f : IsFill(f, current, n + 1) /\ Totals(current, n + 1) = f[n + 1]
  BY TotalsFill
<1>2. PICK g : IsFill(g, current, n) /\ Totals(current, n) = g[n]
  BY TotalsFill
<1>3. f[n] = g[n]
  <2>1. n + 1 \in Nat /\ n <= n + 1 OBVIOUS
  <2> QED BY <1>1, <1>2, <2>1, FillAgrees
<1>4. f[n + 1] = AddOne(f[n])
  <2>1. n + 1 \in 0..n + 1 /\ n + 1 # 0 /\ (n + 1) - 1 = n OBVIOUS
  <2> QED BY <1>1, <2>1 DEF IsFill
<1> QED BY <1>1, <1>2, <1>3, <1>4

\* One more account goes to a proxy that has as few as any.
LEMMA AddOneToLeast ==
  ASSUME NEW finals \in [Proxies -> Nat]
  PROVE  \E p \in Proxies : /\ \A q \in Proxies : finals[p] <= finals[q]
                            /\ AddOne(finals) = [finals EXCEPT ![p] = @ + 1]
<1> DEFINE least == {p \in Proxies : \A q \in Proxies : finals[p] <= finals[q]}
           counts == {finals[p] : p \in Proxies}
<1>1. counts \in SUBSET Nat /\ counts # {} BY EgressAssumption
<1>2. Smallest(counts) \in counts /\ \A y \in counts : Smallest(counts) <= y
  <2> HIDE DEF counts
  <2> QED BY <1>1, LeastIn
<1>3. least # {}
  <2>1. PICK p \in Proxies : Smallest(counts) = finals[p] BY <1>2
  <2>2. \A q \in Proxies : finals[q] \in counts OBVIOUS
  <2>3. p \in least
    <3> HIDE DEF counts
    <3> QED BY <1>2, <2>1, <2>2
  <2> QED BY <2>3
<1>4. least \in SUBSET Nat BY EgressAssumption
<1>5. Smallest(least) \in least
  <2> HIDE DEF least
  <2> QED BY <1>3, <1>4, LeastIn
<1> QED BY <1>5 DEF AddOne

\* A proxy that the loop has given an account is at most one above any other:
\* it was a least one when it got its last.
LEMMA TotalsBalance ==
  ASSUME NEW current \in [Proxies -> Nat], NEW n \in Nat
  PROVE  /\ Totals(current, n) \in [Proxies -> Nat]
         /\ \A p \in Proxies : current[p] <= Totals(current, n)[p]
         /\ \A p, q \in Proxies : current[p] < Totals(current, n)[p] =>
                Totals(current, n)[p] <= Totals(current, n)[q] + 1
<1> DEFINE Balanced(t) ==
             /\ t \in [Proxies -> Nat]
             /\ \A p \in Proxies : current[p] <= t[p]
             /\ \A p, q \in Proxies : current[p] < t[p] => t[p] <= t[q] + 1
           T == {m \in Nat : Balanced(Totals(current, m))}
<1>1. 0 \in T BY TotalsZero
<1>2. ASSUME NEW m \in T PROVE m + 1 \in T
  <2> DEFINE t == Totals(current, m)
             u == Totals(current, m + 1)
  <2>1. Balanced(t) OBVIOUS
  <2>2. u = AddOne(t) BY TotalsNext
  <2> HIDE DEF t, u
  <2>3. PICK r \in Proxies : /\ \A q \in Proxies : t[r] <= t[q]
                             /\ u = [t EXCEPT ![r] = @ + 1]
    BY <2>1, <2>2, AddOneToLeast
  <2>4. \A p \in Proxies : u[p] = IF p = r THEN t[p] + 1 ELSE t[p] BY <2>1, <2>3
  <2>5. u \in [Proxies -> Nat] BY <2>1, <2>3
  <2>6. \A p \in Proxies : t[p] \in Nat /\ current[p] \in Nat BY <2>1
  <2>7. \A p \in Proxies : current[p] <= u[p] BY <2>1, <2>4, <2>6
  <2>8. ASSUME NEW p \in Proxies, NEW q \in Proxies, current[p] < u[p]
        PROVE  u[p] <= u[q] + 1
    <3>1. CASE p = r BY <2>3, <2>4, <2>6, <3>1
    <3>2. CASE p # r BY <2>1, <2>4, <2>6, <2>8, <3>2
    <3> QED BY <3>1, <3>2
  <2>9. Balanced(u) BY <2>5, <2>7, <2>8
  <2> QED BY <2>9 DEF u
<1> HIDE DEF T
<1>3. T \in SUBSET Nat BY DEF T
<1>4. T = Nat BY <1>1, <1>2, <1>3, Induction
<1>5. n \in T BY <1>4
<1> QED BY <1>5 DEF T

\* The quotas add up to the number of candidates ("internal quota balance error"
\* and "quota total does not match candidate count" are never raised): there is
\* an assignment within them.
THEOREM QuotasAddUp ==
  ASSUME NEW current \in [Proxies -> Nat], NEW cands \in SUBSET Accounts
  PROVE  Assignments(cands, current, Totals(current, Cardinality(cands))) # {}
<1> DEFINE T == {m \in Nat : \A S \in SUBSET Accounts : Cardinality(S) = m =>
                               Assignments(S, current, Totals(current, m)) # {}}
<1>0. \A S \in SUBSET Accounts : IsFiniteSet(S) /\ Cardinality(S) \in Nat
  BY EgressAssumption, FS_Subset, FS_CardinalityType
<1>1. 0 \in T
  <2>1. ASSUME NEW S \in SUBSET Accounts, Cardinality(S) = 0
        PROVE  Assignments(S, current, Totals(current, 0)) # {}
    <3>1. S = {} BY <1>0, <2>1, FS_EmptySet
    <3> DEFINE f == [a \in S |-> 0]
    <3>2. f \in [S -> Proxies] BY <3>1
    <3>3. \A p \in Proxies : Cardinality({a \in S : f[a] = p}) = 0 BY <3>1, FS_EmptySet
    <3>4. \A p \in Proxies : current[p] - current[p] = 0 OBVIOUS
    <3> HIDE DEF f
    <3>5. f \in Assignments(S, current, Totals(current, 0))
      BY <3>2, <3>3, <3>4, TotalsZero DEF Assignments
    <3> QED BY <3>5
  <2> QED BY <2>1
<1>2. ASSUME NEW m \in T PROVE m + 1 \in T
  <2>1. ASSUME NEW S \in SUBSET Accounts, Cardinality(S) = m + 1
        PROVE  Assignments(S, current, Totals(current, m + 1)) # {}
    <3> DEFINE t == Totals(current, m)
               u == Totals(current, m + 1)
    <3>1. S # {} BY <1>0, <2>1, FS_EmptySet
    <3>2. PICK x : x \in S BY <3>1
    <3> DEFINE R == S \ {x}
    <3>3. R \in SUBSET Accounts /\ Cardinality(R) = m
      BY <1>0, <2>1, <3>2, FS_RemoveElement
    <3>4. PICK g \in Assignments(R, current, t) : TRUE BY <3>3
    <3>5. /\ g \in [R -> Proxies]
          /\ \A p \in Proxies : Cardinality({a \in R : g[a] = p}) = t[p] - current[p]
      BY <3>4 DEF Assignments
    <3>6. t \in [Proxies -> Nat] BY TotalsBalance
    <3>7. u = AddOne(t) BY TotalsNext
    <3> HIDE DEF t, u
    <3>8. PICK r \in Proxies : u = [t EXCEPT ![r] = @ + 1]
      BY <3>6, <3>7, AddOneToLeast
    <3> DEFINE f == [a \in S |-> IF a = x THEN r ELSE g[a]]
    <3>9. f \in [S -> Proxies] BY <3>5
    <3>10. ASSUME NEW p \in Proxies
           PROVE  Cardinality({a \in S : f[a] = p}) = u[p] - current[p]
      <4> DEFINE G == {a \in R : g[a] = p}
                 H == {a \in S : f[a] = p}
      <4>1. IsFiniteSet(G) /\ Cardinality(G) = t[p] - current[p] /\ x \notin G
        <5>1. G \in SUBSET Accounts BY <3>3
        <5> QED BY <1>0, <3>5, <5>1
      <4>2. t[p] \in Nat /\ current[p] \in Nat BY <3>6
      <4>3. ASSUME p = r PROVE Cardinality(H) = u[p] - current[p]
        <5>1. H = G \cup {x} BY <3>2, <4>3
        <5>2. u[p] = t[p] + 1 BY <3>6, <3>8, <4>3
        <5> HIDE DEF G, H, f
        <5>3. Cardinality(G \cup {x}) = Cardinality(G) + 1 BY <4>1, FS_AddElement
        <5> QED BY <4>1, <4>2, <5>1, <5>2, <5>3
      <4>4. ASSUME p # r PROVE Cardinality(H) = u[p] - current[p]
        <5>1. H = G BY <3>2, <4>4
        <5>2. u[p] = t[p] BY <3>6, <3>8, <4>4
        <5> HIDE DEF G, H, f
        <5> QED BY <4>1, <5>1, <5>2
      <4> QED BY <4>3, <4>4
    <3> HIDE DEF f
    <3>11. f \in Assignments(S, current, u) BY <3>9, <3>10 DEF Assignments
    <3> QED BY <3>11 DEF u
  <2> QED BY <2>1
<1> HIDE DEF T
<1>3. T \in SUBSET Nat BY DEF T
<1>4. T = Nat BY <1>1, <1>2, <1>3, Induction
<1>5. Cardinality(cands) \in T BY <1>0, <1>4
<1> QED BY <1>5 DEF T

-----------------------------------------------------------------------------
(* The two kinds of step of an apply that has accounts to write.           *)

\* A write to Sub2API: only the account in hand changes, and it stays in hand.
LEMMA HandStep ==
  ASSUME IInv, run.at \in InHand,
         NEW at \in InHand, NEW back \in Backs,
         run' = [run EXCEPT !.at = at, !.proxyBack = back],
         NEW state \in AccountState,
         acct' = [acct EXCEPT ![Cur] = state],
         Cur \notin raced => state.proxy \in {0, Plan.proxyOf[Cur]},
         at = "undo-sched" /\ back = "restored" => Cur \in touched \/ state.proxy = 0,
         UNCHANGED rows, Keep
  PROVE  IInv'
<1>1. /\ UNCHANGED <<plans, rows, summary, applies, faults, touched, raced, killedAt>>
      /\ Plan' = Plan /\ Cur' = Cur
      /\ run' \in RunType /\ run'.at = at /\ run'.todo = run.todo /\ run'.done = run.done
      /\ run'.skip = run.skip /\ run'.failed = run.failed /\ run'.plan = run.plan
      /\ run'.proxyBack = back
  <2>1. run \in RunType BY DEF IInv, TypeOK
  <2>2. at \in Places BY DEF InHand, Places
  <2>3. run' \in RunType BY <2>1, <2>2 DEF RunType
  <2> QED BY <2>1, <2>3 DEF Keep, Plan, Cur, RunType
<1>2. /\ run.at # "idle" /\ Cur \in Accounts /\ Cur \in DOMAIN Plan.proxyOf
      /\ Cur \in run.todo /\ Cur \notin run.skip /\ Cur \notin run.done
  BY CurIsAccount
<1>3. /\ acct' \in [Accounts -> AccountState]
      /\ acct'[Cur] = state
      /\ \A a \in Accounts \ {Cur} : acct'[a] = acct[a]
  BY <1>2 DEF IInv, TypeOK
<1>4. at \notin {"idle", "precheck", "next"} /\ run.at \in Writing BY DEF InHand, Writing
<1>5. TypeOK' BY <1>1, <1>3 DEF IInv, TypeOK, PlanOK
<1>6. Walks' BY <1>1, <1>2, <1>4 DEF IInv, Walks
<1>7. Checked'
  <2>1. \A a \in run.todo \ {Cur} : acct'[a].sched \/ a \in touched
    BY <1>2, <1>3, <1>4, PlanOfRun DEF IInv, Checked
  <2>2. \A a \in run.skip \ touched : AlreadyApplied(a)'
    <3>1. run.skip \subseteq Accounts BY DEF IInv, TypeOK, RunType
    <3> QED BY <1>1, <1>2, <1>3, <3>1 DEF IInv, Checked, AlreadyApplied
  <2> QED BY <1>1, <1>4, <2>1, <2>2 DEF Checked
<1>8. HandOK' BY <1>1, <1>3 DEF HandOK
<1>9. RowsOK'
  <2>1. \A a \in run.done : acct'[a] = acct[a] BY <1>2, <1>3, PlanOfRun
  <2> QED BY <1>1, <1>4, <2>1 DEF IInv, RowsOK, AlreadyApplied
<1>10. SummaryKept' BY <1>1 DEF IInv, SummaryKept
<1>11. StoppedIsReported' BY <1>1, <1>3 DEF IInv, StoppedIsReported
<1>12. FailedIsRestored' BY <1>1, <1>3 DEF IInv, FailedIsRestored
<1>13. OutcomeIsTrue'
  <2> SUFFICES ASSUME summary.outcome = "binding_applied",
                      NEW a \in DOMAIN plans[summary.plan].proxyOf, a \notin touched
               PROVE  acct'[a] = acct[a]
    BY <1>1 DEF IInv, OutcomeIsTrue
  <2>1. summary.plan \in DOMAIN plans /\ a # Cur BY DEF IInv, SummaryKept
  <2>2. a \in Accounts BY <2>1 DEF IInv, TypeOK, PlanOK
  <2> QED BY <1>3, <2>1, <2>2
<1> QED BY <1>5, <1>6, <1>7, <1>8, <1>9, <1>10, <1>11, <1>12, <1>13 DEF IInv

\* The row of an account: the apply is done with it, and what the row says of
\* it is true.
LEMMA RowStep ==
  ASSUME IInv, run.at \in Writing, NEW a \in run.todo, Cur \in {0, a},
         NEW status \in Statuses \ {"none"}, NEW pb \in Backs, NEW sb \in Backs,
         WriteRow(a, status, pb, sb),
         NEW state \in AccountState,
         acct' = [acct EXCEPT ![a] = state],
         Cur = 0 => state = acct[a],
         status # "failed" => a \in touched \/ (state.sched /\ state.proxy = Plan.proxyOf[a]),
         ~state.sched => a \in touched \/ sb = "failed",
         status = "failed" /\ pb = "restored" /\ sb = "restored" /\ a \notin touched
            => state.proxy = 0 /\ state.sched,
         Keep
  PROVE  IInv'
<1>1. /\ run.at # "idle" /\ run.at # "precheck" /\ a \in Accounts /\ a # 0 /\ run \in RunType
      /\ a \notin run.done
  <2>1. run.at # "idle" /\ run.at # "precheck" BY DEF Writing, InHand
  <2> QED BY <2>1, NoZero DEF IInv, TypeOK, RunType, Walks
<1>2. /\ run' \in RunType /\ run'.at = "next" /\ Cur' = 0 /\ Plan' = Plan
      /\ run'.plan = run.plan /\ run'.skip = run.skip
      /\ run'.todo = run.todo \ {a} /\ run'.done = run.done \cup {a}
      /\ run'.failed = IF status = "failed" THEN run.failed + 1 ELSE run.failed
  <2>1. run' = [run EXCEPT !.at = "next", !.cur = 0, !.proxyBack = "none",
                           !.todo = @ \ {a}, !.done = @ \cup {a},
                           !.failed = IF status = "failed" THEN @ + 1 ELSE @]
    BY DEF WriteRow
  <2>2. "next" \in Places /\ "none" \in Backs BY DEF Places, Backs
  <2>3. /\ run.failed \in Nat /\ run.todo \ {a} \in SUBSET Accounts
        /\ run.done \cup {a} \in SUBSET Accounts
    BY <1>1 DEF RunType
  <2>4. run' \in RunType
    <3>1. CASE status = "failed"
      <4>1. run' = [run EXCEPT !.at = "next", !.cur = 0, !.proxyBack = "none",
                               !.todo = @ \ {a}, !.done = @ \cup {a}, !.failed = @ + 1]
        BY <2>1, <3>1
      <4>2. run.failed + 1 \in Nat BY <2>3
      <4> QED BY <1>1, <2>2, <2>3, <4>1, <4>2 DEF RunType
    <3>2. CASE status # "failed" BY <1>1, <2>1, <2>2, <2>3, <3>2 DEF RunType
    <3> QED BY <3>1, <3>2
  <2> QED BY <1>1, <2>1, <2>4 DEF RunType, Keep, Plan, Cur
<1>3. UNCHANGED <<plans, summary, applies, faults, touched, raced, killedAt>> BY DEF Keep
<1>4. /\ acct' \in [Accounts -> AccountState] /\ acct'[a] = state
      /\ \A b \in Accounts \ {a} : acct'[b] = acct[b]
  BY <1>1 DEF IInv, TypeOK
<1>5. /\ rows' \in [Accounts -> RowType]
      /\ rows'[a] = [status |-> status, proxyBack |-> pb, schedBack |-> sb]
      /\ \A b \in Accounts \ {a} : rows'[b] = rows[b]
  BY <1>1 DEF IInv, TypeOK, WriteRow, RowType
<1>6. Cur = 0 \/ Cur = a OBVIOUS
<1>7. TypeOK' BY <1>2, <1>3, <1>4, <1>5 DEF IInv, TypeOK, PlanOK
<1>8. Walks'
  <2>1. /\ run.plan \in DOMAIN plans
        /\ run.todo \cup run.done = DOMAIN Plan.proxyOf
        /\ run.todo \cap run.done = {} /\ run.skip \subseteq DOMAIN Plan.proxyOf
    BY <1>1 DEF IInv, Walks
  <2>2. /\ run'.todo \cup run'.done = DOMAIN Plan.proxyOf
        /\ run'.todo \cap run'.done = {}
    BY <1>2, <2>1
  <2> QED BY <1>2, <1>3, <2>1, <2>2 DEF Walks, InHand
<1>9. Checked'
  <2>1. \A b \in run.todo \ {a} : acct'[b].sched \/ b \in touched
    <3>1. \A b \in run.todo \ {a} : b \in Accounts \ {a} /\ b # Cur
      BY <1>1, <1>6, NoZero DEF RunType
    <3> QED BY <1>4, <3>1 DEF IInv, Checked
  <2>2. \A b \in run.skip \ touched : AlreadyApplied(b)'
    <3> SUFFICES ASSUME NEW b \in run.skip \ touched PROVE AlreadyApplied(b)' OBVIOUS
    <3>1. AlreadyApplied(b) /\ b \in Accounts BY <1>1 DEF IInv, Checked, RunType
    <3>2. CASE b # a BY <1>2, <1>4, <3>1, <3>2 DEF AlreadyApplied
    <3>3. CASE b = a
      <4>1. Cur = 0
        <5>1. CASE run.at \in InHand BY <1>6, <3>3, <5>1 DEF IInv, Walks
        <5>2. CASE run.at \notin InHand BY <5>2 DEF IInv, Walks
        <5> QED BY <5>1, <5>2
      <4> QED BY <1>2, <1>4, <3>1, <3>3, <4>1 DEF AlreadyApplied
    <3> QED BY <3>2, <3>3
  <2> QED BY <1>2, <1>3, <2>1, <2>2 DEF Checked
<1>10. HandOK' BY <1>2 DEF HandOK, InHand
<1>11. RowsOK'
  <2>1. ASSUME NEW b \in run'.done
        PROVE  /\ rows'[b].status # "none"
               /\ rows'[b].status # "failed" /\ b \notin touched => AlreadyApplied(b)'
    <3>1. CASE b = a BY <1>2, <1>4, <1>5, <3>1 DEF AlreadyApplied
    <3>2. CASE b # a
      <4>1. b \in run.done /\ b \in Accounts BY <1>1, <1>2, <3>2 DEF RunType
      <4>2. rows[b].status # "none" BY <4>1 DEF IInv, RowsOK
      <4>3. rows[b].status # "failed" /\ b \notin touched => AlreadyApplied(b)
        BY <4>1 DEF IInv, RowsOK
      <4>4. rows'[b] = rows[b] /\ acct'[b] = acct[b] BY <1>4, <1>5, <3>2, <4>1
      <4> QED BY <1>2, <4>2, <4>3, <4>4 DEF AlreadyApplied
    <3> QED BY <3>1, <3>2
  <2>2. run'.failed > 0 => \E b \in run'.done : rows'[b].status = "failed"
    <3>1. CASE status = "failed" BY <1>2, <1>5, <3>1
    <3>2. CASE status # "failed" /\ run.failed > 0
      <4>1. PICK b \in run.done : rows[b].status = "failed" BY <3>2 DEF IInv, RowsOK
      <4>2. rows'[b] = rows[b] BY <1>1, <1>5, <4>1 DEF RunType
      <4> QED BY <1>2, <4>1, <4>2
    <3> QED BY <1>2, <3>1, <3>2
  <2> QED BY <1>3, <2>1, <2>2 DEF RowsOK
<1>12. SummaryKept'
  <2> SUFFICES ASSUME summary.outcome = "binding_applied"
               PROVE  /\ summary.plan \in DOMAIN plans
                      /\ 0 \notin DOMAIN plans[summary.plan].proxyOf
    BY <1>2, <1>3 DEF SummaryKept
  <2>1. summary.plan \in DOMAIN plans BY DEF IInv, SummaryKept
  <2> QED BY <2>1, NoZero DEF IInv, TypeOK, PlanOK
<1>13. StoppedIsReported'
  <2> SUFFICES ASSUME NEW b \in Accounts, ~acct'[b].sched
               PROVE  b \in touched \cup killedAt \/ rows'[b].schedBack = "failed"
    BY <1>3 DEF StoppedIsReported
  <2>1. CASE b = a BY <1>4, <1>5, <2>1
  <2>2. CASE b # a
    <3>1. b # Cur /\ acct'[b] = acct[b] /\ rows'[b] = rows[b]
      BY <1>4, <1>5, <1>6, <2>2, NoZero
    <3> QED BY <3>1 DEF IInv, StoppedIsReported
  <2> QED BY <2>1, <2>2
<1>14. FailedIsRestored'
  <2> SUFFICES ASSUME NEW b \in Accounts, rows'[b].status = "failed",
                      rows'[b].proxyBack = "restored", rows'[b].schedBack = "restored",
                      b \notin touched \cup killedAt
               PROVE  acct'[b].proxy = 0 /\ acct'[b].sched
    BY <1>3 DEF FailedIsRestored
  <2>1. CASE b = a BY <1>4, <1>5, <2>1
  <2>2. CASE b # a
    <3>1. b # Cur /\ acct'[b] = acct[b] /\ rows'[b] = rows[b]
      BY <1>4, <1>5, <1>6, <2>2, NoZero
    <3> QED BY <3>1 DEF IInv, FailedIsRestored
  <2> QED BY <2>1, <2>2
<1>15. OutcomeIsTrue'
  <2> SUFFICES ASSUME summary.outcome = "binding_applied",
                      NEW b \in DOMAIN plans[summary.plan].proxyOf, b \notin touched
               PROVE  acct'[b] = acct[b]
    BY <1>3 DEF IInv, OutcomeIsTrue
  <2>1. summary.plan \in DOMAIN plans /\ b # Cur BY DEF IInv, SummaryKept
  <2>2. b \in Accounts BY <2>1 DEF IInv, TypeOK, PlanOK
  <2> QED BY <1>4, <1>6, <2>1, <2>2
<1> QED BY <1>7, <1>8, <1>9, <1>10, <1>11, <1>12, <1>13, <1>14, <1>15 DEF IInv

-----------------------------------------------------------------------------
(* Every step preserves the invariant.                                     *)

LEMMA InitIInv == Init => IInv
<1> SUFFICES ASSUME Init PROVE IInv OBVIOUS
<1> USE DEF Init
<1>1. TypeOK
  <2>1. run \in RunType BY DEF NoRun, RunType, Places, Backs
  <2>2. rows \in [Accounts -> RowType] BY DEF NoRow, RowType, Statuses, Backs
  <2>3. acct \in [Accounts -> AccountState] OBVIOUS
  <2> QED BY <2>1, <2>2, <2>3, EgressAssumption DEF TypeOK
<1>2. Walks BY DEF Walks, NoRun, InHand, Cur
<1>3. Checked BY DEF Checked, NoRun, Writing, InHand
<1>4. HandOK BY DEF HandOK, NoRun, InHand
<1>5. RowsOK BY DEF RowsOK, NoRun, Writing, InHand
<1>6. SummaryKept /\ OutcomeIsTrue BY DEF SummaryKept, OutcomeIsTrue, NoSummary
<1>7. StoppedIsReported BY DEF StoppedIsReported
<1>8. FailedIsRestored BY DEF FailedIsRestored, NoRow
<1> QED BY <1>1, <1>2, <1>3, <1>4, <1>5, <1>6, <1>7, <1>8 DEF IInv

\* A step that leaves the accounts, the plans, the rows and the summary alone
\* and has nothing in hand preserves what is not about the apply in progress.
LEMMA NothingInHand ==
  ASSUME IInv, run' \in RunType, Cur' = 0,
         UNCHANGED <<acct, plans, rows, summary, touched>>,
         applies' \in 0..MaxApplies, faults' \in 0..MaxFaults,
         raced' \subseteq Accounts,
         killedAt' \in SUBSET Accounts, killedAt \cup ({Cur} \ {0}) \subseteq killedAt'
  PROVE  TypeOK' /\ SummaryKept' /\ StoppedIsReported' /\ FailedIsRestored' /\ OutcomeIsTrue'
<1>1. TypeOK' BY DEF IInv, TypeOK, PlanOK
<1>2. SummaryKept'
  <2> SUFFICES ASSUME summary.outcome = "binding_applied"
               PROVE  /\ summary.plan \in DOMAIN plans
                      /\ 0 \notin DOMAIN plans[summary.plan].proxyOf
    BY DEF SummaryKept
  <2>1. summary.plan \in DOMAIN plans BY DEF IInv, SummaryKept
  <2> QED BY <2>1, NoZero DEF IInv, TypeOK, PlanOK
<1>3. \A a \in Accounts : a \in touched \cup killedAt \cup {Cur} => a \in (touched \cup killedAt)'
  BY NoZero
<1>4. StoppedIsReported' BY <1>3 DEF IInv, StoppedIsReported
<1>5. FailedIsRestored' BY <1>3 DEF IInv, FailedIsRestored
<1>6. OutcomeIsTrue' BY DEF IInv, OutcomeIsTrue
<1> QED BY <1>1, <1>2, <1>4, <1>5, <1>6

\* When no apply is in progress, nothing is asked of one.
LEMMA Idle ==
  ASSUME run' = NoRun
  PROVE  /\ run' \in RunType /\ Cur' = 0
         /\ Walks' /\ Checked' /\ HandOK' /\ RowsOK'
BY DEF Walks, Checked, HandOK, RowsOK, NoRun, InHand, Writing, Cur, RunType, Places, Backs

\* An apply that is refused before it writes.
LEMMA RefusedIInv ==
  ASSUME IInv, Here("precheck"), run' = NoRun, UNCHANGED <<acct, rows>>, Keep
  PROVE  IInv'
<1>1. Cur = 0 BY DEF IInv, Walks, Here, InHand
<1>2. applies' \in 0..MaxApplies /\ faults' \in 0..MaxFaults /\ raced' \subseteq Accounts
      /\ killedAt' \in SUBSET Accounts
  BY DEF IInv, TypeOK, Keep
<1> QED BY <1>1, <1>2, Idle, NothingInHand DEF IInv, Keep

LEMMA KillIInv == ASSUME IInv, Kill PROVE IInv'
<1>1. Cur \in Accounts \cup {0} BY DEF IInv, TypeOK, RunType, Cur
<1>2. applies' \in 0..MaxApplies /\ raced' \subseteq Accounts /\ killedAt' \in SUBSET Accounts
  BY <1>1 DEF IInv, TypeOK, Kill
<1>3. faults' \in 0..MaxFaults BY EgressAssumption DEF IInv, TypeOK, Kill, Fault
<1> QED BY <1>2, <1>3, Idle, NothingInHand DEF IInv, Kill

LEMMA MakePlanIInv == ASSUME IInv, MakePlan PROVE IInv'
<1> DEFINE cands == Candidates
           current == [p \in Proxies |-> Bound(p)]
           totals == Totals(current, Cardinality(cands))
<1> HIDE DEF totals
<1>1. PICK f \in Assignments(cands, current, totals) :
         plans' = Append(plans, [proxyOf |-> f, before |-> [a \in cands |-> acct[a]],
                                 current |-> current])
  BY DEF MakePlan, totals
<1> DEFINE new == [proxyOf |-> f, before |-> [a \in cands |-> acct[a]], current |-> current]
<1>2. /\ UNCHANGED <<acct, rows, summary, run, applies, faults, touched, raced, killedAt>>
      /\ run = NoRun
  BY DEF MakePlan
<1>3. cands \in SUBSET Accounts /\ f \in [cands -> Proxies]
  BY DEF Assignments, Candidates
<1>4. new.before \in [cands -> AccountState] BY <1>3 DEF IInv, TypeOK
<1>5. current \in [Proxies -> Nat]
  <2>1. ASSUME NEW p \in Proxies PROVE Bound(p) \in Nat
    <3>1. {a \in Accounts : acct[a].proxy = p} \in SUBSET Accounts OBVIOUS
    <3> QED BY <3>1, EgressAssumption, FS_Subset, FS_CardinalityType DEF Bound
  <2> QED BY <2>1
<1>6. PlanOK(new)
  <2>1. \A a \in cands : Candidate(acct[a]) BY DEF Candidates
  <2> QED BY <1>3, <1>4, <2>1 DEF PlanOK
<1> DEFINE PlanSet == [proxyOf : UNION {[S -> Proxies] : S \in SUBSET Accounts},
                       before : UNION {[S -> AccountState] : S \in SUBSET Accounts},
                       current : [Proxies -> Nat]]
<1>7. new \in PlanSet
  <2>1. f \in UNION {[S -> Proxies] : S \in SUBSET Accounts} BY <1>3
  <2>2. new.before \in UNION {[S -> AccountState] : S \in SUBSET Accounts} BY <1>3, <1>4
  <2> QED BY <1>5, <2>1, <2>2
<1> HIDE DEF new, PlanSet
<1>8. plans \in Seq(PlanSet) BY DEF IInv, TypeOK, PlanSet
<1>9. plans' = Append(plans, new) BY <1>1 DEF new
<1>10. /\ plans' \in Seq(PlanSet)
       /\ \A k \in DOMAIN plans : k \in DOMAIN plans' /\ plans'[k] = plans[k]
       /\ \A k \in DOMAIN plans' : k \in DOMAIN plans \/ plans'[k] = new
  BY <1>7, <1>8, <1>9
<1>11. \A k \in DOMAIN plans' : PlanOK(plans'[k])
  BY <1>6, <1>10 DEF IInv, TypeOK
<1>12. TypeOK'
  <2>1. (\A k \in DOMAIN plans : PlanOK(plans[k]))'
    BY <1>11 DEF PlanOK
  <2> QED BY <1>2, <1>10, <2>1 DEF IInv, TypeOK, PlanSet
<1>13. summary.outcome = "binding_applied" =>
         summary.plan \in DOMAIN plans /\ plans'[summary.plan] = plans[summary.plan]
  BY <1>10 DEF IInv, SummaryKept
<1>14. SummaryKept' BY <1>2, <1>10, <1>13 DEF IInv, SummaryKept, Cur
<1>15. OutcomeIsTrue' BY <1>2, <1>13 DEF IInv, OutcomeIsTrue
<1>16. StoppedIsReported' /\ FailedIsRestored'
  BY <1>2 DEF IInv, StoppedIsReported, FailedIsRestored, Cur
<1>17. Walks' /\ Checked' /\ HandOK' /\ RowsOK' BY <1>2, Idle
<1> QED BY <1>12, <1>14, <1>15, <1>16, <1>17 DEF IInv

LEMMA BeginIInv ==
  ASSUME IInv, NEW k \in DOMAIN plans, NEW limit \in 0..1, BeginApply(k, limit)
  PROVE  IInv'
<1>1. /\ UNCHANGED <<acct, plans, rows, summary, faults, touched, raced, killedAt>>
      /\ run = NoRun /\ applies < MaxApplies /\ applies' = applies + 1
  BY DEF BeginApply
<1>2. k \in Nat /\ DOMAIN plans[k].proxyOf \subseteq Accounts
  BY DEF IInv, TypeOK, PlanOK
<1>3. /\ run'.at = "precheck" /\ run'.plan = k /\ run'.todo = DOMAIN plans[k].proxyOf
      /\ run'.done = {} /\ run'.skip = {} /\ Cur' = 0 /\ run'.failed = 0
      /\ Plan' = plans[k]
  BY <1>1 DEF BeginApply, NoRun, Cur, Plan
<1>4. run' \in RunType
  <2>1. DOMAIN plans[k].proxyOf \in SUBSET Accounts BY <1>2
  <2>2. "precheck" \in Places /\ "none" \in Backs BY DEF Places, Backs
  <2> QED BY <1>2, <2>1, <2>2 DEF BeginApply, NoRun, RunType
<1>5. Cur = 0 BY <1>1 DEF NoRun, Cur
<1>6. applies' \in 0..MaxApplies /\ faults' \in 0..MaxFaults
  BY <1>1, EgressAssumption DEF IInv, TypeOK
<1>7. TypeOK' /\ SummaryKept' /\ StoppedIsReported' /\ FailedIsRestored' /\ OutcomeIsTrue'
  <2>1. raced' \subseteq Accounts /\ killedAt' \in SUBSET Accounts BY <1>1 DEF IInv, TypeOK
  <2> QED BY <1>1, <1>3, <1>4, <1>5, <1>6, <2>1, NothingInHand
<1>8. Walks' BY <1>1, <1>3 DEF Walks, InHand
<1>9. Checked' /\ HandOK' /\ RowsOK'
  BY <1>3 DEF Checked, HandOK, RowsOK, Writing, InHand
<1> QED BY <1>7, <1>8, <1>9 DEF IInv

LEMMA PrecheckIInv == ASSUME IInv, Precheck PROVE IInv'
<1> DEFINE a == Smallest(run.todo)
<1>1. /\ Here("precheck") /\ run.todo # {} /\ UNCHANGED <<acct, rows>> /\ Keep
      /\ run.at = "precheck" /\ run.at # "idle" /\ Cur = 0
  BY DEF Precheck, Here, IInv, Walks, InHand
<1>2. /\ run.plan \in DOMAIN plans /\ PlanOK(Plan) /\ DOMAIN Plan.proxyOf \subseteq Accounts
      /\ run.todo \subseteq Accounts /\ run.done \subseteq Accounts
  BY <1>1, PlanOfRun
<1>3. a \in run.todo BY <1>1, <1>2, SmallestIn
<1>4. CASE run' = NoRun BY <1>1, <1>4, RefusedIInv
<1>5. CASE /\ run' = [run EXCEPT !.todo = @ \ {a}, !.done = @ \cup {a}, !.skip = run'.skip]
           /\ run'.skip = run.skip \/ (run'.skip = run.skip \cup {a} /\ AlreadyApplied(a))
           /\ acct[a].sched
  <2>1. run \in RunType BY DEF IInv, TypeOK
  <2>2. run.todo \cup run.done = DOMAIN Plan.proxyOf /\ run.todo \cap run.done = {}
        /\ run.skip \subseteq run.done /\ run.failed = 0
    BY <1>1 DEF IInv, Walks
  <2>3. /\ run'.at = "precheck" /\ run'.plan = run.plan /\ run'.todo = run.todo \ {a}
        /\ run'.done = run.done \cup {a} /\ run'.failed = 0 /\ Cur' = 0
    BY <1>1, <1>5, <2>1, <2>2 DEF RunType, Cur
  <2>4. run'.skip \in SUBSET Accounts /\ run'.skip \subseteq run'.done
        /\ run'.skip \subseteq DOMAIN Plan.proxyOf
    BY <1>2, <1>3, <1>5, <2>2, <2>3
  <2>5. run' \in RunType
    <3>1. run.todo \ {a} \in SUBSET Accounts /\ run.done \cup {a} \in SUBSET Accounts
      BY <1>2, <1>3
    <3> QED BY <1>5, <2>1, <2>4, <3>1 DEF RunType
  <2>6. UNCHANGED <<acct, plans, rows, summary, applies, faults, touched, raced, killedAt>>
        /\ Plan' = Plan
    BY <1>1, <2>3 DEF Keep, Plan
  <2>7. TypeOK' /\ SummaryKept' /\ StoppedIsReported' /\ FailedIsRestored' /\ OutcomeIsTrue'
    <3>1. raced' \subseteq Accounts /\ killedAt' \in SUBSET Accounts
          /\ applies' \in 0..MaxApplies /\ faults' \in 0..MaxFaults
      BY <2>6 DEF IInv, TypeOK
    <3> QED BY <1>1, <2>3, <2>5, <2>6, <3>1, NothingInHand
  <2>8. Walks'
    <3>1. run'.todo \cup run'.done = DOMAIN Plan.proxyOf /\ run'.todo \cap run'.done = {}
      BY <1>3, <2>2, <2>3
    <3> QED BY <1>2, <2>3, <2>4, <2>6, <3>1 DEF Walks, InHand
  <2>9. Checked'
    <3>1. \A b \in run'.done : acct[b].sched \/ b \in touched
      BY <1>1, <1>5, <2>3 DEF IInv, Checked
    <3>2. \A b \in run'.skip \ touched : AlreadyApplied(b)'
      BY <1>1, <1>5, <2>6 DEF IInv, Checked, AlreadyApplied
    <3> QED BY <2>3, <2>6, <3>1, <3>2 DEF Checked, Writing, InHand
  <2>10. HandOK' /\ RowsOK' BY <2>3 DEF HandOK, RowsOK, Writing, InHand
  <2> QED BY <2>7, <2>8, <2>9, <2>10 DEF IInv
<1>6. \/ run' = NoRun
      \/ /\ run' = [run EXCEPT !.todo = @ \ {a}, !.done = @ \cup {a}, !.skip = run'.skip]
         /\ run'.skip = run.skip \/ (run'.skip = run.skip \cup {a} /\ AlreadyApplied(a))
         /\ acct[a].sched
  <2>1. run \in RunType BY DEF IInv, TypeOK
  <2>2. run' = IF MayBind(a) THEN [run EXCEPT !.todo = @ \ {a}, !.done = @ \cup {a}]
               ELSE IF Resumable(a)
               THEN [run EXCEPT !.todo = @ \ {a}, !.done = @ \cup {a}, !.skip = @ \cup {a}]
               ELSE NoRun
    BY DEF Precheck
  <2> HIDE DEF a
  <2>3. CASE MayBind(a)
    <3>1. run' = [run EXCEPT !.todo = @ \ {a}, !.done = @ \cup {a}] BY <2>2, <2>3
    <3>2. acct[a].sched BY <2>3 DEF MayBind, Candidate
    <3> QED BY <2>1, <3>1, <3>2 DEF RunType
  <2>4. CASE ~MayBind(a) /\ Resumable(a)
    <3>1. run' = [run EXCEPT !.todo = @ \ {a}, !.done = @ \cup {a}, !.skip = @ \cup {a}]
      BY <2>2, <2>4
    <3>2. AlreadyApplied(a) /\ acct[a].sched BY <2>4 DEF Resumable, AlreadyApplied
    <3> QED BY <2>1, <3>1, <3>2 DEF RunType
  <2> QED BY <2>2, <2>3, <2>4
<1> QED BY <1>4, <1>5, <1>6

LEMMA BackupIInv == ASSUME IInv, Backup PROVE IInv'
<1>1. /\ Here("precheck") /\ run.todo = {} /\ UNCHANGED <<acct, rows>> /\ Keep
      /\ run.at = "precheck" /\ run.at # "idle" /\ Cur = 0
  BY DEF Backup, Here, IInv, Walks, InHand
<1>2. CASE run' = NoRun BY <1>1, <1>2, RefusedIInv
<1>3. CASE run' = [run EXCEPT !.at = "next", !.todo = run.done, !.done = {}]
  <2>1. run \in RunType BY DEF IInv, TypeOK
  <2>2. run.plan \in DOMAIN plans /\ run.done = DOMAIN Plan.proxyOf
        /\ run.skip \subseteq run.done /\ run.failed = 0
    BY <1>1 DEF IInv, Walks
  <2>3. /\ run'.at = "next" /\ run'.plan = run.plan /\ run'.todo = run.done
        /\ run'.done = {} /\ run'.failed = 0 /\ run'.skip = run.skip /\ Cur' = 0
    BY <1>1, <1>3, <2>1, <2>2 DEF RunType, Cur
  <2>4. run' \in RunType
    <3>1. "next" \in Places BY DEF Places
    <3> QED BY <1>3, <2>1, <3>1 DEF RunType
  <2>5. UNCHANGED <<acct, plans, rows, summary, applies, faults, touched, raced, killedAt>>
        /\ Plan' = Plan
    BY <1>1, <2>3 DEF Keep, Plan
  <2>6. TypeOK' /\ SummaryKept' /\ StoppedIsReported' /\ FailedIsRestored' /\ OutcomeIsTrue'
    <3>1. raced' \subseteq Accounts /\ killedAt' \in SUBSET Accounts
          /\ applies' \in 0..MaxApplies /\ faults' \in 0..MaxFaults
      BY <2>5 DEF IInv, TypeOK
    <3> QED BY <1>1, <2>3, <2>4, <2>5, <3>1, NothingInHand
  <2>7. Walks' BY <2>2, <2>3, <2>5 DEF Walks, InHand
  <2>8. Checked'
    <3>1. \A b \in run.done : acct[b].sched \/ b \in touched
      BY <1>1 DEF IInv, Checked
    <3>2. \A b \in run.skip \ touched : AlreadyApplied(b)'
      BY <1>1, <2>5 DEF IInv, Checked, AlreadyApplied
    <3> QED BY <2>3, <2>5, <3>1, <3>2 DEF Checked
  <2>9. HandOK' /\ RowsOK' BY <2>3 DEF HandOK, RowsOK, InHand
  <2> QED BY <2>6, <2>7, <2>8, <2>9 DEF IInv
<1> QED BY <1>2, <1>3 DEF Backup
LEMMA SkipIInv == ASSUME IInv, Skip PROVE IInv'
<1> DEFINE a == Smallest(run.todo)
<1>1. /\ run.at = "next" /\ run.todo # {} /\ a \in run.skip /\ UNCHANGED acct /\ Keep
      /\ WriteRow(a, "already_applied", "none", "none")
  BY DEF Skip, Here
<1>2. run.at # "idle" /\ run.at \in Writing /\ Cur = 0 BY <1>1 DEF IInv, Walks, Writing, InHand
<1>3. run.todo \in SUBSET Accounts BY DEF IInv, TypeOK, RunType
<1>4. a \in run.todo /\ a \in Accounts BY <1>1, <1>3, SmallestIn
<1> HIDE DEF a
<1>5. a \in touched \/ AlreadyApplied(a) BY <1>1, <1>2 DEF IInv, Checked
<1>6. ~acct[a].sched => a \in touched BY <1>2, <1>4, <1>3, NoZero DEF IInv, Checked
<1>7. acct[a] \in AccountState /\ acct' = [acct EXCEPT ![a] = acct[a]]
  BY <1>1, <1>4 DEF IInv, TypeOK
<1>8. "already_applied" \in Statuses \ {"none"} /\ "none" \in Backs BY DEF Statuses, Backs
<1> QED BY <1>1, <1>2, <1>4, <1>5, <1>6, <1>7, <1>8, RowStep DEF AlreadyApplied

LEMMA TurnIInv == ASSUME IInv, Turn PROVE IInv'
<1> DEFINE a == Smallest(run.todo)
<1>1. /\ run.at = "next" /\ run.todo # {} /\ a \notin run.skip /\ UNCHANGED acct /\ Keep
      /\ \/ MayBind(a) /\ run' = [run EXCEPT !.at = "drain", !.cur = a] /\ UNCHANGED rows
         \/ Resumable(a) /\ WriteRow(a, "already_applied", "none", "none")
         \/ WriteRow(a, "failed", "none", "none")
  BY DEF Turn, Here
<1>2. run.at # "idle" /\ run.at \in Writing /\ Cur = 0 BY <1>1 DEF IInv, Walks, Writing, InHand
<1>3. run \in RunType /\ run.todo \in SUBSET Accounts BY DEF IInv, TypeOK, RunType
<1>4. a \in run.todo /\ a \in Accounts BY <1>1, <1>3, SmallestIn
<1> HIDE DEF a
<1>5. ~acct[a].sched => a \in touched BY <1>2, <1>4, <1>3, NoZero DEF IInv, Checked
<1>6. acct[a] \in AccountState /\ acct' = [acct EXCEPT ![a] = acct[a]]
  BY <1>1, <1>4 DEF IInv, TypeOK
<1>7. "already_applied" \in Statuses \ {"none"} /\ "failed" \in Statuses \ {"none"}
      /\ "none" \in Backs
  BY DEF Statuses, Backs
<1>8. CASE Resumable(a) /\ WriteRow(a, "already_applied", "none", "none")
  BY <1>1, <1>2, <1>4, <1>5, <1>6, <1>7, <1>8, RowStep DEF Resumable, AlreadyApplied
<1>9. CASE WriteRow(a, "failed", "none", "none")
  BY <1>1, <1>2, <1>4, <1>5, <1>6, <1>7, <1>9, RowStep
<1>10. CASE MayBind(a) /\ run' = [run EXCEPT !.at = "drain", !.cur = a] /\ UNCHANGED rows
  <2>1. /\ run.plan \in DOMAIN plans /\ DOMAIN Plan.proxyOf \subseteq Accounts
        /\ \A b \in DOMAIN Plan.proxyOf : Plan.proxyOf[b] \in Proxies
    BY <1>2, PlanOfRun
  <2>2. /\ run.todo \cup run.done = DOMAIN Plan.proxyOf /\ run.todo \cap run.done = {}
        /\ run.skip \subseteq DOMAIN Plan.proxyOf
    BY <1>2 DEF IInv, Walks
  <2>3. /\ run'.at = "drain" /\ Cur' = a /\ run'.plan = run.plan /\ run'.todo = run.todo
        /\ run'.done = run.done /\ run'.skip = run.skip /\ run'.failed = run.failed
    BY <1>3, <1>10 DEF RunType, Cur
  <2>4. run' \in RunType
    <3>1. "drain" \in Places BY DEF Places
    <3> QED BY <1>3, <1>4, <1>10, <3>1 DEF RunType
  <2>5. UNCHANGED <<acct, plans, rows, summary, applies, faults, touched, raced, killedAt>>
        /\ Plan' = Plan
    BY <1>1, <1>10, <2>3 DEF Keep, Plan
  <2>6. acct[a].proxy = 0 BY <1>10 DEF MayBind, Candidate
  <2>7. TypeOK' BY <2>4, <2>5 DEF IInv, TypeOK, PlanOK
  <2>8. Walks'
    BY <1>1, <1>4, <2>1, <2>2, <2>3, <2>5 DEF Walks, InHand
  <2>9. Checked'
    <3>1. \A b \in run.todo : acct[b].sched \/ b \in touched
      BY <1>2, <1>3, NoZero DEF IInv, Checked
    <3>2. \A b \in run.skip \ touched : AlreadyApplied(b)'
      BY <1>2, <2>5 DEF IInv, Checked, AlreadyApplied
    <3> QED BY <2>3, <2>5, <3>1, <3>2 DEF Checked
  <2>10. HandOK' BY <2>3, <2>5, <2>6 DEF HandOK
  <2>11. RowsOK' BY <1>2, <2>3, <2>5 DEF IInv, RowsOK, AlreadyApplied
  <2>12. SummaryKept'
    <3> SUFFICES ASSUME summary.outcome = "binding_applied"
                 PROVE  /\ summary.plan \in DOMAIN plans
                        /\ a \notin DOMAIN plans[summary.plan].proxyOf \ touched
      BY <2>3, <2>5 DEF SummaryKept
    <3>1. summary.plan \in DOMAIN plans /\ PlanOK(plans[summary.plan])
      BY DEF IInv, SummaryKept, TypeOK
    <3>2. a \in DOMAIN plans[summary.plan].proxyOf /\ a \notin touched =>
             acct[a].proxy \in Proxies
      BY <3>1 DEF IInv, OutcomeIsTrue, PlanOK
    <3> QED BY <2>6, <3>1, <3>2, NoZero
  <2>13. StoppedIsReported' /\ FailedIsRestored' /\ OutcomeIsTrue'
    BY <1>2, <2>3, <2>5, NoZero DEF IInv, StoppedIsReported, FailedIsRestored, OutcomeIsTrue
  <2> QED BY <2>7, <2>8, <2>9, <2>10, <2>11, <2>12, <2>13 DEF IInv
<1> QED BY <1>1, <1>8, <1>9, <1>10

\* The account in hand as one write leaves it, or as it was.
LEMMA WrittenIInv ==
  ASSUME IInv, run.at \in InHand,
         NEW state \in AccountState,
         NEW okAt \in InHand, NEW okBack \in Backs,
         NEW raisedAt \in InHand, NEW raisedBack \in Backs,
         Write(state, [run EXCEPT !.at = okAt, !.proxyBack = okBack],
               [run EXCEPT !.at = raisedAt, !.proxyBack = raisedBack]),
         Cur \notin raced => state.proxy \in {0, Plan.proxyOf[Cur]},
         okAt = "undo-sched" /\ okBack = "restored" => Cur \in touched \/ state.proxy = 0,
         ~(raisedAt = "undo-sched" /\ raisedBack = "restored")
  PROVE  IInv'
<1> DEFINE ok == [run EXCEPT !.at = okAt, !.proxyBack = okBack]
           raised == [run EXCEPT !.at = raisedAt, !.proxyBack = raisedBack]
<1>1. Cur \in Accounts /\ acct[Cur] \in AccountState BY CurIsAccount
<1>2. Cur \notin raced => acct[Cur].proxy \in {0, Plan.proxyOf[Cur]} BY DEF IInv, HandOK
<1>3. UNCHANGED rows /\ Keep BY DEF Write
<1>4. CASE acct' = [acct EXCEPT ![Cur] = state] /\ run' = ok
  BY <1>1, <1>3, <1>4, HandStep
<1>5. CASE acct' = [acct EXCEPT ![Cur] = state] /\ run' = raised
  BY <1>1, <1>3, <1>5, HandStep
<1>6. CASE UNCHANGED acct /\ run' = raised
  <2>1. acct' = [acct EXCEPT ![Cur] = acct[Cur]] BY <1>1, <1>6 DEF IInv, TypeOK
  <2> QED BY <1>1, <1>2, <1>3, <1>6, <2>1, HandStep
<1> QED BY <1>4, <1>5, <1>6 DEF Write

\* The way an apply's record changes at each write.
LEMMA RunSteps ==
  ASSUME IInv
  PROVE  /\ Undo = [run EXCEPT !.at = "undo-proxy", !.proxyBack = run.proxyBack]
         /\ \A at \in InHand :
               [run EXCEPT !.at = at] = [run EXCEPT !.at = at, !.proxyBack = run.proxyBack]
         /\ run.proxyBack \in Backs
<1>1. run \in RunType BY DEF IInv, TypeOK
<1> QED BY <1>1 DEF RunType, Undo

LEMMA DrainIInv == ASSUME IInv, Drain PROVE IInv'
<1> DEFINE state == [acct[Cur] EXCEPT !.sched = FALSE]
<1>1. run.at \in InHand BY DEF Drain, Here, InHand
<1>2. Cur \in Accounts /\ acct[Cur] \in AccountState BY <1>1, CurIsAccount
<1>3. state \in AccountState /\ state.proxy = acct[Cur].proxy BY <1>2 DEF AccountState
<1>4. PICK back \in Backs : back = run.proxyBack BY RunSteps
<1>5. "bind" \in InHand /\ "undo-proxy" \in InHand BY DEF InHand
<1>6. Write(state, [run EXCEPT !.at = "bind", !.proxyBack = back],
            [run EXCEPT !.at = "undo-proxy", !.proxyBack = back])
  BY <1>4, <1>5, RunSteps DEF Drain
<1>7. Cur \notin raced => acct[Cur].proxy \in {0, Plan.proxyOf[Cur]} BY <1>1 DEF IInv, HandOK
<1> HIDE DEF state
<1>8. "bind" # "undo-sched" /\ "undo-proxy" # "undo-sched" OBVIOUS
<1> QED BY <1>1, <1>3, <1>5, <1>6, <1>7, <1>8, WrittenIInv, Zenon

LEMMA BindIInv == ASSUME IInv, Bind PROVE IInv'
<1> DEFINE state == [acct[Cur] EXCEPT !.proxy = Plan.proxyOf[Cur]]
<1>1. run.at \in InHand BY DEF Bind, Here, InHand
<1>2. Cur \in Accounts /\ acct[Cur] \in AccountState /\ Plan.proxyOf[Cur] \in Proxies
  BY <1>1, CurIsAccount, PlanOfRun
<1>3. state \in AccountState /\ state.proxy = Plan.proxyOf[Cur] BY <1>2 DEF AccountState
<1>4. PICK back \in Backs : back = run.proxyBack BY RunSteps
<1>5. "resume" \in InHand /\ "undo-proxy" \in InHand BY DEF InHand
<1>6. Write(state, [run EXCEPT !.at = "resume", !.proxyBack = back],
            [run EXCEPT !.at = "undo-proxy", !.proxyBack = back])
  BY <1>4, <1>5, RunSteps DEF Bind
<1> HIDE DEF state
<1>7. "resume" # "undo-sched" /\ "undo-proxy" # "undo-sched" OBVIOUS
<1> QED BY <1>1, <1>3, <1>5, <1>6, <1>7, WrittenIInv, Zenon

LEMMA ResumeIInv == ASSUME IInv, Resume PROVE IInv'
<1> DEFINE state == [acct[Cur] EXCEPT !.sched = TRUE]
<1>1. run.at \in InHand BY DEF Resume, Here, InHand
<1>2. Cur \in Accounts /\ acct[Cur] \in AccountState BY <1>1, CurIsAccount
<1>3. state \in AccountState /\ state.proxy = acct[Cur].proxy BY <1>2 DEF AccountState
<1>4. PICK back \in Backs : back = run.proxyBack BY RunSteps
<1>5. "verify" \in InHand /\ "undo-proxy" \in InHand BY DEF InHand
<1>6. Write(state, [run EXCEPT !.at = "verify", !.proxyBack = back],
            [run EXCEPT !.at = "undo-proxy", !.proxyBack = back])
  BY <1>4, <1>5, RunSteps DEF Resume
<1>7. Cur \notin raced => acct[Cur].proxy \in {0, Plan.proxyOf[Cur]} BY <1>1 DEF IInv, HandOK
<1> HIDE DEF state
<1>8. "verify" # "undo-sched" /\ "undo-proxy" # "undo-sched" OBVIOUS
<1> QED BY <1>1, <1>3, <1>5, <1>6, <1>7, <1>8, WrittenIInv, Zenon

LEMMA UndoProxyIInv == ASSUME IInv, UndoProxy PROVE IInv'
<1> DEFINE state == [acct[Cur] EXCEPT !.proxy = 0]
<1>1. run.at \in InHand BY DEF UndoProxy, Here, InHand
<1>2. Cur \in Accounts /\ acct[Cur] \in AccountState BY <1>1, CurIsAccount
<1>3. state \in AccountState /\ state.proxy = 0 BY <1>2 DEF AccountState
<1>4. "undo-sched" \in InHand /\ "restored" \in Backs /\ "failed" \in Backs
  BY DEF InHand, Backs
<1>5. Write(state, [run EXCEPT !.at = "undo-sched", !.proxyBack = "restored"],
            [run EXCEPT !.at = "undo-sched", !.proxyBack = "failed"])
  BY DEF UndoProxy
<1> HIDE DEF state
<1> QED BY <1>1, <1>3, <1>4, <1>5, WrittenIInv

LEMMA VerifyIInv == ASSUME IInv, Verify PROVE IInv'
<1>1. run.at \in InHand /\ run.at \in Writing BY DEF Verify, Here, InHand, Writing
<1>2. Cur \in Accounts /\ acct[Cur] \in AccountState /\ Cur \in run.todo
  BY <1>1, CurIsAccount
<1>3. UNCHANGED acct /\ Keep BY DEF Verify
<1>4. acct' = [acct EXCEPT ![Cur] = acct[Cur]] BY <1>2, <1>3 DEF IInv, TypeOK
<1>5. CASE /\ acct[Cur] = [Plan.before[Cur] EXCEPT !.proxy = Plan.proxyOf[Cur]]
           /\ WriteRow(Cur, "applied", "none", "none")
  <2>1. Plan.before[Cur] \in AccountState /\ Candidate(Plan.before[Cur])
    BY <1>1, CurIsAccount, PlanOfRun
  <2>2. acct[Cur].sched /\ acct[Cur].proxy = Plan.proxyOf[Cur]
    BY <1>5, <2>1 DEF AccountState, Candidate
  <2>3. "applied" \in Statuses \ {"none"} /\ "none" \in Backs BY DEF Statuses, Backs
  <2>4. "applied" # "failed" /\ Cur \in {0, Cur} OBVIOUS
  <2> QED BY <1>1, <1>2, <1>3, <1>4, <1>5, <2>2, <2>3, <2>4, RowStep, Zenon
<1>6. CASE run' = Undo /\ UNCHANGED rows
  <2>1. "undo-proxy" \in InHand BY DEF InHand
  <2>2. Cur \notin raced => acct[Cur].proxy \in {0, Plan.proxyOf[Cur]}
    BY <1>1 DEF IInv, HandOK
  <2>3. PICK back \in Backs : back = run.proxyBack BY RunSteps
  <2>4. run' = [run EXCEPT !.at = "undo-proxy", !.proxyBack = back] BY <1>6, <2>3, RunSteps
  <2>5. "undo-proxy" # "undo-sched" OBVIOUS
  <2> QED BY <1>1, <1>2, <1>3, <1>4, <1>6, <2>1, <2>2, <2>4, <2>5, HandStep, Zenon
<1> QED BY <1>5, <1>6 DEF Verify

LEMMA UndoSchedIInv == ASSUME IInv, UndoSched PROVE IInv'
<1>1. run.at \in InHand /\ run.at \in Writing /\ run.at = "undo-sched"
  BY DEF UndoSched, Here, InHand, Writing
<1>2. Cur \in Accounts /\ acct[Cur] \in AccountState /\ Cur \in run.todo
  BY <1>1, CurIsAccount
<1>3. Keep BY DEF UndoSched
<1>4. PICK pb \in Backs : pb = run.proxyBack BY RunSteps
<1>5. "failed" \in Statuses \ {"none"} /\ "failed" \in Backs BY DEF Statuses, Backs
<1>6. pb = "restored" => Cur \in touched \/ acct[Cur].proxy = 0
  BY <1>1, <1>4 DEF IInv, HandOK
<1>7. ASSUME acct' = [acct EXCEPT ![Cur].sched = TRUE],
             NEW back \in Backs, WriteRow(Cur, "failed", pb, back)
      PROVE  IInv'
  <2> DEFINE state == [acct[Cur] EXCEPT !.sched = TRUE]
  <2>1. state \in AccountState /\ state.proxy = acct[Cur].proxy /\ state.sched
    BY <1>2 DEF AccountState
  <2>2. acct' = [acct EXCEPT ![Cur] = state] BY <1>7
  <2>3. Cur # 0 BY <1>2, NoZero
  <2> HIDE DEF state
  <2>4. pb = "restored" /\ Cur \notin touched => state.proxy = 0 BY <1>6, <2>1
  <2> QED BY <1>1, <1>2, <1>3, <1>5, <1>7, <2>1, <2>2, <2>3, <2>4, RowStep
<1>8. CASE UNCHANGED acct /\ WriteRow(Cur, "failed", pb, "failed")
  <2>1. acct' = [acct EXCEPT ![Cur] = acct[Cur]] BY <1>2, <1>8 DEF IInv, TypeOK
  <2> QED BY <1>1, <1>2, <1>3, <1>5, <1>8, <2>1, RowStep
<1>9. CASE /\ acct' = [acct EXCEPT ![Cur].sched = TRUE]
           /\ \E back \in {"restored", "failed"} : WriteRow(Cur, "failed", pb, back)
  <2>1. \A back \in {"restored", "failed"} : back \in Backs BY DEF Backs
  <2> QED BY <1>7, <1>9, <2>1
<1> QED BY <1>4, <1>8, <1>9 DEF UndoSched

LEMMA SummaryIInv == ASSUME IInv, Summary PROVE IInv'
<1> DEFINE status == [a \in run.done |-> rows[a].status]
<1>1. /\ run.at = "next" /\ run.at # "idle" /\ run.at \in Writing /\ Cur = 0
      /\ Stops \/ run.todo = {}
      /\ summary' = [outcome |-> Outcome(status), plan |-> run.plan]
      /\ run' = NoRun
      /\ UNCHANGED <<acct, plans, rows, applies, faults, touched, raced, killedAt>>
  BY DEF Summary, Here, IInv, Walks, InHand, Writing
<1>2. /\ run.plan \in DOMAIN plans /\ run.todo \cup run.done = DOMAIN Plan.proxyOf
      /\ DOMAIN Plan.proxyOf \subseteq Accounts
  BY <1>1, PlanOfRun DEF IInv, Walks
<1>3. run' \in RunType /\ Cur' = 0 /\ Walks' /\ Checked' /\ HandOK' /\ RowsOK'
  BY <1>1, Idle
<1>4. TypeOK' BY <1>1, <1>3 DEF IInv, TypeOK, PlanOK
<1>5. StoppedIsReported' /\ FailedIsRestored'
  BY <1>1, <1>3 DEF IInv, StoppedIsReported, FailedIsRestored
<1>6. SummaryKept' BY <1>1, <1>2, <1>3, NoZero DEF SummaryKept, Plan
<1>7. OutcomeIsTrue'
  <2> SUFFICES ASSUME Outcome(status) = "binding_applied",
                      NEW a \in DOMAIN Plan.proxyOf, a \notin touched
               PROVE  acct[a].proxy = Plan.proxyOf[a] /\ acct[a].sched
    BY <1>1 DEF OutcomeIsTrue, Plan
  <2>1. \A b \in run.done : rows[b].status # "failed"
    <3>1. "failed" \notin {status[b] : b \in DOMAIN status} BY DEF Outcome
    <3> QED BY <3>1
  <2>2. run.todo = {}
    <3>1. run.failed \in Nat /\ run.limit \in 0..1 BY DEF IInv, TypeOK, RunType
    <3>2. ~(run.failed > 0) BY <1>1, <2>1 DEF IInv, RowsOK
    <3>3. ~Stops BY <3>1, <3>2 DEF Stops
    <3> QED BY <1>1, <3>3
  <2>3. a \in run.done BY <1>2, <2>2
  <2> QED BY <1>1, <2>1, <2>3 DEF IInv, RowsOK, AlreadyApplied
<1> QED BY <1>3, <1>4, <1>5, <1>6, <1>7 DEF IInv
LEMMA ChangeIInv ==
  ASSUME IInv, NEW a \in Accounts, NEW state \in AccountState, Change(a, state)
  PROVE  IInv'
<1>1. /\ acct' = [acct EXCEPT ![a] = state] /\ touched' = touched \cup {a}
      /\ raced' = (IF a = Cur THEN raced \cup {a} ELSE raced)
      /\ UNCHANGED <<plans, rows, summary, run, applies, killedAt>>
      /\ Plan' = Plan /\ Cur' = Cur /\ Fault
  BY DEF Change, Plan, Cur
<1>2. /\ acct' \in [Accounts -> AccountState]
      /\ \A b \in Accounts \ {a} : acct'[b] = acct[b]
  BY <1>1 DEF IInv, TypeOK
<1>3. faults' \in 0..MaxFaults BY <1>1, EgressAssumption DEF IInv, TypeOK, Fault
<1>4. raced' \subseteq Accounts /\ (Cur \notin raced' => Cur \notin raced /\ Cur # a)
  BY <1>1 DEF IInv, TypeOK
<1>5. TypeOK' BY <1>1, <1>2, <1>3, <1>4 DEF IInv, TypeOK, PlanOK
<1>6. Walks' BY <1>1 DEF IInv, Walks
<1>7. \A b \in Accounts : b \notin touched' => b \notin touched /\ acct'[b] = acct[b]
  BY <1>1, <1>2
<1>8. run.todo \subseteq Accounts /\ run.done \subseteq Accounts /\ run.skip \subseteq Accounts
  BY DEF IInv, TypeOK, RunType
<1>9. Checked' BY <1>1, <1>7, <1>8 DEF IInv, Checked, AlreadyApplied
<1>10. HandOK'
  <2> SUFFICES ASSUME run.at \in InHand PROVE HandOK' BY <1>1 DEF HandOK
  <2>1. Cur \in Accounts BY CurIsAccount
  <2> QED BY <1>1, <1>2, <1>4, <1>7, <2>1 DEF IInv, HandOK
<1>11. RowsOK' BY <1>1, <1>7, <1>8 DEF IInv, RowsOK, AlreadyApplied
<1>12. SummaryKept' BY <1>1 DEF IInv, SummaryKept
<1>13. StoppedIsReported' BY <1>1, <1>7 DEF IInv, StoppedIsReported
<1>14. FailedIsRestored' BY <1>1, <1>7 DEF IInv, FailedIsRestored
<1>15. OutcomeIsTrue'
  <2> SUFFICES ASSUME summary.outcome = "binding_applied",
                      NEW b \in DOMAIN plans[summary.plan].proxyOf, b \notin touched'
               PROVE  b \notin touched /\ acct'[b] = acct[b]
    BY <1>1 DEF IInv, OutcomeIsTrue
  <2>1. summary.plan \in DOMAIN plans BY DEF IInv, SummaryKept
  <2>2. b \in Accounts BY <2>1 DEF IInv, TypeOK, PlanOK
  <2> QED BY <1>7, <2>2
<1> QED BY <1>5, <1>6, <1>9, <1>10, <1>11, <1>12, <1>13, <1>14, <1>15 DEF IInv

\* What others do to an account is one such change.
LEMMA OthersIInv ==
  ASSUME IInv, NEW a \in Accounts, Others(a)
  PROVE  IInv'
<1>1. acct[a] \in AccountState BY DEF IInv, TypeOK
<1>2. ASSUME NEW l \in Limits, Change(a, [acct[a] EXCEPT !.limit = l]) PROVE IInv'
  <2>1. [acct[a] EXCEPT !.limit = l] \in AccountState BY <1>1 DEF AccountState
  <2> QED BY <1>2, <2>1, ChangeIInv
<1>3. CASE Change(a, [acct[a] EXCEPT !.sched = ~@])
  <2>1. [acct[a] EXCEPT !.sched = ~@] \in AccountState BY <1>1 DEF AccountState
  <2> QED BY <1>3, <2>1, ChangeIInv
<1>4. ASSUME NEW p \in Proxies \cup {0}, Change(a, [acct[a] EXCEPT !.proxy = p]) PROVE IInv'
  <2>1. [acct[a] EXCEPT !.proxy = p] \in AccountState BY <1>1 DEF AccountState
  <2> QED BY <1>4, <2>1, ChangeIInv
<1> QED BY <1>2, <1>3, <1>4 DEF Others

LEMMA StutterIInv == ASSUME IInv, UNCHANGED vars PROVE IInv'
BY DEF vars, IInv, TypeOK, PlanOK, Walks, Checked, HandOK, RowsOK, SummaryKept,
       StoppedIsReported, FailedIsRestored, OutcomeIsTrue, AlreadyApplied, Cur, Plan

\* Whatever step is taken.
LEMMA NextIInv == IInv /\ [Next]_vars => IInv'
<1> SUFFICES ASSUME IInv, [Next]_vars PROVE IInv' OBVIOUS
<1>1. CASE UNCHANGED vars BY <1>1, StutterIInv
<1>2. CASE MakePlan BY <1>2, MakePlanIInv
<1>3. CASE ApplyNext
  <2>1. ASSUME NEW k \in DOMAIN plans, NEW limit \in 0..1, BeginApply(k, limit) PROVE IInv'
    BY <2>1, BeginIInv
  <2>2. CASE Precheck BY <2>2, PrecheckIInv
  <2>3. CASE PrecheckRaises BY <2>3, RefusedIInv DEF PrecheckRaises
  <2>4. CASE Backup BY <2>4, BackupIInv
  <2>5. CASE Skip BY <2>5, SkipIInv
  <2>6. CASE Turn BY <2>6, TurnIInv
  <2>7. CASE Drain BY <2>7, DrainIInv
  <2>8. CASE Bind BY <2>8, BindIInv
  <2>9. CASE Resume BY <2>9, ResumeIInv
  <2>10. CASE Verify BY <2>10, VerifyIInv
  <2>11. CASE UndoProxy BY <2>11, UndoProxyIInv
  <2>12. CASE UndoSched BY <2>12, UndoSchedIInv
  <2>13. CASE Summary BY <2>13, SummaryIInv
  <2> QED BY <1>3, <2>1, <2>2, <2>3, <2>4, <2>5, <2>6, <2>7, <2>8, <2>9, <2>10, <2>11,
             <2>12, <2>13 DEF ApplyNext
<1>4. CASE Kill BY <1>4, KillIInv
<1>5. ASSUME NEW a \in Accounts, Others(a) PROVE IInv' BY <1>5, OthersIInv
<1> QED BY <1>1, <1>2, <1>3, <1>4, <1>5 DEF Next

\* A step that changes the proxy of an account takes a binding of its own away,
\* or is a change by others.
LEMMA StepKeepsBindings ==
  ASSUME IInv, [Next]_vars, NEW a \in Accounts \ raced,
         acct[a].proxy # 0, acct'[a].proxy # acct[a].proxy, faults' = faults
  PROVE  acct'[a].proxy = 0 /\ a = Cur /\ acct[a].proxy = Plan.proxyOf[a]
<1>1. /\ acct \in [Accounts -> AccountState] /\ faults \in Nat /\ acct[a] \in AccountState
      /\ acct' # acct
  BY EgressAssumption DEF IInv, TypeOK
<1>2. ~Fault BY <1>1 DEF Fault
<1>3. ASSUME Cur \in Accounts, NEW state, state.proxy = acct[Cur].proxy,
             acct' = [acct EXCEPT ![Cur] = state]
      PROVE  FALSE
  <2>1. CASE a = Cur BY <1>1, <1>3, <2>1
  <2>2. CASE a # Cur BY <1>1, <1>3, <2>2
  <2> QED BY <2>1, <2>2
<1>4. CASE Drain
  <2>1. Cur \in Accounts /\ acct[Cur] \in AccountState
    BY <1>4, CurIsAccount DEF Drain, Here, InHand
  <2>2. [acct[Cur] EXCEPT !.sched = FALSE].proxy = acct[Cur].proxy BY <2>1 DEF AccountState
  <2>3. acct' = [acct EXCEPT ![Cur] = [acct[Cur] EXCEPT !.sched = FALSE]]
    BY <1>1, <1>4 DEF Drain, Write
  <2> QED BY <1>3, <2>1, <2>2, <2>3
<1>5. CASE Resume
  <2>1. Cur \in Accounts /\ acct[Cur] \in AccountState
    BY <1>5, CurIsAccount DEF Resume, Here, InHand
  <2>2. [acct[Cur] EXCEPT !.sched = TRUE].proxy = acct[Cur].proxy BY <2>1 DEF AccountState
  <2>3. acct' = [acct EXCEPT ![Cur] = [acct[Cur] EXCEPT !.sched = TRUE]]
    BY <1>1, <1>5 DEF Resume, Write
  <2> QED BY <1>3, <2>1, <2>2, <2>3
<1>6. CASE UndoSched
  <2>1. Cur \in Accounts /\ acct[Cur] \in AccountState
    BY <1>6, CurIsAccount DEF UndoSched, Here, InHand
  <2>2. [acct[Cur] EXCEPT !.sched = TRUE].proxy = acct[Cur].proxy BY <2>1 DEF AccountState
  <2>3. acct' = [acct EXCEPT ![Cur] = [acct[Cur] EXCEPT !.sched = TRUE]]
    BY <1>1, <1>6 DEF UndoSched
  <2> QED BY <1>3, <2>1, <2>2, <2>3
<1>7. CASE Bind
  <2>1. run.at \in InHand BY <1>7 DEF Bind, Here, InHand
  <2>2. Cur \in Accounts /\ acct[Cur] \in AccountState /\ Plan.proxyOf[Cur] \in Proxies
    BY <2>1, CurIsAccount, PlanOfRun
  <2>3. acct' = [acct EXCEPT ![Cur] = [acct[Cur] EXCEPT !.proxy = Plan.proxyOf[Cur]]]
    BY <1>1, <1>7 DEF Bind, Write
  <2>4. a = Cur BY <1>1, <2>2, <2>3
  <2>5. acct[Cur].proxy = Plan.proxyOf[Cur] BY <2>1, <2>4 DEF IInv, HandOK
  <2>6. [acct[Cur] EXCEPT !.proxy = Plan.proxyOf[Cur]].proxy = acct[Cur].proxy
    BY <2>2, <2>5 DEF AccountState
  <2> QED BY <1>3, <2>2, <2>3, <2>6
<1>8. CASE UndoProxy
  <2>1. run.at \in InHand BY <1>8 DEF UndoProxy, Here, InHand
  <2>2. Cur \in Accounts /\ acct[Cur] \in AccountState
    BY <2>1, CurIsAccount
  <2>3. acct' = [acct EXCEPT ![Cur] = [acct[Cur] EXCEPT !.proxy = 0]]
    BY <1>1, <1>8 DEF UndoProxy, Write
  <2>4. a = Cur BY <1>1, <2>2, <2>3
  <2>5. acct'[a].proxy = 0
    <3>1. acct'[Cur] = [acct[Cur] EXCEPT !.proxy = 0] BY <1>1, <2>2, <2>3
    <3> QED BY <2>2, <2>4, <3>1 DEF AccountState
  <2>6. acct[Cur].proxy = Plan.proxyOf[Cur] BY <2>1, <2>4 DEF IInv, HandOK
  <2> QED BY <2>4, <2>5, <2>6
<1>9. CASE \/ \E k \in DOMAIN plans, limit \in 0..1 : BeginApply(k, limit)
           \/ Precheck \/ PrecheckRaises \/ Backup \/ Skip \/ Turn \/ Verify \/ Summary
           \/ MakePlan \/ UNCHANGED vars
  BY <1>1, <1>9 DEF BeginApply, Precheck, PrecheckRaises, Backup, Skip, Turn, Verify, Summary,
                    MakePlan, vars
<1>10. CASE Kill \/ \E b \in Accounts : Others(b)
  BY <1>2, <1>10 DEF Kill, Others, Change
<1> QED BY <1>4, <1>5, <1>6, <1>7, <1>8, <1>9, <1>10 DEF Next, ApplyNext

-----------------------------------------------------------------------------
(* The balance of the plans.                                               *)

\* A plan that is made has the totals of the loop, and the plans before it stay.
LEMMA MakePlanBalances ==
  ASSUME IInv, PlanBalanced, MakePlan
  PROVE  PlanBalanced'
<1> DEFINE cands == Candidates
           current == [p \in Proxies |-> Bound(p)]
           totals == Totals(current, Cardinality(cands))
<1>1. PICK f \in Assignments(cands, current, totals) :
         plans' = Append(plans, [proxyOf |-> f, before |-> [a \in cands |-> acct[a]],
                                 current |-> current])
  BY DEF MakePlan
<1>2. /\ cands \in SUBSET Accounts /\ f \in [cands -> Proxies]
      /\ \A p \in Proxies : Cardinality({a \in cands : f[a] = p}) = totals[p] - current[p]
  BY <1>1 DEF Assignments, Candidates
<1>3. current \in [Proxies -> Nat]
  <2>1. ASSUME NEW p \in Proxies PROVE Bound(p) \in Nat
    <3>1. {a \in Accounts : acct[a].proxy = p} \in SUBSET Accounts OBVIOUS
    <3> QED BY <3>1, EgressAssumption, FS_Subset, FS_CardinalityType DEF Bound
  <2> QED BY <2>1
<1>4. IsFiniteSet(cands) /\ Cardinality(cands) \in Nat
  BY <1>2, EgressAssumption, FS_Subset, FS_CardinalityType
<1> HIDE DEF current
<1>5. /\ totals \in [Proxies -> Nat]
      /\ \A p \in Proxies : current[p] <= totals[p]
      /\ \A p, q \in Proxies : current[p] < totals[p] => totals[p] <= totals[q] + 1
  BY <1>3, <1>4, TotalsBalance
<1> HIDE DEF totals, cands
<1> DEFINE Final(x) == [p \in Proxies |-> x.current[p]
                                  + Cardinality({a \in DOMAIN x.proxyOf : x.proxyOf[a] = p})]
           Fair(x) == \A p, q \in Proxies :
                         (\E a \in DOMAIN x.proxyOf : x.proxyOf[a] = p) =>
                             Final(x)[p] <= Final(x)[q] + 1
           new == [proxyOf |-> f, before |-> [a \in cands |-> acct[a]], current |-> current]
<1>6. \A p \in Proxies : Final(new)[p] = totals[p]
  <2>1. ASSUME NEW p \in Proxies
        PROVE  current[p] + Cardinality({a \in cands : f[a] = p}) = totals[p]
    <3>1. current[p] \in Nat /\ totals[p] \in Nat BY <1>3, <1>5
    <3> QED BY <1>2, <3>1
  <2> QED BY <1>2, <2>1
<1>7. Fair(new)
  <2>1. ASSUME NEW p \in Proxies, NEW q \in Proxies, NEW a \in cands, f[a] = p
        PROVE  totals[p] <= totals[q] + 1
    <3> DEFINE G == {b \in cands : f[b] = p}
    <3>1. G # {} /\ IsFiniteSet(G) /\ Cardinality(G) = totals[p] - current[p]
      <4>1. G \subseteq cands OBVIOUS
      <4> QED BY <1>2, <1>4, <2>1, <4>1, FS_Subset
    <3> HIDE DEF G
    <3>2. Cardinality(G) \in Nat /\ Cardinality(G) # 0
      BY <3>1, FS_EmptySet, FS_CardinalityType
    <3>3. current[p] \in Nat /\ totals[p] \in Nat BY <1>3, <1>5
    <3>4. current[p] < totals[p] BY <3>1, <3>2, <3>3
    <3> QED BY <1>5, <3>4
  <2>2. DOMAIN new.proxyOf = cands /\ new.proxyOf = f BY <1>2
  <2> HIDE DEF new, Final
  <2> QED BY <1>6, <2>1, <2>2
<1> HIDE DEF new, Fair
<1>8. plans' = Append(plans, new) BY <1>1 DEF new
<1>9. \A k \in DOMAIN plans' : (k \in DOMAIN plans /\ plans'[k] = plans[k]) \/ plans'[k] = new
  <2> DEFINE PlanSet == [proxyOf : UNION {[S -> Proxies] : S \in SUBSET Accounts},
                         before : UNION {[S -> AccountState] : S \in SUBSET Accounts},
                         current : [Proxies -> Nat]]
  <2>1. plans \in Seq(PlanSet) BY DEF IInv, TypeOK
  <2> HIDE DEF PlanSet
  <2>2. plans \in Seq(PlanSet \cup {new}) BY <2>1
  <2> QED BY <1>8, <2>2
<1>10. \A k \in DOMAIN plans : Fair(plans[k]) BY DEF PlanBalanced, Fair
<1>11. \A k \in DOMAIN plans' : Fair(plans'[k]) BY <1>7, <1>9, <1>10
<1> QED BY <1>11 DEF PlanBalanced, Fair

-----------------------------------------------------------------------------
(* The theorems.                                                           *)

\* The inductive invariant holds in every reachable state (the whole tool:
\* plan, apply, kills, and what Sub2API and the operators do meanwhile).
THEOREM EgressInvariance == Spec => []IInv
BY InitIInv, NextIInv, PTL DEF Spec

\* No account is left unschedulable in silence: an apply has it in hand, was
\* killed while it had, or wrote in its row that it could not bring it back.
THEOREM NoneStoppedInSilence == Spec => []StoppedIsReported
<1>1. IInv => StoppedIsReported BY DEF IInv
<1> QED BY <1>1, EgressInvariance, PTL

\* A failed row that says "restored" twice is true, whatever answers were lost.
THEOREM RestoredIsTrue == Spec => []FailedIsRestored
<1>1. IInv => FailedIsRestored BY DEF IInv
<1> QED BY <1>1, EgressInvariance, PTL

\* An apply that reports "binding_applied" has bound every account of its plan.
THEOREM SummaryIsTrue == Spec => []OutcomeIsTrue
<1>1. IInv => OutcomeIsTrue BY DEF IInv
<1> QED BY <1>1, EgressInvariance, PTL

\* An apply takes away no binding but the one it has made.
THEOREM NoBindingTaken == Spec => BindingsKept
<1> DEFINE Kept ==
             \A a \in Accounts \ raced :
                acct[a].proxy # 0 /\ acct'[a].proxy # acct[a].proxy /\ faults' = faults =>
                    acct'[a].proxy = 0 /\ a = Cur /\ acct[a].proxy = Plan.proxyOf[a]
<1>1. IInv /\ [Next]_vars => [Kept]_vars BY StepKeepsBindings
<1> QED BY <1>1, EgressInvariance, PTL DEF Spec, BindingsKept

\* Every plan balances the pool as well as adding bindings can
\* (compute_balanced_quotas, for any counts, proxies and candidates).
THEOREM PlansBalance == Spec => []PlanBalanced
<1>1. Init => PlanBalanced BY DEF Init, PlanBalanced
<1>2. ASSUME IInv, PlanBalanced, [Next]_vars PROVE PlanBalanced'
  <2>1. CASE MakePlan BY <1>2, <2>1, MakePlanBalances
  <2>2. CASE UNCHANGED plans BY <1>2, <2>2 DEF PlanBalanced
  <2>3. CASE ApplyNext
    <3>1. UNCHANGED plans
      BY <2>3 DEF ApplyNext, BeginApply, Precheck, PrecheckRaises, Backup, Skip, Turn, Drain,
           Bind, Resume, Verify, UndoProxy, UndoSched, Summary, Write, Keep
    <3> QED BY <2>2, <3>1
  <2>4. CASE Kill \/ \E a \in Accounts : Others(a)
    <3>1. UNCHANGED plans BY <2>4 DEF Kill, Others, Change
    <3> QED BY <2>2, <3>1
  <2>5. CASE UNCHANGED vars BY <2>2, <2>5 DEF vars
  <2> QED BY <1>2, <2>1, <2>3, <2>4, <2>5 DEF Next
<1> QED BY <1>1, <1>2, EgressInvariance, PTL DEF Spec
=============================================================================
