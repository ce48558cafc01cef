-------------------------------- MODULE Egress --------------------------------
(***************************************************************************)
(* skills/grok-sub2api-ops/scripts/bind_quota_egress.py: "plan" chooses,   *)
(* for every Grok account that is rate limited and has no egress proxy, a  *)
(* proxy of the pool so that the pool ends up balanced; "apply" takes a    *)
(* plan and binds one account after the other: unschedulable, proxy,       *)
(* schedulable, verify, and the way back when a call fails.  Plans stay on *)
(* disk, so that an old one can be applied again or after a newer one.     *)
(*                                                                         *)
(* Sub2API is the accounts table.  A call of it is done, refused, or done  *)
(* with its answer lost.  What others do to an account (Sub2API itself,    *)
(* an operator) happens between any two calls.                             *)
(*                                                                         *)
(* Left out: the files' permissions and hashes, pagination, the choice of  *)
(* the admin key and of the base URL; and two commands at the same time,   *)
(* against which the tool has no lock.                                     *)
(***************************************************************************)
EXTENDS Integers, FiniteSets, Sequences, FiniteSetsExt

CONSTANTS
    Accounts,     \* account IDs
    Proxies,      \* the IDs of the proxy pool of every plan
    MaxPlans,     \* bound on the plans made
    MaxApplies,   \* bound on the applies begun
    MaxFaults     \* bound on kills and on what others do

ASSUME EgressAssumption ==
    /\ Accounts \subseteq Nat \ {0}
    /\ Proxies \subseteq Nat \ {0}
    /\ IsFiniteSet(Accounts) /\ IsFiniteSet(Proxies) /\ Proxies # {}
    /\ MaxPlans \in Nat /\ MaxApplies \in Nat /\ MaxFaults \in Nat

VARIABLES
    acct,         \* Sub2API: account -> proxy (0: none), schedulable, the limit it is under
    plans,        \* the plan.json files, in the order they were made
    rows,         \* apply-results.jsonl: the last row of each account
    summary,      \* apply-summary.json of the last apply that ended
    run,          \* the apply in progress
    applies,      \* the applies begun, up to MaxApplies
    faults,       \* kills and changes by others, up to MaxFaults
    touched,      \* history: accounts others changed, or that were stopped from the start
    raced,        \* history: those they changed while the apply had them in hand
    killedAt      \* history: accounts in hand when an apply was killed

vars == <<acct, plans, rows, summary, run, applies, faults, touched, raced, killedAt>>

-----------------------------------------------------------------------------
(* Data. *)

\* An account: limit 0 is "no 429", the others are different reset times.
Limits == 0..2
AccountState == [proxy : Proxies \cup {0}, sched : BOOLEAN, limit : Limits]

NoRow == [status |-> "none", proxyBack |-> "none", schedBack |-> "none"]
NoSummary == [outcome |-> "none", plan |-> 0]
NoRun == [at |-> "idle", plan |-> 0, limit |-> 0, cur |-> 0, todo |-> {}, skip |-> {},
          done |-> {}, failed |-> 0, proxyBack |-> "none"]

\* candidate_reason: limited, schedulable, and no proxy yet.
Candidate(s) == s.sched /\ s.limit # 0 /\ s.proxy = 0

\* iter_accounts: all pages of the group, of which the plan takes these.
Candidates == {a \in Accounts : Candidate(acct[a])}

Bound(p) == Cardinality({a \in Accounts : acct[a].proxy = p})

Smallest(S) == CHOOSE x \in S : \A y \in S : x <= y

-----------------------------------------------------------------------------
(* plan. *)

\* min(proxies, key=lambda pid: (finals[pid], pid)) gets one account more.
AddOne(finals) ==
    LET least == {p \in Proxies : \A q \in Proxies : finals[p] <= finals[q]}
    IN  [finals EXCEPT ![Smallest(least)] = @ + 1]

\* Mutant of Totals: the bindings there are do not count.
TotalsFromZero(current, n) ==
    LET fill[k \in 0..n] == IF k = 0 THEN [p \in Proxies |-> 0] ELSE AddOne(fill[k - 1])
    IN  [p \in Proxies |-> current[p] + fill[n][p]]

\* compute_balanced_quotas: n units, one after the other, each to the proxy
\* with the smallest total so far.
Totals(current, n) ==
    LET fill[k \in 0..n] == IF k = 0 THEN current ELSE AddOne(fill[k - 1])
    IN  fill[n]

\* assign_candidates_to_proxies: any assignment within the quotas (the shuffle
\* depends on the seed).
Assignments(cands, current, totals) ==
    {f \in [cands -> Proxies] :
        \A p \in Proxies : Cardinality({a \in cands : f[a] = p}) = totals[p] - current[p]}

\* build_plan and write_plan_artifacts; it writes nothing to Sub2API.
MakePlan ==
    /\ run = NoRun
    /\ Len(plans) < MaxPlans
    /\ LET cands == Candidates
           current == [p \in Proxies |-> Bound(p)]
           totals == Totals(current, Cardinality(cands))
       IN  \E f \in Assignments(cands, current, totals) :
              plans' = Append(plans, [proxyOf |-> f, before |-> [a \in cands |-> acct[a]],
                                      current |-> current])
    /\ UNCHANGED <<acct, rows, summary, run, applies, faults, touched, raced, killedAt>>

-----------------------------------------------------------------------------
(* apply. *)

Plan == plans[run.plan]
Cur == run.cur

\* already_applied.
AlreadyApplied(a) == acct[a].sched /\ acct[a].proxy = Plan.proxyOf[a]

\* Mutant of MayBind: it does not compare the proxy.
MayBindAnyProxy(a) ==
    /\ acct[a].sched = Plan.before[a].sched
    /\ acct[a].limit = Plan.before[a].limit

\* frozen_state_matches and candidate_reason for an account not bound yet.
MayBind(a) == acct[a] = Plan.before[a] /\ Candidate(acct[a])

\* frozen_state_matches for one that is.
Resumable(a) ==
    /\ AlreadyApplied(a)
    /\ acct[a].limit = Plan.before[a].limit
    /\ Plan.before[a].sched /\ Plan.before[a].proxy = 0

Here(at) == run.at = at
Keep == UNCHANGED <<plans, summary, applies, faults, touched, raced, killedAt>>

\* apply_plan up to the first GET; the proxies of the plan are active.
BeginApply(k, limit) ==
    /\ run = NoRun
    /\ applies < MaxApplies
    /\ applies' = applies + 1
    /\ run' = [NoRun EXCEPT !.at = "precheck", !.plan = k, !.limit = limit,
                            !.todo = DOMAIN plans[k].proxyOf]
    /\ UNCHANGED <<acct, plans, rows, summary, faults, touched, raced, killedAt>>

\* One GET before the backup: a drifted account, or a GET that fails, refuses
\* the whole apply.
Precheck ==
    /\ Here("precheck")
    /\ run.todo # {}
    /\ LET a == Smallest(run.todo)
       IN  run' = IF MayBind(a) THEN [run EXCEPT !.todo = @ \ {a}, !.done = @ \cup {a}]
                  ELSE IF Resumable(a)
                  THEN [run EXCEPT !.todo = @ \ {a}, !.done = @ \cup {a}, !.skip = @ \cup {a}]
                  ELSE NoRun
    /\ UNCHANGED <<acct, rows>> /\ Keep

PrecheckRaises ==
    /\ Here("precheck")
    /\ run.todo # {}
    /\ run' = NoRun
    /\ UNCHANGED <<acct, rows>> /\ Keep

\* create_postgres_backup, when there is something to write; it may fail.
Backup ==
    /\ Here("precheck")
    /\ run.todo = {}
    /\ \/ run' = [run EXCEPT !.at = "next", !.todo = run.done, !.done = {}]
       \/ run.done # run.skip /\ run' = NoRun
    /\ UNCHANGED <<acct, rows>> /\ Keep

Stops == run.limit > 0 /\ run.failed >= run.limit

\* append_jsonl of the row of one account.
WriteRow(a, status, proxyBack, schedBack) ==
    /\ rows' = [rows EXCEPT ![a] = [status |-> status, proxyBack |-> proxyBack,
                                    schedBack |-> schedBack]]
    /\ run' = [run EXCEPT !.at = "next", !.cur = 0, !.proxyBack = "none",
                          !.todo = @ \ {a}, !.done = @ \cup {a},
                          !.failed = IF status = "failed" THEN @ + 1 ELSE @]

Skip ==
    /\ Here("next") /\ ~Stops /\ run.todo # {}
    /\ Smallest(run.todo) \in run.skip
    /\ WriteRow(Smallest(run.todo), "already_applied", "none", "none")
    /\ UNCHANGED acct /\ Keep

\* The GET of apply_one_account, which may fail; what it reads may have changed
\* since the check before the backup.
Turn ==
    /\ Here("next") /\ ~Stops /\ run.todo # {}
    /\ LET a == Smallest(run.todo)
       IN  /\ a \notin run.skip
           /\ \/ MayBind(a) /\ run' = [run EXCEPT !.at = "drain", !.cur = a] /\ UNCHANGED rows
              \/ Resumable(a) /\ WriteRow(a, "already_applied", "none", "none")
              \/ WriteRow(a, "failed", "none", "none")
    /\ UNCHANGED acct /\ Keep

\* One write to Sub2API: done, done without an answer, or refused.
Write(state, ok, raised) ==
    /\ \/ /\ acct' = [acct EXCEPT ![Cur] = state]
          /\ run' \in {ok, raised}
       \/ /\ UNCHANGED acct
          /\ run' = raised
    /\ UNCHANGED rows /\ Keep

Undo == [run EXCEPT !.at = "undo-proxy"]

Drain ==
    /\ Here("drain")
    /\ Write([acct[Cur] EXCEPT !.sched = FALSE], [run EXCEPT !.at = "bind"], Undo)

\* Mutant of Bind: a PUT that raised is taken for one that changed nothing.
BindTrustsError ==
    /\ Here("bind")
    /\ Write([acct[Cur] EXCEPT !.proxy = Plan.proxyOf[Cur]], [run EXCEPT !.at = "resume"],
             [run EXCEPT !.at = "undo-sched", !.proxyBack = "restored"])

Bind ==
    /\ Here("bind")
    /\ Write([acct[Cur] EXCEPT !.proxy = Plan.proxyOf[Cur]], [run EXCEPT !.at = "resume"], Undo)

Resume ==
    /\ Here("resume")
    /\ Write([acct[Cur] EXCEPT !.sched = TRUE], [run EXCEPT !.at = "verify"], Undo)

\* The GET that proves the binding, with the limit as it was.
Verify ==
    /\ Here("verify")
    /\ \/ /\ acct[Cur] = [Plan.before[Cur] EXCEPT !.proxy = Plan.proxyOf[Cur]]
          /\ WriteRow(Cur, "applied", "none", "none")
       \/ run' = Undo /\ UNCHANGED rows
    /\ UNCHANGED acct /\ Keep

UndoProxy ==
    /\ Here("undo-proxy")
    /\ Write([acct[Cur] EXCEPT !.proxy = 0],
             [run EXCEPT !.at = "undo-sched", !.proxyBack = "restored"],
             [run EXCEPT !.at = "undo-sched", !.proxyBack = "failed"])

\* Mutant of UndoSched: it is skipped when the proxy could not be restored.
UndoSchedIfProxyBack ==
    /\ Here("undo-sched")
    /\ IF run.proxyBack = "restored"
       THEN acct' = [acct EXCEPT ![Cur].sched = TRUE] /\ WriteRow(Cur, "failed", "restored", "restored")
       ELSE UNCHANGED acct /\ WriteRow(Cur, "failed", run.proxyBack, "none")
    /\ Keep

\* The account was schedulable when it was taken; its row says what came back.
UndoSched ==
    /\ Here("undo-sched")
    /\ \/ /\ acct' = [acct EXCEPT ![Cur].sched = TRUE]
          /\ \E back \in {"restored", "failed"} : WriteRow(Cur, "failed", run.proxyBack, back)
       \/ UNCHANGED acct /\ WriteRow(Cur, "failed", run.proxyBack, "failed")
    /\ Keep

\* Mutant of Outcome: it counts the rows instead of the failures.
OutcomeOfRows(status) ==
    IF "applied" \in {status[a] : a \in DOMAIN status} THEN "binding_applied"
    ELSE IF DOMAIN status = {} THEN "no_candidates" ELSE "binding_failed"

\* The outcome of the rows of this apply.
Outcome(status) ==
    LET seen == {status[a] : a \in DOMAIN status}
    IN  IF "failed" \in seen
        THEN IF seen = {"failed"} THEN "binding_failed" ELSE "binding_partial_failure"
        ELSE IF DOMAIN Plan.proxyOf # {} THEN "binding_applied" ELSE "no_candidates"

Summary ==
    /\ Here("next")
    /\ Stops \/ run.todo = {}
    /\ summary' = [outcome |-> Outcome([a \in run.done |-> rows[a].status]), plan |-> run.plan]
    /\ run' = NoRun
    /\ UNCHANGED <<acct, plans, rows, applies, faults, touched, raced, killedAt>>

ApplyNext ==
    \/ \E k \in DOMAIN plans, limit \in 0..1 : BeginApply(k, limit)
    \/ Precheck \/ PrecheckRaises \/ Backup \/ Skip \/ Turn \/ Drain \/ Bind \/ Resume \/ Verify
    \/ UndoProxy \/ UndoSched \/ Summary

-----------------------------------------------------------------------------
(* Others. *)

Fault == faults < MaxFaults /\ faults' = faults + 1

Kill ==
    /\ run # NoRun
    /\ Fault
    /\ killedAt' = killedAt \cup ({Cur} \ {0})
    /\ run' = NoRun
    /\ UNCHANGED <<acct, plans, rows, summary, applies, touched, raced>>

Change(a, state) ==
    /\ Fault
    /\ acct[a] # state
    /\ acct' = [acct EXCEPT ![a] = state]
    /\ touched' = touched \cup {a}
    /\ raced' = IF a = Cur THEN raced \cup {a} ELSE raced
    /\ UNCHANGED <<plans, rows, summary, run, applies, killedAt>>

\* Sub2API sees another answer of the upstream; an operator stops or starts an
\* account, or binds it.
Others(a) ==
    \/ \E l \in Limits : Change(a, [acct[a] EXCEPT !.limit = l])
    \/ Change(a, [acct[a] EXCEPT !.sched = ~@])
    \/ \E p \in Proxies \cup {0} : Change(a, [acct[a] EXCEPT !.proxy = p])

-----------------------------------------------------------------------------
Init ==
    /\ acct \in [Accounts -> {s \in AccountState : s.limit < 2}]
    /\ plans = <<>>
    /\ rows = [a \in Accounts |-> NoRow]
    /\ summary = NoSummary
    /\ run = NoRun
    /\ applies = 0
    /\ faults = 0
    /\ touched = {a \in Accounts : ~acct[a].sched}
    /\ raced = {}
    /\ killedAt = {}

Next == MakePlan \/ ApplyNext \/ Kill \/ \E a \in Accounts : Others(a)

Spec == Init /\ [][Next]_vars

-----------------------------------------------------------------------------
(* Properties. *)

\* A plan balances the pool as well as adding bindings can: a proxy that gets a
\* new account ends at most one above every other proxy.
PlanBalanced ==
    \A k \in DOMAIN plans :
        LET f == plans[k].proxyOf
            final == [p \in Proxies |-> plans[k].current[p]
                                        + Cardinality({a \in DOMAIN f : f[a] = p})]
        IN  \A p, q \in Proxies : (\E a \in DOMAIN f : f[a] = p) => final[p] <= final[q] + 1

\* An apply that reports "binding_applied" has bound every account of its plan,
\* and left it schedulable, unless others changed it since.
OutcomeIsTrue ==
    summary.outcome = "binding_applied" =>
        \A a \in DOMAIN plans[summary.plan].proxyOf :
            a \notin touched => /\ acct[a].proxy = plans[summary.plan].proxyOf[a]
                                /\ acct[a].sched

\* A failed row that says proxy and schedulable were restored is true: the
\* account is unbound and schedulable, whatever calls were lost.
FailedIsRestored ==
    \A a \in Accounts :
        /\ rows[a].status = "failed"
        /\ rows[a].proxyBack = "restored" /\ rows[a].schedBack = "restored"
        /\ a \notin touched \cup killedAt \cup {Cur}
        => acct[a].proxy = 0 /\ acct[a].sched

\* No account is left unschedulable in silence: the apply has it in hand, or
\* was killed while it had, or its row says it could not be made schedulable.
StoppedIsReported ==
    \A a \in Accounts :
        ~acct[a].sched => a \in touched \cup killedAt \cup {Cur} \/ rows[a].schedBack = "failed"

\* A binding that was there before an account's turn, of an operator or of an
\* apply of another plan, is kept: an apply takes away only what it has bound.
BindingsKept ==
    [][\A a \in Accounts \ raced :
          acct[a].proxy # 0 /\ acct'[a].proxy # acct[a].proxy /\ faults' = faults =>
              acct'[a].proxy = 0 /\ a = Cur /\ acct[a].proxy = Plan.proxyOf[a]]_vars

-----------------------------------------------------------------------------
(* The inductive invariant. *)

Places == {"idle", "precheck", "next", "drain", "bind", "resume", "verify", "undo-proxy",
           "undo-sched"}
Statuses == {"none", "applied", "already_applied", "failed"}
Backs == {"none", "restored", "failed"}

RowType == [status : Statuses, proxyBack : Backs, schedBack : Backs]
RunType == [at : Places, plan : Nat, limit : 0..1, cur : Accounts \cup {0}, todo : SUBSET Accounts,
            skip : SUBSET Accounts, done : SUBSET Accounts, failed : Nat, proxyBack : Backs]

\* A plan of accounts that were candidates.
PlanOK(pl) ==
    /\ DOMAIN pl.proxyOf \subseteq Accounts
    /\ pl.proxyOf \in [DOMAIN pl.proxyOf -> Proxies]
    /\ pl.before \in [DOMAIN pl.proxyOf -> AccountState]
    /\ \A a \in DOMAIN pl.proxyOf : Candidate(pl.before[a])

TypeOK ==
    /\ acct \in [Accounts -> AccountState]
    /\ plans \in Seq([proxyOf : UNION {[S -> Proxies] : S \in SUBSET Accounts},
                      before : UNION {[S -> AccountState] : S \in SUBSET Accounts},
                      current : [Proxies -> Nat]])
    /\ \A k \in DOMAIN plans : PlanOK(plans[k])
    /\ rows \in [Accounts -> RowType] /\ run \in RunType
    /\ applies \in 0..MaxApplies /\ faults \in 0..MaxFaults
    /\ touched \subseteq Accounts /\ raced \subseteq Accounts /\ killedAt \subseteq Accounts

InHand == {"drain", "bind", "resume", "verify", "undo-proxy", "undo-sched"}
Writing == InHand \cup {"next"}

\* An apply goes through the accounts of its plan, and has one in hand.
Walks ==
    /\ run.at # "idle" => /\ run.plan \in DOMAIN plans
                          /\ run.todo \cup run.done = DOMAIN Plan.proxyOf
                          /\ run.todo \cap run.done = {}
                          /\ run.skip \subseteq DOMAIN Plan.proxyOf
    /\ run.at \in InHand => Cur \in run.todo \ run.skip
    /\ run.at \notin InHand => Cur = 0
    /\ run.at = "precheck" => run.failed = 0 /\ run.skip \subseteq run.done
    /\ run.at = "idle" => run = NoRun

\* What the check before the backup has found stays, unless others change it.
Checked ==
    /\ run.at = "precheck" => \A a \in run.done : acct[a].sched \/ a \in touched
    /\ run.at \in Writing => \A a \in run.todo \ {Cur} : acct[a].sched \/ a \in touched
    /\ run.at # "idle" => \A a \in run.skip \ touched : AlreadyApplied(a)

\* The account in hand has no proxy, or the one of the plan.
HandOK ==
    run.at \in InHand =>
        /\ Cur \notin raced => acct[Cur].proxy \in {0, Plan.proxyOf[Cur]}
        /\ run.at = "undo-sched" /\ run.proxyBack = "restored" => Cur \in touched \/ acct[Cur].proxy = 0

\* The rows of this apply.
RowsOK ==
    run.at \in Writing =>
        /\ \A a \in run.done : /\ rows[a].status # "none"
                               /\ rows[a].status # "failed" /\ a \notin touched => AlreadyApplied(a)
        /\ run.failed > 0 => \E a \in run.done : rows[a].status = "failed"

\* What a summary calls applied is in nobody's hand.
SummaryKept ==
    summary.outcome = "binding_applied" =>
        /\ summary.plan \in DOMAIN plans
        /\ Cur \notin DOMAIN plans[summary.plan].proxyOf \ touched

IInv ==
    /\ TypeOK /\ Walks /\ Checked /\ HandOK /\ RowsOK /\ SummaryKept
    /\ StoppedIsReported /\ FailedIsRestored /\ OutcomeIsTrue
=============================================================================
