---------------------------- MODULE FundingLedger ----------------------------
(***************************************************************************)
(* Where the credits that pay volunteers come from.                        *)
(*                                                                         *)
(* A donation arrives as a Square webhook, which Square may deliver more   *)
(* than once; it is entered in a pool, and its credit is held until an     *)
(* administrator, or after 72 hours the policy job, gives it a target.     *)
(* Top-ups of an organisation's pool are available at once.  The award of  *)
(* a shift takes credits from the first candidate pool that covers it (the *)
(* semantic path); if no pool has a credit the shift may use, it is paid   *)
(* from the balance of a pool (the legacy path).                           *)
(*                                                                         *)
(* Every upsert of a funding_pools row locks it until the transaction      *)
(* ends, and every decision on a review locks the review.  One step is one *)
(* wait for such a lock and the reads that follow it; what a transaction   *)
(* writes becomes visible in its last step.                                *)
(***************************************************************************)
EXTENDS Integers, FiniteSets, Functions

CONSTANTS
    Payments,       \* Square payments made as donations
    Donations,      \* ids of donations rows, of their reviews and credits
    Grants,         \* top-ups by administrators and subscriptions
    Orgs,           \* organisations; each names the pool of its representative
    Events, Shifts, \* a shift is one volunteer at one event
    Sessions,
    Base,           \* the pool shared by all organisations
    Unrestricted,   \* the scope of a credit without a target
    None,
    PaymentAmount, PaymentPool, GrantAmount, GrantOrg, ShiftEvent, ShiftAmount,
    OrgOf,          \* the organisation that hosts an event
    Age,            \* the order in which credits are created
    Subsidised,     \* events whose policy profile is eligible
    PolicyTargets   \* targets the policy finds eligible

Credits == Donations \cup Grants
Pools == Orgs \cup {Base}
Scopes == Events \cup Orgs \cup {Unrestricted}

ASSUME SetsFinite ==
    /\ IsFiniteSet(Donations) /\ IsFiniteSet(Grants) /\ IsFiniteSet(Shifts)
    /\ IsFiniteSet(Sessions)
ASSUME SetsDisjoint ==
    /\ Donations \cap Grants = {} /\ Events \cap Orgs = {}
    /\ Base \notin Orgs /\ Unrestricted \notin Events \cup Orgs
    /\ None \notin Donations \cup Payments \cup Shifts \cup Pools
ASSUME MoneyTypes ==
    /\ PaymentAmount \in [Payments -> Nat] /\ PaymentPool \in [Payments -> Pools]
    /\ GrantAmount \in [Grants -> Nat] /\ GrantOrg \in [Grants -> Orgs]
    /\ ShiftAmount \in [Shifts -> Nat \ {0}]
ASSUME EventTypes ==
    /\ ShiftEvent \in [Shifts -> Events] /\ OrgOf \in [Events -> Orgs]
    /\ Age \in [Credits -> Nat] /\ \A c, d \in Credits : Age[c] = Age[d] => c = d
    /\ Subsidised \subseteq Events /\ PolicyTargets \subseteq Events \cup Orgs

VARIABLES
    payment,    \* donations.square_payment_id, None where there is no row
    review,     \* donation_allocation_reviews.status of each donation
    credit,     \* the row of funding_credits
    award,      \* the shift_out debit of each shift and its allocations
    tx,         \* the transaction of each session
    retargeted  \* history: donations whose target was changed once decided

vars == <<payment, review, credit, award, tx, retargeted>>

Reviews == {"none", "pending", "manual", "policy"}
CreditRows ==
    [status: {"none", "held", "available", "partially_spent", "spent"},
     scope: Scopes, remaining: Nat]
Awards == [mode: {"none", "semantic", "legacy"}, pool: Pools \cup {None},
           debit: Nat, donation: Donations \cup {None}, from: [Credits -> Nat]]
Transactions ==
    [op: {"none", "intake", "award", "manual", "policy"}, at: 0..3,
     payment: Payments \cup {None}, found: Donations \cup {None},
     shift: Shifts \cup {None}, reviews: SUBSET Donations,
     plans: [1..2 -> [Credits -> Nat]]]

NoCredits == [c \in Credits |-> 0]
Unpaid == [mode |-> "none", pool |-> None, debit |-> 0, donation |-> None,
           from |-> NoCredits]
Idle == [op |-> "none", at |-> 0, payment |-> None, found |-> None,
         shift |-> None, reviews |-> {}, plans |-> [i \in 1..2 |-> NoCredits]]

TypeOK ==
    /\ payment \in [Donations -> Payments \cup {None}]
    /\ review \in [Donations -> Reviews]
    /\ credit \in [Credits -> CreditRows]
    /\ award \in [Shifts -> Awards]
    /\ tx \in [Sessions -> Transactions]
    /\ retargeted \subseteq Donations

Init ==
    /\ payment = [d \in Donations |-> None]
    /\ review = [d \in Donations |-> "none"]
    /\ credit = [c \in Credits |-> [status |-> "none", scope |-> Unrestricted,
                                    remaining |-> 0]]
    /\ award = [w \in Shifts |-> Unpaid]
    /\ tx = [t \in Sessions |-> Idle]
    /\ retargeted = {}

(***************************************************************************)
(* Locks: the pools an award has read, the reviews a decision has read.    *)
(***************************************************************************)

\* Mutant: an award of several credits asks the shared pool first.
CandidatesBySize(w) ==
    IF ShiftAmount[w] > 1 THEN <<Base, OrgOf[ShiftEvent[w]]>>
                          ELSE <<OrgOf[ShiftEvent[w]], Base>>

\* buildFundingPoolCandidates: the owner's pool, then the shared one.
Candidates(w) == <<OrgOf[ShiftEvent[w]], Base>>

HoldsPool(t, p) ==
    /\ tx[t].op = "award"
    /\ \E i \in 1..2 : i < tx[t].at /\ Candidates(tx[t].shift)[i] = p

\* Mutant: the pool's row is found by a plain SELECT.
PoolNeverLocked(p) == TRUE

PoolFree(p) == \A t \in Sessions : ~HoldsPool(t, p)
ReviewFree(d) == \A t \in Sessions : d \notin tx[t].reviews

Start(t, x) == tx[t] = Idle /\ tx' = [tx EXCEPT ![t] = x]
End(t) == tx' = [tx EXCEPT ![t] = Idle]

\* An error, a lost connection or a crash: nothing of the transaction stays.
Rollback(t) ==
    /\ tx[t] # Idle
    /\ End(t)
    /\ UNCHANGED <<payment, review, credit, award, retargeted>>

(***************************************************************************)
(* Money coming in.                                                        *)
(***************************************************************************)

Recorded == {d \in Donations : payment[d] # None}

Amount(c) == IF c \in Grants THEN GrantAmount[c] ELSE PaymentAmount[payment[c]]
PoolOf(c) == IF c \in Grants THEN GrantOrg[c] ELSE PaymentPool[payment[c]]

\* Mutant: the webhook does not look for the payment it may have recorded.
BeginIntakeBlindly(t, p) ==
    /\ Start(t, [Idle EXCEPT !.op = "intake", !.payment = p])
    /\ UNCHANGED <<payment, review, credit, award, retargeted>>

\* recordDonation looks the payment up, without a lock.
BeginIntake(t, p) ==
    /\ \E d \in Donations \cup {None} :
         /\ IF d = None THEN \A e \in Donations : payment[e] # p
                        ELSE payment[d] = p
         /\ Start(t, [Idle EXCEPT !.op = "intake", !.payment = p, !.found = d])
    /\ UNCHANGED <<payment, review, credit, award, retargeted>>

\* A new donation: its row, the pool's donation_in, the held credit and the
\* pending review are written together.
RecordDonation(t) ==
    LET p == tx[t].payment IN
    /\ tx[t].op = "intake" /\ tx[t].found = None
    /\ PoolFree(PaymentPool[p])
    /\ \E d \in Donations \ Recorded :
         /\ \A e \in Donations \ Recorded : Age[d] <= Age[e]
         /\ payment' = [payment EXCEPT ![d] = p]
         /\ review' = [review EXCEPT ![d] = "pending"]
         /\ credit' = [credit EXCEPT ![d] = [status |-> "held",
                         scope |-> Unrestricted, remaining |-> PaymentAmount[p]]]
    /\ End(t)
    /\ UNCHANGED <<award, retargeted>>

\* A redelivery finds the donation: every INSERT has its ON CONFLICT or its
\* check, and nothing changes.
RecognisePayment(t) ==
    /\ tx[t].op = "intake" /\ tx[t].found # None
    /\ PoolFree(PaymentPool[tx[t].payment])
    /\ End(t)
    /\ UNCHANGED <<payment, review, credit, award, retargeted>>

\* An administrator's or a subscription's top-up of an organisation's pool.
TopUp(g) ==
    /\ credit[g].status = "none"
    /\ PoolFree(GrantOrg[g])
    /\ credit' = [credit EXCEPT ![g] = [status |-> "available",
                    scope |-> GrantOrg[g], remaining |-> GrantAmount[g]]]
    /\ UNCHANGED <<payment, review, award, tx, retargeted>>

(***************************************************************************)
(* Decisions on a donation.                                                *)
(***************************************************************************)

\* Both decisions release the donation's credit whatever is left of it.
Released(target, d) ==
    [credit[d] EXCEPT !.scope = target[d], !.status = "available"]

\* Mutant: the review is not updated.
DecideCreditOnly(D, target, status) ==
    /\ credit' = [c \in Credits |-> IF c \in D THEN Released(target, c)
                                               ELSE credit[c]]
    /\ retargeted' = retargeted
    /\ UNCHANGED review

Decide(D, target, status) ==
    /\ credit' = [c \in Credits |-> IF c \in D THEN Released(target, c)
                                               ELSE credit[c]]
    /\ review' = [d \in Donations |-> IF d \in D THEN status ELSE review[d]]
    /\ retargeted' = retargeted \cup {d \in D : review[d] # "pending"}

BeginManual(t, d) ==
    /\ review[d] # "none"
    /\ ReviewFree(d)
    /\ Start(t, [Idle EXCEPT !.op = "manual", !.reviews = {d}])
    /\ UNCHANGED <<payment, review, credit, award, retargeted>>

CommitManual(t) ==
    /\ tx[t].op = "manual"
    /\ \E s \in Scopes :
         Decide(tx[t].reviews, [d \in tx[t].reviews |-> s], "manual")
    /\ End(t)
    /\ UNCHANGED <<payment, award>>

\* Mutant: the policy takes every review that the policy has not decided.
AwaitsReviewOrPolicy(d) == review[d] \in {"pending", "manual"}

AwaitsReview(d) == review[d] = "pending"

\* runDueDonationPolicyAllocations: the reviews that are due, except those
\* another transaction has locked.  Which are due is the clock's affair.
BeginPolicy(t, due) ==
    /\ due # {}
    /\ due \subseteq {d \in Donations : AwaitsReview(d) /\ ReviewFree(d)}
    /\ Start(t, [Idle EXCEPT !.op = "policy", !.reviews = due])
    /\ UNCHANGED <<payment, review, credit, award, retargeted>>

\* Without an eligible target the reviews stay pending.
CommitPolicy(t) ==
    LET due == {d \in tx[t].reviews : AwaitsReview(d)} IN
    /\ tx[t].op = "policy"
    /\ IF PolicyTargets = {}
       THEN UNCHANGED <<review, credit, retargeted>>
       ELSE \E target \in [due -> PolicyTargets] : Decide(due, target, "policy")
    /\ End(t)
    /\ UNCHANGED <<payment, award>>

(***************************************************************************)
(* What a shift may take from a pool.                                      *)
(***************************************************************************)

\* The shift may spend a credit of this scope.
InScope(c, w) ==
    LET e == ShiftEvent[w] IN
    \/ credit[c].scope \in {e, OrgOf[e]}
    \/ credit[c].scope = Unrestricted /\ (c \in Grants \/ e \in Subsidised)

\* Mutant: a held credit may be spent.
EligibleThoughHeld(c, w) ==
    /\ credit[c].status \in {"available", "partially_spent", "held"}
    /\ credit[c].remaining > 0
    /\ InScope(c, w)

\* Mutant: the target of the credit does not matter.
EligibleAnywhere(c, w) ==
    /\ credit[c].status \in {"available", "partially_spent"}
    /\ credit[c].remaining > 0

Eligible(c, w) ==
    /\ credit[c].status \in {"available", "partially_spent"}
    /\ credit[c].remaining > 0
    /\ InScope(c, w)

\* Mutant: the credits of every pool.
EligibleInAnyPool(p, w) ==
    {c \in Credits : credit[c].status # "none" /\ Eligible(c, w)}

EligibleIn(p, w) ==
    {c \in Credits : credit[c].status # "none" /\ PoolOf(c) = p /\ Eligible(c, w)}

\* compareFundingCredits: top-ups before donations, narrow scopes first,
\* older credits first.
SourceRank(c) == IF c \in Grants THEN 0 ELSE 1
ScopeRank(c) == CASE credit[c].scope \in Events -> 0
                  [] credit[c].scope \in Orgs -> 1
                  [] OTHER -> 2
Before(c, d) ==
    \/ SourceRank(c) < SourceRank(d)
    \/ /\ SourceRank(c) = SourceRank(d)
       /\ \/ ScopeRank(c) < ScopeRank(d)
          \/ ScopeRank(c) = ScopeRank(d) /\ Age[c] < Age[d]

Least(m, n) == IF m < n THEN m ELSE n
\* Mutant: Math.max(0, ...) is forgotten.
Unfloored(n) == n

AtLeast0(n) == IF n < 0 THEN 0 ELSE n
Remaining == [c \in Credits |-> credit[c].remaining]

\* buildFundingAllocationPlan: each credit, in order, gives what the ones
\* before it have left unpaid.
Plan(p, w) ==
    LET open == EligibleIn(p, w)
        before(c) == {d \in open : Before(d, c)}
    IN  [c \in Credits |->
           IF c \in open
           THEN Least(Remaining[c],
                      AtLeast0(ShiftAmount[w] - SumFunctionOnSet(Remaining, before(c))))
           ELSE 0]

Planned(f) == SumFunctionOnSet(f, Credits)

(***************************************************************************)
(* The award of a shift.  CreditAward shows that a shift is awarded once   *)
(* and that its request stays locked meanwhile.                            *)
(***************************************************************************)

BeginAward(t, w) ==
    /\ award[w].mode = "none"
    /\ \A u \in Sessions : tx[u].shift # w
    /\ Start(t, [Idle EXCEPT !.op = "award", !.at = 1, !.shift = w])
    /\ UNCHANGED <<payment, review, credit, award, retargeted>>

ReadPool(t) ==
    LET w == tx[t].shift
        i == tx[t].at
    IN  /\ tx[t].op = "award" /\ i \in 1..2
        /\ PoolFree(Candidates(w)[i])
        /\ tx' = [tx EXCEPT ![t].at = i + 1,
                            ![t].plans[i] = Plan(Candidates(w)[i], w)]
        /\ UNCHANGED <<payment, review, credit, award, retargeted>>

\* The first candidate that pays the whole shift, else the one that pays
\* most, the first of equals.
Selected(f, amount) ==
    IF f[1] >= amount THEN 1
    ELSE IF f[2] >= amount \/ f[2] > f[1] THEN 2 ELSE 1

\* Mutant: a credit that a shift has drawn on stays whole.
DrawnButWhole(c, n) == [credit[c] EXCEPT !.status = "partially_spent"]

Drawn(c, n) ==
    LET left == AtLeast0(credit[c].remaining - n) IN
    [credit[c] EXCEPT
       !.remaining = left,
       !.status = IF left = 0 THEN "spent"
                  ELSE IF left < Amount(c) THEN "partially_spent" ELSE @]

\* applySemanticFundingPlan: the debit names a donation if the plan draws on
\* exactly one.
AwardFromCredits(t) ==
    LET w == tx[t].shift
        funded == [i \in 1..2 |-> Planned(tx[t].plans[i])]
        i == Selected(funded, ShiftAmount[w])
        plan == tx[t].plans[i]
        donors == {d \in Donations : plan[d] > 0}
    IN  /\ tx[t].op = "award" /\ tx[t].at = 3
        /\ \E j \in 1..2 : funded[j] > 0
        /\ award' = [award EXCEPT ![w] =
             [mode |-> "semantic", pool |-> Candidates(w)[i], debit |-> funded[i],
              donation |-> IF Cardinality(donors) = 1
                           THEN CHOOSE d \in donors : TRUE ELSE None,
              from |-> plan]]
        /\ credit' = [c \in Credits |-> IF plan[c] > 0 THEN Drawn(c, plan[c])
                                                       ELSE credit[c]]
        /\ End(t)
        /\ UNCHANGED <<payment, review, retargeted>>

\* What has come into a pool, and what has left it.
Incoming(p) ==
    SumFunctionOnSet(
        [c \in Credits |-> IF credit[c].status = "none" THEN 0 ELSE Amount(c)],
        {c \in Credits : credit[c].status # "none" /\ PoolOf(c) = p})
Debits == [w \in Shifts |-> award[w].debit]
Balance(p) ==
    Incoming(p) - SumFunctionOnSet(Debits, {w \in Shifts : award[w].pool = p})

\* findNextDonationWithRemaining, which does not look at the credit's status.
Unspent(d, p) ==
    Amount(d) - SumFunctionOnSet(Debits, {w \in Shifts : award[w].pool = p
                                                         /\ award[w].donation = d})
WithRemaining(p) ==
    {d \in Recorded : PaymentPool[payment[d]] = p /\ Unspent(d, p) > 0}

\* The legacy path: the pool's balance pays what it can; the oldest donation
\* that the pool's debits have not used up is named.
AwardFromBalance(t) ==
    LET w == tx[t].shift
        i == Selected([j \in 1..2 |-> Balance(Candidates(w)[j])], ShiftAmount[w])
        p == Candidates(w)[i]
        debit == Least(ShiftAmount[w], AtLeast0(Balance(p)))
        oldest == {d \in WithRemaining(p) : \A e \in WithRemaining(p) : Age[d] <= Age[e]}
    IN  /\ tx[t].op = "award" /\ tx[t].at = 3
        /\ \A j \in 1..2 : Planned(tx[t].plans[j]) = 0
        /\ award' = [award EXCEPT ![w] =
             [mode |-> "legacy", pool |-> p, debit |-> debit,
              donation |-> IF debit > 0 /\ oldest # {}
                           THEN CHOOSE d \in oldest : TRUE ELSE None,
              from |-> NoCredits]]
        /\ End(t)
        /\ UNCHANGED <<payment, review, credit, retargeted>>

(***************************************************************************)
(* The specification.                                                      *)
(***************************************************************************)

Arrival(t) ==
    \/ \E p \in Payments : BeginIntake(t, p)
    \/ \E d \in Donations : BeginManual(t, d)
    \/ \E due \in SUBSET Donations : BeginPolicy(t, due)
    \/ \E w \in Shifts : BeginAward(t, w)

Continue(t) ==
    \/ RecordDonation(t)
    \/ RecognisePayment(t)
    \/ CommitManual(t)
    \/ CommitPolicy(t)
    \/ ReadPool(t)
    \/ AwardFromCredits(t)
    \/ AwardFromBalance(t)

Next ==
    \/ \E t \in Sessions : Arrival(t) \/ Continue(t) \/ Rollback(t)
    \/ \E g \in Grants : TopUp(g)

Spec == Init /\ [][Next]_vars

\* PostgreSQL grants locks in the order they are asked for, so a transaction
\* that can go on again and again goes on; the cron job looks at every due
\* review every 15 minutes, and its transaction is not aborted for ever.
Fairness ==
    /\ \A t \in Sessions : SF_vars(Continue(t)) /\ SF_vars(CommitPolicy(t))
    /\ \A d \in Donations :
         SF_vars(\E t \in Sessions : \E due \in SUBSET Donations :
                   d \in due /\ BeginPolicy(t, due))

FairSpec == Spec /\ Fairness

(***************************************************************************)
(* Properties.                                                             *)
(***************************************************************************)

\* No credit is spent twice: what is left of a credit is its amount less
\* what shifts have taken, although awards plan on what they read before
\* they write (fundingAllocationService.js) and GREATEST(remaining - x, 0)
\* would hide an overdraft.
RemainingMatchesAllocations ==
    \A c \in Credits :
      credit[c].status # "none" =>
        credit[c].remaining
          = Amount(c) - SumFunction([w \in Shifts |-> award[w].from[c]])

\* GREATEST never has anything to hide: whatever other awards, decisions and
\* intakes do after an award has read its pools, what it plans to take is
\* still there when it takes it.
PlansStayCovered ==
    \A t \in Sessions : \A i \in 1..2 :
      tx[t].op = "award" /\ i < tx[t].at =>
        \A c \in Credits : tx[t].plans[i][c] <= credit[c].remaining

\* A donation under review is whole and held, so that no semantic award has
\* spent any of it, and a decision, by hand or by the policy, always ends
\* the hold (resolveInitialFundingCreditStatus, donationAllocationService).
HeldUntilReviewed ==
    \A d \in Donations :
      /\ review[d] = "none" <=> credit[d].status = "none"
      /\ review[d] = "pending" <=> credit[d].status = "held"
      /\ review[d] = "pending" => \A w \in Shifts : award[w].from[d] = 0

\* The policy job never overrides an administrator, however the job and the
\* administrator meet at the 72 hours.
ManualDecisionStands ==
    [][\A d \in Donations : review[d] = "manual" => review'[d] = "manual"]_vars

\* A shift draws only on credits whose target it matches when it draws, with
\* one exception: an administrator has given a decided donation another
\* target, which an award that had already planned does not notice.
OutOfScopeOnlyIfRetargeted ==
    [][\A w \in Shifts : \A c \in Credits :
         award'[w].from[c] # award[w].from[c] => InScope(c, w) \/ c \in retargeted]_vars

\* A pool is overdrawn by at most what the legacy path has taken from its
\* balance: that path spends the balance without drawing on the credits it
\* consists of, so that a later semantic award spends the same money again.
OverdraftIsLegacySpending ==
    \A p \in Pools :
      -Balance(p) <=
          SumFunctionOnSet(Debits, {w \in Shifts : /\ award[w].pool = p
                                                   /\ award[w].mode = "legacy"})

\* Square may deliver a webhook again and again: a payment is recorded more
\* than once only by deliveries that overlap, one row for each at most
\* (recordDonation looks it up without a lock, and the column is not UNIQUE).
DuplicatesNeedOverlap ==
    \A p \in Payments :
      Cardinality({d \in Donations : payment[d] = p}) <= Cardinality(Sessions)

\* Awards lock their pools one after the other (FOR UPDATE in
\* resolveSemanticFundingPlan) and keep them; whatever pools they need, no set
\* of transactions waits for one another.
WaitsFor(t, u) ==
    /\ tx[t].op = "award" /\ tx[t].at \in 1..2
    /\ HoldsPool(u, Candidates(tx[t].shift)[tx[t].at])

NoCircularWait ==
    \A S \in (SUBSET Sessions) \ {{}} :
      \E t \in S : \A u \in S : ~WaitsFor(t, u)

\* While the policy has a target, no donation is held for ever, even if no
\* administrator looks at it.
EveryDonationDecided ==
    \A d \in Donations : review[d] = "pending" ~> review[d] # "pending"

\* "Donations are reviewed before allocation" (frontend/donate.jsx): no
\* debit names a donation that is still under review.
HeldDonationFundsNothing ==
    \A w \in Shifts : award[w].donation # None => review[award[w].donation] # "pending"
=============================================================================
