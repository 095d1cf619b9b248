---------------------------- MODULE ClaimReview ----------------------------
(***************************************************************************)
(* The claims of KAI, from the evidence of a promoted source to their      *)
(* eligibility for internal use (Backend/kai/dictionary).  People extract  *)
(* evidence, propose a claim for an item of it, list the claim's gaps and  *)
(* the questions to the client, complete the two reviews, answer the       *)
(* questions, accept what stays unresolved as a limitation, and raise      *)
(* conflicts between two claims.                                           *)
(*                                                                         *)
(* Each of these calls locks the source candidate behind the claim         *)
(* (getScopedSourceCandidateByIdentity, FOR UPDATE) before it reads what   *)
(* it decides on, and keeps it to its commit.  A call that locks one       *)
(* candidate is therefore one step, taken when the candidate is free; a    *)
(* conflict locks two, one after the other.  An evaluation locks nothing   *)
(* and reads at READ COMMITTED, one statement after the other.             *)
(*                                                                         *)
(* A claim has one item of evidence and an item at most one claim, so that *)
(* the item goes by the name of its claim.                                 *)
(***************************************************************************)
EXTENDS Naturals

CONSTANTS
    Claims,             \* numbered: claim ids are compared to order a pair
    Candidates,         \* intake source candidates
    CandidateOf,        \* the candidate behind the evidence of a claim
    Suspected,          \* pairs of claims, lower id first, somebody finds in conflict
    Evaluated,          \* claims that are evaluated and followed up
    Unresolved,         \* the dimensions P2-02 leaves unresolved
    ClientAnswerable,   \* those of them that go to the client
    Sessions,
    NoClaim

ASSUME ClaimsAreOrdered == Claims \subseteq Nat /\ NoClaim \notin Claims
ASSUME EachHasACandidate == CandidateOf \in [Claims -> Candidates]
ASSUME SuspectedArePairs == Suspected \subseteq {p \in Claims \X Claims : p[1] < p[2]}
ASSUME EvaluatedAreClaims == Evaluated \subseteq Claims
ASSUME DimensionsFit == ClientAnswerable \subseteq Unresolved

VARIABLES
    evidence,       \* review_status of an item's evidence_review
    claim,          \* review_status of a claim's claim_review
    gaps,           \* claims whose gaps and follow-ups are written
    answered,       \* follow-ups that are resolved
    accepted,       \* kai.coverage_review_decisions
    conflicts,      \* kai.conflict_groups; no code resolves one
    tx              \* the transaction of each session

reviewVars == <<evidence, claim>>
gapVars == <<gaps, answered>>
vars == <<evidence, claim, gaps, answered, accepted, conflicts, tx>>

Statuses == {"none", "needs_gk_review", "resolved"}

\* A review and the strength it assesses are written by one commit, but they
\* are in different rows and read by different statements.
Strengths == {"claim_strength", "support_strength"}
Reviews == {"claim_review", "evidence_review"}
Facts == Strengths \cup Reviews

FactsOf(c) ==
    {f \in {"claim_strength", "claim_review"} : claim[c] = "resolved"}
        \cup {f \in {"support_strength", "evidence_review"} : evidence[c] = "resolved"}

\* What the state_fingerprint of an acceptance distinguishes: the gap rows and
\* the assessments it also covers never change.
Acceptances == [claim : Claims, dimension : Unresolved, print : SUBSET Facts]

Steps == {"idle", "conflict", "rows", "reviews", "found"}

Transactions == [step : Steps,
                 claim : Claims \cup {NoClaim},
                 other : Claims \cup {NoClaim},
                 seen : SUBSET Facts]

Idle == [step |-> "idle", claim |-> NoClaim, other |-> NoClaim, seen |-> {}]

Init ==
    /\ evidence = [c \in Claims |-> "none"]
    /\ claim = [c \in Claims |-> "none"]
    /\ gaps = {}
    /\ answered = {}
    /\ accepted = {}
    /\ conflicts = {}
    /\ tx = [t \in Sessions |-> Idle]

\* Mutant: the bundle is read with the lookup made for displays, without lock.
HoldsNothing(t, k) == FALSE

\* A conflict keeps the candidate of its lower claim while it waits for that of
\* the higher one.
Holds(t, k) == tx[t].step = "conflict" /\ CandidateOf[tx[t].claim] = k
Free(k) == \A t \in Sessions : ~Holds(t, k)

Conflicted(c) == \E p \in conflicts : c \in {p[1], p[2]}

AcceptedWith(c, print) ==
    \A d \in Unresolved : [claim |-> c, dimension |-> d, print |-> print] \in accepted

FollowupsResolved(c) == {c} \X ClientAnswerable \subseteq answered

\* evaluateClaimTraceability for the internal audience, on one snapshot.
Eligible(c) ==
    /\ FactsOf(c) = Facts
    /\ c \in gaps
    /\ AcceptedWith(c, Facts)
    /\ FollowupsResolved(c)
    /\ ~Conflicted(c)

Open(t, txn) == tx[t].step = "idle" /\ tx' = [tx EXCEPT ![t] = txn]
End(t) == tx' = [tx EXCEPT ![t] = Idle]

\* A refusal, an error or the crash of the process: nothing was committed.
Rollback(t) ==
    /\ tx[t].step # "idle"
    /\ End(t)
    /\ UNCHANGED <<reviewVars, gapVars, accepted, conflicts>>

-----------------------------------------------------------------------------
(***************************************************************************)
(* Calls that lock one candidate.                                          *)
(***************************************************************************)

\* An item, with its open review, for every field of the candidate at once.
ExtractEvidence(k) ==
    /\ Free(k)
    /\ \E c \in Claims : CandidateOf[c] = k /\ evidence[c] = "none"
    /\ evidence' = [c \in Claims |->
           IF CandidateOf[c] = k /\ evidence[c] = "none" THEN "needs_gk_review" ELSE evidence[c]]
    /\ UNCHANGED <<claim, gapVars, accepted, conflicts, tx>>

\* The reviews are not looked at: a claim may be proposed for reviewed evidence.
ProposeClaim(c) ==
    /\ evidence[c] # "none"
    /\ Free(CandidateOf[c])
    /\ claim[c] = "none"
    /\ claim' = [claim EXCEPT ![c] = "needs_gk_review"]
    /\ UNCHANGED <<evidence, gapVars, accepted, conflicts, tx>>

\* At any time of the claim's life; a replay writes nothing.
GenerateGaps(c) ==
    /\ claim[c] # "none"
    /\ Free(CandidateOf[c])
    /\ c \notin gaps
    /\ gaps' = gaps \cup {c}
    /\ UNCHANGED <<reviewVars, answered, accepted, conflicts, tx>>

CompleteFollowup(c, d) ==
    /\ c \in gaps
    /\ Free(CandidateOf[c])
    /\ <<c, d>> \notin answered
    /\ answered' = answered \cup {<<c, d>>}
    /\ UNCHANGED <<reviewVars, gaps, accepted, conflicts, tx>>

\* Compare-and-set of the queue item, then the strength of the item.
CompleteEvidenceReview(c) ==
    /\ Free(CandidateOf[c])
    /\ evidence[c] = "needs_gk_review"
    /\ evidence' = [evidence EXCEPT ![c] = "resolved"]
    /\ UNCHANGED <<claim, gapVars, accepted, conflicts, tx>>

CompleteClaimReview(c) ==
    /\ Free(CandidateOf[c])
    /\ evidence[c] = "resolved"
    /\ claim[c] = "needs_gk_review"
    /\ claim' = [claim EXCEPT ![c] = "resolved"]
    /\ UNCHANGED <<evidence, gapVars, accepted, conflicts, tx>>

-----------------------------------------------------------------------------
(***************************************************************************)
(* createConflictReviewCandidate: the bundle of the lower claim, then that *)
(* of the higher one, each behind the lock of its candidate.               *)
(***************************************************************************)

\* readClaimBundle, behind its lock.
MayConflict(c) == claim[c] = "needs_gk_review" /\ c \in gaps

ReadLowerClaim(t, c, d) ==
    /\ Free(CandidateOf[c])
    /\ MayConflict(c)
    /\ Open(t, [Idle EXCEPT !.step = "conflict", !.claim = c, !.other = d])
    /\ UNCHANGED <<reviewVars, gapVars, accepted, conflicts>>

FreeFor(t, k) == \A u \in Sessions \ {t} : ~Holds(u, k)

\* A pair that is in conflict already is replayed.
CreateConflict(t) ==
    /\ tx[t].step = "conflict"
    /\ FreeFor(t, CandidateOf[tx[t].other])
    /\ MayConflict(tx[t].other)
    /\ conflicts' = conflicts \cup {<<tx[t].claim, tx[t].other>>}
    /\ End(t)
    /\ UNCHANGED <<reviewVars, gapVars, accepted>>

\* Mutant: the refusal looks at the lower claim again.
RefuseForLowerClaim(t) ==
    /\ tx[t].step = "conflict"
    /\ FreeFor(t, CandidateOf[tx[t].other])
    /\ ~MayConflict(tx[t].claim)
    /\ Rollback(t)

RefuseConflict(t) ==
    /\ tx[t].step = "conflict"
    /\ FreeFor(t, CandidateOf[tx[t].other])
    /\ ~MayConflict(tx[t].other)
    /\ Rollback(t)

\* The order of claims is not an order of candidates: two pairs may wait for
\* each other.  PostgreSQL notices and aborts one of the transactions.
WaitsFor(t, u) ==
    t # u /\ tx[t].step = "conflict" /\ Holds(u, CandidateOf[tx[t].other])

DeadlockVictim(t) ==
    /\ \E S \in SUBSET Sessions : t \in S /\ \A u \in S : \E w \in S : WaitsFor(u, w)
    /\ Rollback(t)

-----------------------------------------------------------------------------
(***************************************************************************)
(* evaluateClaimTraceabilityInTransaction inside a writer (the summary for *)
(* display reads one snapshot, REPEATABLE READ): the rows of claim and     *)
(* evidence with their strengths, then the two reviews, then gaps, follow- *)
(* ups, conflicts and decisions.  What it is for shows at its end only: a  *)
(* draft or an export candidate goes on with a claim that was found        *)
(* eligible; an acceptance is recorded for what was read.                  *)
(***************************************************************************)

BeginEvaluation(t, c) ==
    /\ claim[c] # "none"
    /\ Open(t, [Idle EXCEPT !.step = "rows", !.claim = c, !.seen = FactsOf(c) \cap Strengths])
    /\ UNCHANGED <<reviewVars, gapVars, accepted, conflicts>>

ReadReviews(t) ==
    /\ tx[t].step = "rows"
    /\ tx' = [tx EXCEPT ![t].step = "reviews",
                        ![t].seen = @ \cup (FactsOf(tx[t].claim) \cap Reviews)]
    /\ UNCHANGED <<reviewVars, gapVars, accepted, conflicts>>

\* Mutant: an acceptance counts whatever its fingerprint.
PassesIgnoringFingerprints(t) ==
    LET c == tx[t].claim
    IN /\ Reviews \subseteq tx[t].seen
       /\ c \in gaps
       /\ \A d \in Unresolved : \E a \in accepted : a.claim = c /\ a.dimension = d
       /\ FollowupsResolved(c)
       /\ ~Conflicted(c)

\* blockerCodes is empty.
Passes(t) ==
    LET c == tx[t].claim
    IN /\ tx[t].seen = Facts
       /\ c \in gaps
       /\ AcceptedWith(c, tx[t].seen)
       /\ FollowupsResolved(c)
       /\ ~Conflicted(c)

FindEligible(t) ==
    /\ tx[t].step = "reviews"
    /\ Passes(t)
    /\ tx' = [tx EXCEPT ![t].step = "found"]
    /\ UNCHANGED <<reviewVars, gapVars, accepted, conflicts>>

FindBlocked(t) ==
    /\ tx[t].step = "reviews"
    /\ ~Passes(t)
    /\ Rollback(t)

UseEligible(t) == tx[t].step = "found" /\ Rollback(t)

\* acceptInternalCoverageLimitation.  The fingerprint is that of what was read,
\* which an approval may have torn apart; the candidate is locked after the
\* insert, for the audit.  A replay writes nothing, as a blocked evaluation.
RecordAcceptance(t, d) ==
    /\ tx[t].step = "reviews"
    /\ Reviews \subseteq tx[t].seen
    /\ tx[t].claim \in gaps
    /\ Free(CandidateOf[tx[t].claim])
    /\ accepted' = accepted \cup {[claim |-> tx[t].claim, dimension |-> d, print |-> tx[t].seen]}
    /\ End(t)
    /\ UNCHANGED <<reviewVars, gapVars, conflicts>>

-----------------------------------------------------------------------------

Continue(t) ==
    \/ CreateConflict(t)
    \/ RefuseConflict(t)
    \/ DeadlockVictim(t)
    \/ ReadReviews(t)
    \/ FindEligible(t)
    \/ FindBlocked(t)
    \/ UseEligible(t)
    \/ \E d \in Unresolved : RecordAcceptance(t, d)

Session(t) ==
    \/ \E p \in Suspected : ReadLowerClaim(t, p[1], p[2])
    \/ \E c \in Evaluated : BeginEvaluation(t, c)
    \/ Continue(t)
    \/ Rollback(t)

Call(c) ==
    \/ ProposeClaim(c)
    \/ GenerateGaps(c)
    \/ CompleteEvidenceReview(c)
    \/ CompleteClaimReview(c)

Next ==
    \/ \E k \in Candidates : ExtractEvidence(k)
    \/ \E c \in Claims : Call(c)
    \/ \E c \in Evaluated, d \in ClientAnswerable : CompleteFollowup(c, d)
    \/ \E t \in Sessions : Session(t)

Spec == Init /\ [][Next]_vars

\* PostgreSQL queues those who wait for a row and a transaction that can go on
\* does; nobody has to make a call.
FairSpec == Spec /\ \A t \in Sessions : SF_vars(Continue(t))

-----------------------------------------------------------------------------

TypeOK ==
    /\ evidence \in [Claims -> Statuses]
    /\ claim \in [Claims -> Statuses]
    /\ gaps \subseteq Claims
    /\ answered \subseteq Claims \X ClientAnswerable
    /\ accepted \subseteq Acceptances
    /\ conflicts \subseteq Suspected
    /\ tx \in [Sessions -> Transactions]

\* A claim that is eligible stays eligible: no conflict can be raised once it
\* is approved and accepted, although a conflict looks at the review of its
\* lower claim and then waits for another lock.  Drafts and export candidates
\* rely on it: they evaluate their claims without a lock and write what they
\* make of it later.
EligibleStaysEligible ==
    [][\A c \in Claims : Eligible(c) => Eligible(c)']_vars

\* An evaluation that finds a claim eligible is right, although each of its
\* statements sees another snapshot: the reviews are read before the conflicts,
\* and no acceptance recorded for a state read half before an approval counts.
FoundIsEligible ==
    \A t \in Sessions : tx[t].step = "found" => Eligible(tx[t].claim)

\* Every transaction ends, although a conflict takes the candidates of two
\* claims in the order of the claims, so that two of them may wait crosswise.
EveryTransactionEnds ==
    \A t \in Sessions : tx[t].step # "idle" ~> tx[t].step = "idle"
=============================================================================
