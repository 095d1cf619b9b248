------------------------- MODULE ClaimReviewProofs -------------------------
(***************************************************************************)
(* Proofs about ClaimReview: that a claim found eligible is eligible and   *)
(* that a claim which is eligible stays so, for any claims, candidates,    *)
(* suspected pairs and sessions.                                           *)
(***************************************************************************)
EXTENDS ClaimReview, TLAPS

-----------------------------------------------------------------------------
(***************************************************************************)
(* The inductive invariant.  What a transaction relies on later still      *)
(* holds: the lower claim of a conflict is unreviewed, because its         *)
(* approval waits for the candidate; what an evaluation saw is true,       *)
(* because no review is taken back.                                        *)
(***************************************************************************)

LowerClaimWaits ==
    \A t \in Sessions : tx[t].step = "conflict" =>
        /\ <<tx[t].claim, tx[t].other>> \in Suspected
        /\ claim[tx[t].claim] = "needs_gk_review"

SeenIsTrue ==
    \A t \in Sessions : tx[t].step \in {"rows", "reviews", "found"} =>
        /\ tx[t].claim \in Claims
        /\ tx[t].seen \subseteq FactsOf(tx[t].claim)

Inv == TypeOK /\ LowerClaimWaits /\ SeenIsTrue /\ FoundIsEligible

\* What every step does to the tables: rows are only added, reviews only
\* completed, and a new conflict is one of two unreviewed claims.
Grows ==
    /\ \A c \in Claims : evidence[c] = "resolved" => evidence'[c] = "resolved"
    /\ \A c \in Claims : claim[c] = "resolved" => claim'[c] = "resolved"
    /\ gaps \subseteq gaps' /\ answered \subseteq answered' /\ accepted \subseteq accepted'
    /\ \A p \in conflicts' \ conflicts :
          claim[p[1]] = "needs_gk_review" /\ claim[p[2]] = "needs_gk_review"

\* A suspected pair is a pair of claims.
LEMMA PairsAreClaims ==
    ASSUME NEW p \in Suspected
    PROVE  p[1] \in Claims /\ p[2] \in Claims
BY SuspectedArePairs

\* Whatever is known of a claim stays known.
LEMMA FactsGrow ==
    ASSUME Grows, NEW c \in Claims
    PROVE  FactsOf(c) \subseteq FactsOf(c)'
BY DEF Grows, FactsOf

\* The facts of a claim are facts, and with all of them it is approved.
LEMMA AllFactsMeanApproved ==
    ASSUME NEW c \in Claims
    PROVE  /\ FactsOf(c) \subseteq Facts
           /\ FactsOf(c) = Facts => claim[c] = "resolved"
BY DEF FactsOf, Facts, Strengths, Reviews

\* A step that only adds does not end the eligibility of a claim.
LEMMA GrowthKeepsEligible ==
    ASSUME TypeOK, Grows, NEW c \in Claims, Eligible(c)
    PROVE  Eligible(c)'
<1>1. FactsOf(c)' = Facts
    <2>1. FactsOf(c)' \subseteq Facts
        BY DEF FactsOf, Facts, Strengths, Reviews
    <2>2. FactsOf(c) = Facts
        BY DEF Eligible
    <2> QED
        BY <2>1, <2>2, FactsGrow
<1>2. c \in gaps' /\ AcceptedWith(c, Facts)' /\ FollowupsResolved(c)'
    BY DEF Eligible, Grows, AcceptedWith, FollowupsResolved
<1>3. ~Conflicted(c)'
    <2>1. claim[c] # "needs_gk_review"
        BY AllFactsMeanApproved DEF Eligible
    <2> SUFFICES ASSUME NEW p \in conflicts', c \in {p[1], p[2]}
                 PROVE  FALSE
        BY DEF Conflicted
    <2>2. p \notin conflicts
        BY DEF Eligible, Conflicted
    <2> QED
        BY <2>1, <2>2 DEF Grows
<1> QED
    BY <1>1, <1>2, <1>3 DEF Eligible

-----------------------------------------------------------------------------
(***************************************************************************)
(* Steps that leave the transactions alone, and steps that end one.        *)
(***************************************************************************)

\* A call that locks one candidate keeps the invariant when no conflict waits
\* with a claim that it approves.
LEMMA CallKeepsInv ==
    ASSUME Inv, Grows, TypeOK', UNCHANGED tx, LowerClaimWaits'
    PROVE  Inv'
<1>1. SeenIsTrue'
    <2> SUFFICES ASSUME NEW t \in Sessions, tx[t].step \in {"rows", "reviews", "found"}
                 PROVE  tx[t].claim \in Claims /\ tx[t].seen \subseteq FactsOf(tx[t].claim)'
        BY DEF SeenIsTrue
    <2>1. tx[t].claim \in Claims /\ tx[t].seen \subseteq FactsOf(tx[t].claim)
        BY DEF Inv, SeenIsTrue
    <2> QED
        BY <2>1, FactsGrow
<1>2. FoundIsEligible'
    <2> SUFFICES ASSUME NEW t \in Sessions, tx[t].step = "found"
                 PROVE  Eligible(tx[t].claim)'
        BY DEF FoundIsEligible
    <2>1. tx[t].claim \in Claims /\ Eligible(tx[t].claim)
        BY DEF Inv, SeenIsTrue, FoundIsEligible
    <2> QED
        BY <2>1, GrowthKeepsEligible DEF Inv
<1> QED
    BY <1>1, <1>2 DEF Inv

\* What holds of the transaction of session t.
Sound(t) ==
    /\ tx[t].step = "conflict" =>
          /\ <<tx[t].claim, tx[t].other>> \in Suspected
          /\ claim[tx[t].claim] = "needs_gk_review"
    /\ tx[t].step \in {"rows", "reviews", "found"} =>
          tx[t].claim \in Claims /\ tx[t].seen \subseteq FactsOf(tx[t].claim)
    /\ tx[t].step = "found" => Eligible(tx[t].claim)

\* A step of a session keeps the invariant when it writes no review and leaves
\* its own transaction sound.
LEMMA SessionKeepsInv ==
    ASSUME Inv, Grows, UNCHANGED reviewVars, TypeOK', NEW t \in Sessions,
           \A u \in Sessions \ {t} : tx'[u] = tx[u], Sound(t)'
    PROVE  Inv'
<1>1. ASSUME NEW u \in Sessions \ {t}
      PROVE  Sound(u)'
    <2>1. tx'[u] = tx[u]
        OBVIOUS
    <2>2. Sound(u)
        BY DEF Inv, LowerClaimWaits, SeenIsTrue, FoundIsEligible, Sound
    <2>3. tx[u].step = "found" => Eligible(tx[u].claim)'
        <3> SUFFICES ASSUME tx[u].step = "found" PROVE Eligible(tx[u].claim)'
            OBVIOUS
        <3>1. tx[u].claim \in Claims /\ Eligible(tx[u].claim)
            BY <2>2 DEF Sound
        <3> QED
            BY <3>1, GrowthKeepsEligible DEF Inv
    <2>4. FactsOf(tx[u].claim)' = FactsOf(tx'[u].claim) /\ claim' = claim
        BY DEF reviewVars, FactsOf
    <2> QED
        BY <2>1, <2>2, <2>3, <2>4 DEF Sound
<1>2. Inv' <=> TypeOK' /\ \A u \in Sessions : Sound(u)'
    BY DEF Inv, LowerClaimWaits, SeenIsTrue, FoundIsEligible, Sound
<1> QED
    BY <1>1, <1>2

-----------------------------------------------------------------------------
(***************************************************************************)
(* Every action keeps the invariant and only adds.                         *)
(***************************************************************************)

LEMMA ExtractStep ==
    ASSUME Inv, NEW k \in Candidates, ExtractEvidence(k)
    PROVE  Inv' /\ Grows
<1>1. TypeOK'
    BY DEF Inv, TypeOK, ExtractEvidence, gapVars, Statuses
<1>2. Grows
    BY DEF Inv, TypeOK, ExtractEvidence, gapVars, Grows
<1>3. LowerClaimWaits' /\ UNCHANGED tx
    BY DEF Inv, LowerClaimWaits, ExtractEvidence
<1> QED
    BY <1>1, <1>2, <1>3, CallKeepsInv

LEMMA ProposeStep ==
    ASSUME Inv, NEW c \in Claims, ProposeClaim(c)
    PROVE  Inv' /\ Grows
<1>1. TypeOK'
    BY DEF Inv, TypeOK, ProposeClaim, gapVars, Statuses
<1>2. Grows
    BY DEF Inv, TypeOK, ProposeClaim, gapVars, Grows
<1>3. LowerClaimWaits' /\ UNCHANGED tx
    BY DEF Inv, TypeOK, LowerClaimWaits, ProposeClaim
<1> QED
    BY <1>1, <1>2, <1>3, CallKeepsInv

LEMMA GapsStep ==
    ASSUME Inv, NEW c \in Claims, GenerateGaps(c)
    PROVE  Inv' /\ Grows
<1>1. TypeOK'
    BY DEF Inv, TypeOK, GenerateGaps, reviewVars
<1>2. Grows
    BY DEF GenerateGaps, reviewVars, Grows
<1>3. LowerClaimWaits' /\ UNCHANGED tx
    BY DEF Inv, LowerClaimWaits, GenerateGaps, reviewVars
<1> QED
    BY <1>1, <1>2, <1>3, CallKeepsInv

LEMMA FollowupStep ==
    ASSUME Inv, NEW c \in Evaluated, NEW d \in ClientAnswerable, CompleteFollowup(c, d)
    PROVE  Inv' /\ Grows
<1>1. TypeOK'
    BY EvaluatedAreClaims DEF Inv, TypeOK, CompleteFollowup, reviewVars
<1>2. Grows
    BY DEF CompleteFollowup, reviewVars, Grows
<1>3. LowerClaimWaits' /\ UNCHANGED tx
    BY DEF Inv, LowerClaimWaits, CompleteFollowup, reviewVars
<1> QED
    BY <1>1, <1>2, <1>3, CallKeepsInv

LEMMA EvidenceReviewStep ==
    ASSUME Inv, NEW c \in Claims, CompleteEvidenceReview(c)
    PROVE  Inv' /\ Grows
<1>1. TypeOK'
    BY DEF Inv, TypeOK, CompleteEvidenceReview, gapVars, Statuses
<1>2. Grows
    BY DEF Inv, TypeOK, CompleteEvidenceReview, gapVars, Grows
<1>3. LowerClaimWaits' /\ UNCHANGED tx
    BY DEF Inv, LowerClaimWaits, CompleteEvidenceReview
<1> QED
    BY <1>1, <1>2, <1>3, CallKeepsInv

\* The approval of a claim waits while a conflict holds its candidate.
LEMMA ClaimReviewStep ==
    ASSUME Inv, NEW c \in Claims, CompleteClaimReview(c)
    PROVE  Inv' /\ Grows
<1>1. TypeOK'
    BY DEF Inv, TypeOK, CompleteClaimReview, gapVars, Statuses
<1>2. Grows
    BY DEF Inv, TypeOK, CompleteClaimReview, gapVars, Grows
<1>3. LowerClaimWaits' /\ UNCHANGED tx
    <2>1. UNCHANGED tx
        BY DEF CompleteClaimReview
    <2> SUFFICES ASSUME NEW t \in Sessions, tx[t].step = "conflict"
                 PROVE  /\ <<tx[t].claim, tx[t].other>> \in Suspected
                        /\ claim'[tx[t].claim] = "needs_gk_review"
        BY <2>1 DEF LowerClaimWaits
    <2>2. /\ <<tx[t].claim, tx[t].other>> \in Suspected
          /\ claim[tx[t].claim] = "needs_gk_review"
        BY DEF Inv, LowerClaimWaits
    <2>3. tx[t].claim \in Claims
        BY <2>2, PairsAreClaims
    <2>4. tx[t].claim # c
        BY DEF CompleteClaimReview, Free, Holds
    <2> QED
        BY <2>2, <2>3, <2>4 DEF CompleteClaimReview, Inv, TypeOK
<1> QED
    BY <1>1, <1>2, <1>3, CallKeepsInv

\* A transaction that ends leaves nothing to be sound.
LEMMA EndStep ==
    ASSUME Inv, Grows, NEW t \in Sessions, End(t), UNCHANGED <<reviewVars, gapVars>>,
           accepted' \subseteq Acceptances, conflicts' \subseteq Suspected
    PROVE  Inv'
<1>1. tx' \in [Sessions -> Transactions]
    BY DEF Inv, TypeOK, End, Idle, Transactions, Steps
<1>2. TypeOK'
    BY <1>1 DEF Inv, TypeOK, reviewVars, gapVars
<1>3. /\ \A u \in Sessions \ {t} : tx'[u] = tx[u]
      /\ tx'[t] = Idle
    BY DEF Inv, TypeOK, End
<1>4. Sound(t)'
    BY <1>3 DEF Sound, Idle
<1> QED
    BY <1>2, <1>3, <1>4, SessionKeepsInv

LEMMA RollbackStep ==
    ASSUME Inv, NEW t \in Sessions, Rollback(t)
    PROVE  Inv' /\ Grows
<1>1. Grows
    BY DEF Rollback, Grows, reviewVars, gapVars
<1>2. accepted' \subseteq Acceptances /\ conflicts' \subseteq Suspected
    BY DEF Inv, TypeOK, Rollback
<1> QED
    BY <1>1, <1>2, EndStep DEF Rollback

LEMMA CreateConflictStep ==
    ASSUME Inv, NEW t \in Sessions, CreateConflict(t)
    PROVE  Inv' /\ Grows
<1> DEFINE pair == <<tx[t].claim, tx[t].other>>
<1>1. pair \in Suspected /\ claim[pair[1]] = "needs_gk_review"
    BY DEF Inv, LowerClaimWaits, CreateConflict
<1>2. claim[pair[2]] = "needs_gk_review"
    BY DEF CreateConflict, MayConflict
<1>3. conflicts' = conflicts \cup {pair}
    BY DEF CreateConflict
<1>4. Grows
    BY <1>1, <1>2, <1>3 DEF CreateConflict, Grows, reviewVars, gapVars
<1>5. accepted' \subseteq Acceptances /\ conflicts' \subseteq Suspected
    BY <1>1, <1>3 DEF Inv, TypeOK, CreateConflict
<1> QED
    BY <1>4, <1>5, EndStep DEF CreateConflict

LEMMA AcceptanceStep ==
    ASSUME Inv, NEW t \in Sessions, NEW d \in Unresolved, RecordAcceptance(t, d)
    PROVE  Inv' /\ Grows
<1>1. Grows
    BY DEF RecordAcceptance, Grows, reviewVars, gapVars
<1>2. tx[t].claim \in Claims /\ tx[t].seen \in SUBSET Facts
    BY DEF Inv, TypeOK, SeenIsTrue, RecordAcceptance, Transactions
<1>3. accepted' \subseteq Acceptances /\ conflicts' \subseteq Suspected
    BY <1>2 DEF Inv, TypeOK, RecordAcceptance, Acceptances
<1> QED
    BY <1>1, <1>3, EndStep DEF RecordAcceptance

\* A step that moves a transaction on and writes nothing.
LEMMA MoveStep ==
    ASSUME Inv, NEW t \in Sessions, UNCHANGED <<reviewVars, gapVars, accepted, conflicts>>,
           tx' \in [Sessions -> Transactions],
           \A u \in Sessions \ {t} : tx'[u] = tx[u], Sound(t)'
    PROVE  Inv' /\ Grows
<1>1. Grows
    BY DEF Grows, reviewVars, gapVars
<1>2. TypeOK'
    BY DEF Inv, TypeOK, reviewVars, gapVars
<1> QED
    BY <1>1, <1>2, SessionKeepsInv

LEMMA LowerClaimStep ==
    ASSUME Inv, NEW t \in Sessions, NEW p \in Suspected, ReadLowerClaim(t, p[1], p[2])
    PROVE  Inv' /\ Grows
<1>1. p[1] \in Claims /\ p[2] \in Claims /\ <<p[1], p[2]>> = p
    BY SuspectedArePairs
<1>2. /\ tx' \in [Sessions -> Transactions]
      /\ \A u \in Sessions \ {t} : tx'[u] = tx[u]
      /\ tx'[t] = [step |-> "conflict", claim |-> p[1], other |-> p[2], seen |-> {}]
    BY <1>1 DEF Inv, TypeOK, ReadLowerClaim, Open, Idle, Transactions, Steps
<1>3. claim'[p[1]] = "needs_gk_review"
    BY DEF ReadLowerClaim, MayConflict, reviewVars
<1>4. Sound(t)'
    BY <1>1, <1>2, <1>3 DEF Sound
<1>5. UNCHANGED <<reviewVars, gapVars, accepted, conflicts>>
    BY DEF ReadLowerClaim
<1> QED
    BY <1>2, <1>4, <1>5, MoveStep

LEMMA BeginEvaluationStep ==
    ASSUME Inv, NEW t \in Sessions, NEW c \in Evaluated, BeginEvaluation(t, c)
    PROVE  Inv' /\ Grows
<1>1. c \in Claims
    BY EvaluatedAreClaims
<1>2. /\ tx' \in [Sessions -> Transactions]
      /\ \A u \in Sessions \ {t} : tx'[u] = tx[u]
      /\ tx'[t] = [step |-> "rows", claim |-> c, other |-> NoClaim,
                   seen |-> FactsOf(c) \cap Strengths]
    BY <1>1 DEF Inv, TypeOK, BeginEvaluation, Open, Idle, Transactions, Steps, Facts
<1>3. UNCHANGED <<reviewVars, gapVars, accepted, conflicts>>
    BY DEF BeginEvaluation
<1>4. FactsOf(c)' = FactsOf(c)
    BY <1>3 DEF FactsOf, reviewVars
<1>5. Sound(t)'
    BY <1>1, <1>2, <1>4 DEF Sound, FactsOf, reviewVars
<1> QED
    BY <1>2, <1>3, <1>5, MoveStep

LEMMA ReadReviewsStep ==
    ASSUME Inv, NEW t \in Sessions, ReadReviews(t)
    PROVE  Inv' /\ Grows
<1> DEFINE c == tx[t].claim
<1>1. c \in Claims /\ tx[t].seen \subseteq FactsOf(c)
    BY DEF Inv, SeenIsTrue, ReadReviews
<1>2. tx[t] \in Transactions
    BY DEF Inv, TypeOK
<1>3. /\ tx' \in [Sessions -> Transactions]
      /\ \A u \in Sessions \ {t} : tx'[u] = tx[u]
      /\ tx'[t].step = "reviews" /\ tx'[t].claim = c
      /\ tx'[t].seen = tx[t].seen \cup (FactsOf(c) \cap Reviews)
    BY <1>2 DEF Inv, TypeOK, ReadReviews, Transactions, Steps, Facts
<1>4. UNCHANGED <<reviewVars, gapVars, accepted, conflicts>>
    BY DEF ReadReviews
<1>5. FactsOf(c)' = FactsOf(tx'[t].claim)
    BY <1>3, <1>4 DEF FactsOf, reviewVars
<1>6. Sound(t)'
    BY <1>1, <1>3, <1>4 DEF Sound, FactsOf, reviewVars
<1> QED
    BY <1>3, <1>4, <1>6, MoveStep

\* What was seen, piece by piece, is true at the end.
LEMMA FindEligibleStep ==
    ASSUME Inv, NEW t \in Sessions, FindEligible(t)
    PROVE  Inv' /\ Grows
<1> DEFINE c == tx[t].claim
<1>1. c \in Claims /\ tx[t].seen \subseteq FactsOf(c)
    BY DEF Inv, SeenIsTrue, FindEligible
<1>2. tx[t] \in Transactions
    BY DEF Inv, TypeOK
<1>3. /\ tx' \in [Sessions -> Transactions]
      /\ \A u \in Sessions \ {t} : tx'[u] = tx[u]
      /\ tx'[t].step = "found" /\ tx'[t].claim = c /\ tx'[t].seen = tx[t].seen
    BY <1>2 DEF Inv, TypeOK, FindEligible, Transactions, Steps
<1>4. UNCHANGED <<reviewVars, gapVars, accepted, conflicts>>
    BY DEF FindEligible
<1>5. Eligible(c)
    <2>1. FactsOf(c) = Facts
        BY <1>1, AllFactsMeanApproved DEF FindEligible, Passes
    <2> QED
        BY <2>1 DEF FindEligible, Passes, Eligible
<1>6. Sound(t)'
    BY <1>1, <1>3, <1>4, <1>5
       DEF Sound, FactsOf, Eligible, AcceptedWith, FollowupsResolved, Conflicted, reviewVars, gapVars
<1> QED
    BY <1>3, <1>4, <1>6, MoveStep

LEMMA Step ==
    ASSUME Inv, [Next]_vars
    PROVE  Inv' /\ Grows
<1>1. CASE UNCHANGED vars
    <2>1. Grows
        BY <1>1 DEF vars, reviewVars, gapVars, Grows
    <2>2. TypeOK'
        BY <1>1 DEF Inv, TypeOK, vars, reviewVars, gapVars
    <2>3. LowerClaimWaits' /\ UNCHANGED tx
        BY <1>1 DEF Inv, LowerClaimWaits, vars, reviewVars, gapVars
    <2> QED
        BY <2>1, <2>2, <2>3, CallKeepsInv
<1>2. ASSUME NEW k \in Candidates, ExtractEvidence(k)
      PROVE  Inv' /\ Grows
    BY <1>2, ExtractStep
<1>3. ASSUME NEW c \in Claims, Call(c)
      PROVE  Inv' /\ Grows
    BY <1>3, ProposeStep, GapsStep, EvidenceReviewStep, ClaimReviewStep DEF Call
<1>4. ASSUME NEW c \in Evaluated, NEW d \in ClientAnswerable, CompleteFollowup(c, d)
      PROVE  Inv' /\ Grows
    BY <1>4, FollowupStep
<1>5. ASSUME NEW t \in Sessions, Session(t)
      PROVE  Inv' /\ Grows
    <2>1. CASE \E p \in Suspected : ReadLowerClaim(t, p[1], p[2])
        BY <2>1, LowerClaimStep
    <2>2. CASE \E c \in Evaluated : BeginEvaluation(t, c)
        BY <2>2, BeginEvaluationStep
    <2>3. CASE Continue(t)
        <3>1. CASE CreateConflict(t)
            BY <3>1, CreateConflictStep
        <3>2. CASE RefuseConflict(t) \/ DeadlockVictim(t) \/ FindBlocked(t) \/ UseEligible(t)
            BY <3>2, RollbackStep DEF RefuseConflict, DeadlockVictim, FindBlocked, UseEligible
        <3>3. CASE ReadReviews(t)
            BY <3>3, ReadReviewsStep
        <3>4. CASE FindEligible(t)
            BY <3>4, FindEligibleStep
        <3>5. CASE \E d \in Unresolved : RecordAcceptance(t, d)
            BY <3>5, AcceptanceStep
        <3> QED
            BY <2>3, <3>1, <3>2, <3>3, <3>4, <3>5 DEF Continue
    <2>4. CASE Rollback(t)
        BY <2>4, RollbackStep
    <2> QED
        BY <1>5, <2>1, <2>2, <2>3, <2>4 DEF Session
<1> QED
    BY <1>1, <1>2, <1>3, <1>4, <1>5 DEF Next

-----------------------------------------------------------------------------
(***************************************************************************)
(* The theorems.                                                           *)
(***************************************************************************)

\* The inductive invariant: what the transactions rely on holds.
THEOREM Invariance == Spec => []Inv
<1>1. Init => Inv
    BY DEF Init, Inv, TypeOK, LowerClaimWaits, SeenIsTrue, FoundIsEligible, Idle,
           Statuses, Transactions, Steps
<1>2. Inv /\ [Next]_vars => Inv'
    BY Step
<1> QED
    BY <1>1, <1>2, PTL DEF Spec

\* Reviews, gaps, acceptances, conflicts and transactions keep their types.
THEOREM TypeCorrect == Spec => []TypeOK
<1>1. Inv => TypeOK
    BY DEF Inv
<1> QED
    BY <1>1, Invariance, PTL

\* An evaluation that finds a claim eligible, statement by statement, is right.
THEOREM EvaluationIsRight == Spec => []FoundIsEligible
<1>1. Inv => FoundIsEligible
    BY DEF Inv
<1> QED
    BY <1>1, Invariance, PTL

\* No conflict, and nothing else, ends the eligibility of a claim.
THEOREM EligibilityIsFinal == Spec => EligibleStaysEligible
<1>1. Inv /\ [Next]_vars => [\A c \in Claims : Eligible(c) => Eligible(c)']_vars
    BY Step, GrowthKeepsEligible DEF Inv
<1> QED
    BY <1>1, Invariance, PTL DEF Spec, EligibleStaysEligible
=============================================================================
