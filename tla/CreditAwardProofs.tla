------------------------- MODULE CreditAwardProofs -------------------------
(***************************************************************************)
(* The safety of CreditAward for every set of shifts, requests and         *)
(* sessions, and that of the wallet it fills for every set of offers,      *)
(* costs and connections.                                                  *)
(***************************************************************************)
EXTENDS WalletRedemption, SumProofs, TLAPS

USE NotAShift, NotASlot
USE DEF Verifications, RequestStatuses, Notes, Ops, Steps

-----------------------------------------------------------------------------
(***************************************************************************)
(* What a step that leaves a table alone, and a payment, do to the         *)
(* predicates the invariant is written in.                                 *)
(***************************************************************************)

Safety ==
    /\ OneAwardPerShift
    /\ ApprovedIffPaid
    /\ SettledShiftHasOneRequest
    /\ VerifiedShiftHasClaim

SameRequests ==
    \A s \in Shifts, status \in RequestStatuses :
        HasRequest(s, status)' <=> HasRequest(s, status)

SamePayments ==
    \A s \in Shifts : /\ Paid(s)' <=> Paid(s)
                      /\ Credits(s)' = Credits(s)

\* Shift s, unpaid so far, gets its one credit, and no other shift does.
PaysOnce(s, note) ==
    /\ wallet' \in [Shifts -> [Notes -> Nat]]
    /\ Paid(s)'
    /\ Credits(s)' = 1
    /\ \A r \in Shifts \ {s} : /\ Paid(r)' <=> Paid(r)
                               /\ Credits(r)' = Credits(r)
    /\ \A r \in Shifts, n \in Notes :
          r # s \/ n # note => wallet'[r][n] = wallet[r][n]

LEMMA RequestsFrame == UNCHANGED request => SameRequests
BY DEF SameRequests, HasRequest

LEMMA PaymentsFrame == UNCHANGED wallet => SamePayments
BY DEF SamePayments, Paid, Credits

LEMMA PayOnce ==
    ASSUME TypeOK, NEW s \in Shifts, NEW note \in Notes, ~Paid(s), Pay(s, note)
    PROVE  PaysOnce(s, note)
<1> USE DEF TypeOK, Pay
<1>1. wallet' \in [Shifts -> [Notes -> Nat]]
  OBVIOUS
<1>2. /\ wallet[s]["verify"] \in Nat
      /\ wallet[s]["org"] \in Nat
      /\ wallet[s]["admin"] \in Nat
  OBVIOUS
<1>3. /\ wallet[s]["verify"] = 0
      /\ wallet[s]["org"] = 0
      /\ wallet[s]["admin"] = 0
  BY ONLY <1>2, ~Paid(s) DEF Paid, Credits
<1>4. Credits(s)' = 1
  BY <1>3 DEF Credits
<1>5. Paid(s)'
  BY <1>4 DEF Paid
<1>6. \A r \in Shifts \ {s} : wallet'[r] = wallet[r]
  OBVIOUS
<1>7. \A r \in Shifts \ {s} : Credits(r)' = Credits(r)
  BY <1>6 DEF Credits
<1>8. \A r \in Shifts \ {s} : Paid(r)' <=> Paid(r)
  BY <1>7 DEF Paid
<1>9. \A r \in Shifts, n \in Notes :
         r # s \/ n # note => wallet'[r][n] = wallet[r][n]
  OBVIOUS
<1> QED
  BY <1>1, <1>4, <1>5, <1>7, <1>8, <1>9 DEF PaysOnce

LEMMA SafetyFrame ==
    ASSUME Safety, UNCHANGED <<verification, request, wallet>>
    PROVE  Safety'
BY DEF Safety, OneAwardPerShift, ApprovedIffPaid, SettledShiftHasOneRequest,
       VerifiedShiftHasClaim, HasRequest, Paid, Credits

LEMMA SplitInv ==
    IInv <=> /\ TypeOK
             /\ \A t \in Sessions : WellFormed(t)
             /\ LocksExclude
             /\ ReadsStillHold
             /\ Safety
BY DEF IInv, Safety

LEMMA InitInv == Init => IInv
<1> SUFFICES ASSUME Init PROVE IInv
  OBVIOUS
<1>1. TypeOK
  BY DEF Init, TypeOK, Idle, Transactions
<1>2. \A t \in Sessions : WellFormed(t)
  BY DEF Init, WellFormed, Idle
<1>3. LocksExclude /\ ReadsStillHold
  BY DEF Init, LocksExclude, ReadsStillHold, Exclusive, StillHolds,
         HoldsRsvpRow, HoldsAdvisory, HoldsAwardKey, Idle
<1>4. Safety
  BY DEF Init, Safety, OneAwardPerShift, ApprovedIffPaid, SettledShiftHasOneRequest,
         VerifiedShiftHasClaim, HasRequest, Paid, Credits
<1> QED
  BY <1>1, <1>2, <1>3, <1>4, SplitInv

-----------------------------------------------------------------------------
(***************************************************************************)
(* Steps of one session: what becomes of the facts about the others.       *)
(***************************************************************************)

\* Session t goes on as r: only its own facts have to be shown again.
Becomes(t, r) ==
    /\ r \in Transactions
    /\ tx' = [tx EXCEPT ![t] = r]

LEMMA BecomesTx ==
    ASSUME IInv, NEW t \in Sessions, NEW r, Becomes(t, r), WellFormed(t)',
           \A u \in Sessions \ {t} : tx[u].shift = r.shift => Exclusive(t, u)'
    PROVE  /\ tx' \in [Sessions -> Transactions]
           /\ tx'[t] = r
           /\ \A u \in Sessions \ {t} : tx'[u] = tx[u]
           /\ (\A u \in Sessions : WellFormed(u))'
           /\ LocksExclude'
<1>1. /\ tx' \in [Sessions -> Transactions]
      /\ tx'[t] = r
      /\ \A u \in Sessions \ {t} : tx'[u] = tx[u]
  BY DEF IInv, TypeOK, Becomes
<1>2. ASSUME NEW u \in Sessions PROVE WellFormed(u)'
  <2>1. CASE u = t
    BY <2>1
  <2>2. CASE u # t
    <3>1. tx'[u] = tx[u] /\ WellFormed(u)
      BY <1>1, <2>2 DEF IInv
    <3> QED
      BY <3>1 DEF WellFormed
  <2> QED
    BY <2>1, <2>2
<1>3. ASSUME NEW u \in Sessions, NEW v \in Sessions, u # v,
             tx'[u].shift = tx'[v].shift
      PROVE  Exclusive(u, v)'
  <2>1. CASE u = t
    BY <1>1, <1>3, <2>1
  <2>2. CASE v = t
    <3>1. Exclusive(v, u)'
      BY <1>1, <1>3, <2>2
    <3> QED
      BY <3>1 DEF Exclusive
  <2>3. CASE u # t /\ v # t
    <3>1. tx'[u] = tx[u] /\ tx'[v] = tx[v] /\ Exclusive(u, v)
      BY <1>1, <1>3, <2>3 DEF IInv, LocksExclude
    <3> QED
      BY <3>1 DEF Exclusive, HoldsRsvpRow, HoldsAdvisory, HoldsAwardKey
  <2> QED
    BY <2>1, <2>2, <2>3
<1>4. LocksExclude'
  BY <1>3 DEF LocksExclude
<1> QED
  BY <1>1, <1>2, <1>4

LEMMA MoveInv ==
    ASSUME IInv, NEW t \in Sessions, NEW r, Becomes(t, r), WellFormed(t)',
           UNCHANGED <<verification, request, wallet>>,
           \A u \in Sessions \ {t} : tx[u].shift = r.shift => Exclusive(t, u)',
           \A s \in Shifts : r.shift = s => StillHolds(t, s)'
    PROVE  IInv'
<1>1. /\ tx' \in [Sessions -> Transactions]
      /\ tx'[t] = r
      /\ \A u \in Sessions \ {t} : tx'[u] = tx[u]
      /\ (\A u \in Sessions : WellFormed(u))'
      /\ LocksExclude'
  BY BecomesTx
<1>2. TypeOK'
  BY <1>1 DEF IInv, TypeOK
<1>3. SameRequests /\ SamePayments
  BY RequestsFrame, PaymentsFrame
<1>4. Safety'
  BY SafetyFrame, SplitInv
<1>5. ASSUME NEW u \in Sessions, NEW s \in Shifts, tx'[u].shift = s
      PROVE  StillHolds(u, s)'
  <2>1. CASE u = t
    BY <1>1, <1>5, <2>1
  <2>2. CASE u # t
    <3>1. tx'[u] = tx[u] /\ StillHolds(u, s)
      BY <1>1, <1>5, <2>2 DEF IInv, ReadsStillHold
    <3>2. /\ HasRequest(s, "approved")' <=> HasRequest(s, "approved")
          /\ Paid(s)' <=> Paid(s)
      BY <1>3 DEF SameRequests, SamePayments
    <3> QED
      BY <3>1, <3>2 DEF StillHolds
  <2> QED
    BY <2>1, <2>2
<1>6. ReadsStillHold'
  BY <1>5 DEF ReadsStillHold
<1> QED
  BY <1>1, <1>2, <1>4, <1>6 DEF IInv, Safety

\* An ended transaction keeps nothing and shares nothing.
LEMMA IdleFacts ==
    ASSUME NEW t \in Sessions, tx'[t] = Idle
    PROVE  /\ Idle \in Transactions
           /\ WellFormed(t)'
           /\ \A u \in Sessions : Exclusive(t, u)'
           /\ \A s \in Shifts : StillHolds(t, s)'
BY DEF Idle, Transactions, WellFormed, Exclusive, StillHolds,
       HoldsRsvpRow, HoldsAdvisory, HoldsAwardKey

LEMMA EndTx ==
    ASSUME IInv, NEW t \in Sessions, End(t)
    PROVE  /\ tx' \in [Sessions -> Transactions]
           /\ tx'[t] = Idle
           /\ Becomes(t, Idle)
           /\ \A u \in Sessions \ {t} : tx'[u] = tx[u]
           /\ (\A u \in Sessions : WellFormed(u))'
           /\ LocksExclude'
           /\ \A s \in Shifts : StillHolds(t, s)'
<1>1. tx'[t] = Idle
  BY DEF End, IInv, TypeOK
<1>2. Becomes(t, Idle)
  BY <1>1, IdleFacts DEF End, Becomes
<1> QED
  BY <1>1, <1>2, IdleFacts, BecomesTx

LEMMA EndInv ==
    ASSUME IInv, NEW t \in Sessions, End(t),
           UNCHANGED <<verification, request, wallet>>
    PROVE  IInv'
BY EndTx, IdleFacts, MoveInv, Zenon

-----------------------------------------------------------------------------
(***************************************************************************)
(* The statements of a transaction that write nothing yet.                 *)
(***************************************************************************)

LEMMA BeginVerifyInv ==
    ASSUME IInv, NEW t \in Sessions, NEW s \in Shifts, BeginVerify(t, s)
    PROVE  IInv'
<1> DEFINE r == [op |-> "verify", step |-> "advisory", shift |-> s,
                 slot |-> NoSlot, award |-> FALSE]
<1>1. Becomes(t, r) /\ tx'[t] = r
  BY DEF BeginVerify, Start, Becomes, Transactions, IInv, TypeOK
<1>2. WellFormed(t)'
  BY <1>1 DEF WellFormed, VerifySteps
<1>3. ASSUME NEW u \in Sessions \ {t}, tx[u].shift = s PROVE Exclusive(t, u)'
  <2>1. tx'[u] = tx[u]
    BY <1>1 DEF Becomes, IInv, TypeOK
  <2>2. ~HoldsRsvpRow(u)
    BY <1>3 DEF BeginVerify, RsvpRowFree
  <2> QED
    BY <1>1, <2>1, <2>2 DEF Exclusive, HoldsRsvpRow, HoldsAdvisory, HoldsAwardKey
<1>4. \A q \in Shifts : r.shift = q => StillHolds(t, q)'
  BY <1>1 DEF StillHolds
<1> QED
  BY <1>1, <1>2, <1>3, <1>4, MoveInv DEF BeginVerify

LEMMA BeginApproveInv ==
    ASSUME IInv, NEW t \in Sessions, NEW s \in Shifts, NEW k \in Slots,
           BeginApprove(t, s, k)
    PROVE  IInv'
<1> DEFINE r == [op |-> "approve", step |-> "advisory", shift |-> s,
                 slot |-> k, award |-> FALSE]
<1>1. Becomes(t, r) /\ tx'[t] = r
  BY DEF BeginApprove, Start, Becomes, Transactions, IInv, TypeOK
<1>2. WellFormed(t)'
  BY <1>1 DEF WellFormed, ApproveSteps
<1>3. ASSUME NEW u \in Sessions \ {t}, tx[u].shift = s PROVE Exclusive(t, u)'
  <2>1. tx'[u] = tx[u]
    BY <1>1 DEF Becomes, IInv, TypeOK
  <2>2. ~(tx[u].op = "approve" /\ tx[u].slot = k)
    BY <1>3 DEF BeginApprove, RequestRowFree
  <2> QED
    BY <1>1, <2>1, <2>2 DEF Exclusive, HoldsRsvpRow, HoldsAdvisory, HoldsAwardKey
<1>4. request'[s][k] = "pending"
  BY DEF BeginApprove
<1>5. \A q \in Shifts : r.shift = q => StillHolds(t, q)'
  BY <1>1, <1>4 DEF StillHolds
<1> QED
  BY <1>1, <1>2, <1>3, <1>5, MoveInv DEF BeginApprove

LEMMA BeginOrgVerifyInv ==
    ASSUME IInv, NEW t \in Sessions, NEW s \in Shifts, BeginOrgVerify(t, s)
    PROVE  IInv'
<1> DEFINE r == [op |-> "org", step |-> "lock_rsvp", shift |-> s,
                 slot |-> NoSlot, award |-> FALSE]
<1>1. Becomes(t, r) /\ tx'[t] = r
  BY DEF BeginOrgVerify, Start, Becomes, Transactions, IInv, TypeOK
<1>2. WellFormed(t)'
  BY <1>1 DEF WellFormed, OrgSteps
<1>3. \A u \in Sessions : Exclusive(t, u)'
  BY <1>1 DEF Exclusive, HoldsRsvpRow, HoldsAdvisory, HoldsAwardKey
<1>4. \A q \in Shifts : r.shift = q => StillHolds(t, q)'
  BY <1>1 DEF StillHolds
<1> QED
  BY <1>1, <1>2, <1>3, <1>4, MoveInv DEF BeginOrgVerify

\* A statement that only takes the transaction to its next one.
LEMMA GotoTx ==
    ASSUME IInv, NEW t \in Sessions, NEW step \in Steps, Goto(t, step)
    PROVE  /\ Becomes(t, tx'[t])
           /\ tx'[t].op = tx[t].op /\ tx'[t].step = step
           /\ tx'[t].shift = tx[t].shift
           /\ tx'[t].slot = tx[t].slot /\ tx'[t].award = tx[t].award
           /\ \A u \in Sessions \ {t} : tx'[u] = tx[u]
<1>1. tx \in [Sessions -> Transactions] /\ tx[t] \in Transactions
  BY DEF IInv, TypeOK
<1>2. tx' = [tx EXCEPT ![t] = [tx[t] EXCEPT !.step = step]]
  BY DEF Goto
<1> QED
  BY <1>1, <1>2 DEF Becomes, Transactions

\* Such a statement keeps the invariant when it takes no lock another session
\* holds and when what it goes on with is true.
LEMMA GotoInv ==
    ASSUME IInv, NEW t \in Sessions, NEW step \in Steps, Goto(t, step),
           UNCHANGED <<verification, request, wallet>>,
           WellFormed(t)',
           \A u \in Sessions \ {t} : tx[u].shift = tx[t].shift => Exclusive(t, u)',
           \A s \in Shifts : tx[t].shift = s => StillHolds(t, s)'
    PROVE  IInv'
<1>1. Becomes(t, tx'[t]) /\ tx'[t].shift = tx[t].shift
  BY GotoTx
<1> QED
  BY <1>1, MoveInv

\* The locks of a session that keeps its operation, its award and its request,
\* and takes neither the advisory lock nor the row.
LEMMA NoNewLock ==
    ASSUME IInv, NEW t \in Sessions, NEW step \in Steps, Goto(t, step),
           HoldsRsvpRow(t)' => HoldsRsvpRow(t),
           HoldsAdvisory(t)' => HoldsAdvisory(t),
           HoldsAwardKey(t)' => HoldsAwardKey(t),
           NEW u \in Sessions \ {t}, tx[u].shift = tx[t].shift
    PROVE  Exclusive(t, u)'
<1>1. Exclusive(t, u)
  BY DEF IInv, LocksExclude
<1>2. /\ tx'[u] = tx[u]
      /\ tx'[t].op = tx[t].op
      /\ tx'[t].slot = tx[t].slot
  BY GotoTx
<1>3. /\ HoldsRsvpRow(u)' <=> HoldsRsvpRow(u)
      /\ HoldsAdvisory(u)' <=> HoldsAdvisory(u)
      /\ HoldsAwardKey(u)' <=> HoldsAwardKey(u)
  BY <1>2 DEF HoldsRsvpRow, HoldsAdvisory, HoldsAwardKey
<1> QED
  BY <1>1, <1>2, <1>3 DEF Exclusive

LEMMA TakeAdvisoryInv ==
    ASSUME IInv, NEW t \in Sessions, TakeAdvisory(t)
    PROVE  IInv'
<1> DEFINE step == IF tx[t].op = "verify" THEN "find_award" ELSE "check_rsvp"
<1>1. Goto(t, step) /\ step \in {"find_award", "check_rsvp"} /\ step \in Steps
  BY DEF TakeAdvisory
<1>2. /\ WellFormed(t)
      /\ tx[t].step = "advisory"
      /\ tx[t].op \in {"verify", "approve"}
      /\ ~tx[t].award
  BY DEF IInv, TypeOK, Transactions, WellFormed, TakeAdvisory, OrgSteps, Idle
<1>3. /\ tx'[t].op = tx[t].op /\ tx'[t].step = step /\ tx'[t].shift = tx[t].shift
      /\ tx'[t].slot = tx[t].slot /\ tx'[t].award = tx[t].award
      /\ \A u \in Sessions \ {t} : tx'[u] = tx[u]
  BY <1>1, GotoTx
<1>4. WellFormed(t)'
  BY <1>2, <1>3 DEF WellFormed, VerifySteps, ApproveSteps
<1>5. ASSUME NEW u \in Sessions \ {t}, tx[u].shift = tx[t].shift
      PROVE  Exclusive(t, u)'
  <2>1. Exclusive(t, u) /\ ~HoldsAdvisory(u) /\ tx'[u] = tx[u]
    BY <1>3, <1>5 DEF IInv, LocksExclude, TakeAdvisory, AdvisoryFree
  <2> QED
    BY <1>1, <1>2, <1>3, <2>1 DEF Exclusive, HoldsRsvpRow, HoldsAdvisory, HoldsAwardKey
<1>6. ASSUME NEW s \in Shifts, tx[t].shift = s PROVE StillHolds(t, s)'
  <2>1. StillHolds(t, s) /\ request' = request
    BY <1>6 DEF IInv, ReadsStillHold, TakeAdvisory
  <2> QED
    BY <1>1, <1>3, <2>1 DEF StillHolds
<1> HIDE DEF step
<1> QED
  BY <1>1, <1>4, <1>5, <1>6, GotoInv DEF TakeAdvisory

\* The three lookups of a verification that find nothing.
LEMMA LookupInv ==
    ASSUME IInv, NEW t \in Sessions, NEW step \in VerifySteps \ {"advisory"},
           tx[t].step \in {"find_award", "find_pending", "find_approved"},
           Goto(t, step), UNCHANGED <<verification, request, wallet>>,
           step = "insert_request" => ~HasRequest(tx[t].shift, "approved")
    PROVE  IInv'
<1>1. step \in Steps /\ step # "commit" /\ step # "advisory"
  BY DEF VerifySteps
<1>2. WellFormed(t) /\ tx[t].op = "verify" /\ ~tx[t].award
  BY DEF IInv, TypeOK, Transactions, WellFormed, OrgSteps, ApproveSteps, Idle
<1>3. /\ tx'[t].op = tx[t].op /\ tx'[t].step = step /\ tx'[t].shift = tx[t].shift
      /\ tx'[t].slot = tx[t].slot /\ tx'[t].award = tx[t].award
  BY <1>1, GotoTx
<1>4. WellFormed(t)'
  BY <1>2, <1>3 DEF WellFormed
<1>5. /\ HoldsRsvpRow(t)' => HoldsRsvpRow(t)
      /\ HoldsAdvisory(t)' => HoldsAdvisory(t)
      /\ HoldsAwardKey(t)' => HoldsAwardKey(t)
  BY <1>1, <1>2, <1>3 DEF HoldsRsvpRow, HoldsAdvisory, HoldsAwardKey
<1>6. \A u \in Sessions \ {t} : tx[u].shift = tx[t].shift => Exclusive(t, u)'
  BY <1>1, <1>5, NoNewLock
<1>7. ASSUME NEW s \in Shifts, tx[t].shift = s PROVE StillHolds(t, s)'
  <2>1. HasRequest(s, "approved")' <=> HasRequest(s, "approved")
    BY RequestsFrame DEF SameRequests
  <2> QED
    BY <1>1, <1>2, <1>3, <1>7, <2>1 DEF StillHolds
<1> QED
  BY <1>1, <1>4, <1>6, <1>7, GotoInv

\* The statements of an approval and of the portal before their INSERT.
LEMMA CheckRsvpInv ==
    ASSUME IInv, NEW t \in Sessions, CheckRsvp(t)
    PROVE  IInv'
<1>1. CASE End(t)
  BY <1>1, EndInv DEF CheckRsvp
<1>2. CASE Goto(t, "find_or_insert")
  <2>1. WellFormed(t) /\ tx[t].op = "approve" /\ ~tx[t].award /\ tx[t].step = "check_rsvp"
    BY DEF CheckRsvp, IInv, TypeOK, Transactions, WellFormed, OrgSteps, VerifySteps, Idle
  <2>2. /\ tx'[t].op = tx[t].op /\ tx'[t].step = "find_or_insert"
        /\ tx'[t].shift = tx[t].shift
        /\ tx'[t].slot = tx[t].slot /\ tx'[t].award = tx[t].award
    BY <1>2, GotoTx
  <2>3. WellFormed(t)'
    BY <2>1, <2>2 DEF WellFormed, ApproveSteps
  <2>4. /\ HoldsRsvpRow(t)' => HoldsRsvpRow(t)
        /\ HoldsAdvisory(t)' => HoldsAdvisory(t)
        /\ HoldsAwardKey(t)' => HoldsAwardKey(t)
    BY <2>1, <2>2 DEF HoldsRsvpRow, HoldsAdvisory, HoldsAwardKey
  <2>5. \A u \in Sessions \ {t} : tx[u].shift = tx[t].shift => Exclusive(t, u)'
    BY <1>2, <2>4, NoNewLock
  <2>6. ASSUME NEW s \in Shifts, tx[t].shift = s PROVE StillHolds(t, s)'
    <3>1. StillHolds(t, s) /\ request' = request
      BY <2>6 DEF IInv, ReadsStillHold, CheckRsvp
    <3> QED
      BY <2>1, <2>2, <3>1 DEF StillHolds
  <2> QED
    BY <1>2, <2>3, <2>5, <2>6, GotoInv DEF CheckRsvp
<1> QED
  BY <1>1, <1>2 DEF CheckRsvp

LEMMA FindOrInsertInv ==
    ASSUME IInv, NEW t \in Sessions, FindOrInsert(t)
    PROVE  IInv'
<1> DEFINE step == IF Paid(tx[t].shift) THEN "commit" ELSE "insert_award"
<1>1. /\ Goto(t, step)
      /\ step \in {"commit", "insert_award"} /\ step \in Steps
      /\ step = "commit" => Paid(tx[t].shift)
  BY DEF FindOrInsert
<1>2. WellFormed(t) /\ tx[t].op = "approve" /\ ~tx[t].award /\ tx[t].step = "find_or_insert"
  BY DEF FindOrInsert, IInv, TypeOK, Transactions, WellFormed, OrgSteps, VerifySteps, Idle
<1> HIDE DEF step
<1>3. /\ tx'[t].op = tx[t].op /\ tx'[t].step = step
      /\ tx'[t].shift = tx[t].shift
      /\ tx'[t].slot = tx[t].slot /\ tx'[t].award = tx[t].award
  BY <1>1, GotoTx
<1>4. WellFormed(t)'
  BY <1>1, <1>2, <1>3 DEF WellFormed, ApproveSteps
<1>5. /\ HoldsRsvpRow(t)' => HoldsRsvpRow(t)
      /\ HoldsAdvisory(t)' => HoldsAdvisory(t)
      /\ HoldsAwardKey(t)' => HoldsAwardKey(t)
  BY <1>2, <1>3 DEF HoldsRsvpRow, HoldsAdvisory, HoldsAwardKey
<1>6. \A u \in Sessions \ {t} : tx[u].shift = tx[t].shift => Exclusive(t, u)'
  BY <1>1, <1>5, NoNewLock
<1>7. ASSUME NEW s \in Shifts, tx[t].shift = s PROVE StillHolds(t, s)'
  <2>1. StillHolds(t, s) /\ request' = request /\ (Paid(s)' <=> Paid(s))
    BY <1>7, PaymentsFrame DEF IInv, ReadsStillHold, FindOrInsert, SamePayments
  <2> QED
    BY <1>1, <1>2, <1>3, <1>7, <2>1 DEF StillHolds
<1> QED
  BY <1>1, <1>4, <1>6, <1>7, GotoInv DEF FindOrInsert

LEMMA OrgUpdateRsvpInv ==
    ASSUME IInv, NEW t \in Sessions, OrgUpdateRsvp(t)
    PROVE  IInv'
<1>1. Goto(t, "insert_award")
  BY DEF OrgUpdateRsvp
<1>2. WellFormed(t) /\ tx[t].op = "org" /\ ~tx[t].award /\ tx[t].step = "lock_rsvp"
  BY DEF OrgUpdateRsvp, IInv, TypeOK, Transactions, WellFormed, ApproveSteps, VerifySteps, Idle
<1>3. /\ tx'[t].op = tx[t].op /\ tx'[t].step = "insert_award"
      /\ tx'[t].shift = tx[t].shift
      /\ tx'[t].slot = tx[t].slot /\ tx'[t].award = tx[t].award
      /\ \A u \in Sessions \ {t} : tx'[u] = tx[u]
  BY <1>1, GotoTx
<1>4. WellFormed(t)'
  BY <1>2, <1>3 DEF WellFormed, OrgSteps
<1>5. ASSUME NEW u \in Sessions \ {t}, tx[u].shift = tx[t].shift
      PROVE  Exclusive(t, u)'
  <2>1. tx'[u] = tx[u] /\ ~HoldsRsvpRow(u)
    BY <1>3, <1>5 DEF OrgUpdateRsvp, RsvpRowFree
  <2> QED
    BY <1>2, <1>3, <2>1 DEF Exclusive, HoldsRsvpRow, HoldsAdvisory, HoldsAwardKey
<1>6. \A s \in Shifts : tx[t].shift = s => StillHolds(t, s)'
  BY <1>2, <1>3 DEF StillHolds
<1> QED
  BY <1>1, <1>4, <1>5, <1>6, GotoInv DEF OrgUpdateRsvp

LEMMA InsertAwardInv ==
    ASSUME IInv, NEW t \in Sessions, InsertAward(t)
    PROVE  IInv'
<1>1. CASE Paid(tx[t].shift)
  BY <1>1, EndInv DEF InsertAward
<1>2. CASE ~Paid(tx[t].shift)
  <2> DEFINE r == [tx[t] EXCEPT !.step = "commit", !.award = TRUE]
  <2>1. tx \in [Sessions -> Transactions] /\ tx[t] \in Transactions
    BY DEF IInv, TypeOK
  <2>2. tx' = [tx EXCEPT ![t] = r]
    BY <1>2, <2>1 DEF InsertAward, Transactions
  <2>3. /\ Becomes(t, r) /\ tx'[t] = r
        /\ r.op = tx[t].op /\ r.step = "commit" /\ r.shift = tx[t].shift
        /\ r.slot = tx[t].slot /\ r.award
        /\ \A u \in Sessions \ {t} : tx'[u] = tx[u]
    BY <2>1, <2>2 DEF Becomes, Transactions
  <2> HIDE DEF r
  <2>4. WellFormed(t) /\ tx[t].op \in {"approve", "org"} /\ tx[t].step = "insert_award"
    BY <2>1 DEF IInv, InsertAward, Transactions, WellFormed, VerifySteps, Idle
  <2>5. WellFormed(t)'
    BY <2>3, <2>4 DEF WellFormed, ApproveSteps, OrgSteps
  <2>6. ASSUME NEW u \in Sessions \ {t}, tx[u].shift = r.shift
        PROVE  Exclusive(t, u)'
    <3>1. Exclusive(t, u) /\ ~HoldsAwardKey(u) /\ tx'[u] = tx[u]
      BY <2>3, <2>6 DEF InsertAward, AwardKeyFree, IInv, LocksExclude
    <3> QED
      BY <2>3, <2>4, <3>1 DEF Exclusive, HoldsRsvpRow, HoldsAdvisory, HoldsAwardKey
  <2>7. ASSUME NEW s \in Shifts, r.shift = s PROVE StillHolds(t, s)'
    <3>1. StillHolds(t, s) /\ request' = request /\ (Paid(s)' <=> Paid(s))
      BY <2>3, <2>7, PaymentsFrame DEF IInv, ReadsStillHold, InsertAward, SamePayments
    <3> QED
      BY <1>2, <2>3, <2>4, <2>7, <3>1 DEF StillHolds
  <2> QED
    BY <2>3, <2>5, <2>6, <2>7, MoveInv DEF InsertAward
<1> QED
  BY <1>1, <1>2

-----------------------------------------------------------------------------
(***************************************************************************)
(* The steps that write: a COMMIT, or a statement of its own.              *)
(***************************************************************************)

TablesOK ==
    /\ verification \in [Shifts -> Verifications]
    /\ request \in [Shifts -> [Slots -> RequestStatuses]]
    /\ wallet \in [Shifts -> [Notes -> Nat]]

\* What the other sessions have read survives the step.
LEMMA CommitInv ==
    ASSUME IInv, NEW t \in Sessions, End(t), TablesOK', Safety',
           \A u \in Sessions \ {t}, s \in Shifts :
               tx[u].shift = s => StillHolds(u, s)'
    PROVE  IInv'
<1>1. TypeOK'
  BY EndTx DEF TypeOK, TablesOK
<1>2. ReadsStillHold'
  BY EndTx DEF ReadsStillHold
<1> QED
  BY <1>1, <1>2, EndTx DEF IInv, Safety

LEMMA StatementInv ==
    ASSUME IInv, UNCHANGED tx, TablesOK', Safety',
           \A u \in Sessions, s \in Shifts : tx[u].shift = s => StillHolds(u, s)'
    PROVE  IInv'
<1>1. TypeOK'
  BY DEF IInv, TypeOK, TablesOK
<1>2. (\A u \in Sessions : WellFormed(u))'
  BY DEF IInv, WellFormed
<1>3. LocksExclude'
  BY DEF IInv, LocksExclude, Exclusive, HoldsRsvpRow, HoldsAdvisory, HoldsAwardKey
<1>4. ReadsStillHold'
  BY DEF ReadsStillHold
<1> QED
  BY <1>1, <1>2, <1>3, <1>4 DEF IInv, Safety

\* A step that touches no request and no payment disturbs no reader.
LEMMA ReadersFrame ==
    ASSUME IInv, NEW u \in Sessions, NEW s \in Shifts, tx'[u] = tx[u],
           tx[u].shift = s, UNCHANGED <<request, wallet>>
    PROVE  StillHolds(u, s)'
<1>1. StillHolds(u, s)
  BY DEF IInv, ReadsStillHold
<1>2. /\ HasRequest(s, "approved")' <=> HasRequest(s, "approved")
      /\ Paid(s)' <=> Paid(s)
  BY RequestsFrame, PaymentsFrame DEF SameRequests, SamePayments
<1> QED
  BY <1>1, <1>2 DEF StillHolds

\* Neither does it disturb anything but the verification it writes.
LEMMA VerificationFrame ==
    ASSUME IInv, UNCHANGED <<request, wallet>>, VerifiedShiftHasClaim'
    PROVE  Safety'
<1>1. SameRequests /\ SamePayments
  BY RequestsFrame, PaymentsFrame
<1>2. OneAwardPerShift'
  BY <1>1 DEF IInv, OneAwardPerShift, SamePayments
<1>3. ApprovedIffPaid'
  BY <1>1 DEF IInv, ApprovedIffPaid, SamePayments, SameRequests
<1>4. SettledShiftHasOneRequest'
  BY DEF IInv, SettledShiftHasOneRequest
<1> QED
  BY <1>2, <1>3, <1>4 DEF Safety

\* The host's COMMIT, once a lookup has found the claim of the shift.
LEMMA CommitVerifiedInv ==
    ASSUME IInv, NEW t \in Sessions, tx[t].op = "verify", CommitVerified(t),
           \/ Paid(tx[t].shift)
           \/ \E k \in Slots : request[tx[t].shift][k] # "unused"
    PROVE  IInv'
<1> DEFINE v == tx[t].shift
<1>1. v \in Shifts
  BY DEF IInv, WellFormed
<1>2. verification' = [verification EXCEPT ![v] = "verified"] /\ End(t)
      /\ UNCHANGED <<request, wallet>>
  BY DEF CommitVerified
<1>3. Paid(v) \/ \E k \in Slots : request[v][k] # "unused"
  OBVIOUS
<1> HIDE DEF v
<1>4. TablesOK'
  BY <1>1, <1>2 DEF IInv, TypeOK, TablesOK
<1>5. ASSUME NEW s \in Shifts, verification'[s] = "verified"
      PROVE  Paid(s)' \/ \E k \in Slots : request'[s][k] # "unused"
  <2>1. Paid(s) \/ \E k \in Slots : request[s][k] # "unused"
    BY <1>1, <1>2, <1>3, <1>5 DEF IInv, TypeOK, VerifiedShiftHasClaim
  <2>2. Paid(s)' <=> Paid(s)
    BY <1>2, PaymentsFrame DEF SamePayments
  <2> QED
    BY <1>2, <2>1, <2>2
<1>6. Safety'
  BY <1>2, <1>5, VerificationFrame DEF VerifiedShiftHasClaim
<1>7. \A u \in Sessions \ {t}, s \in Shifts :
          tx[u].shift = s => StillHolds(u, s)'
  BY <1>2, EndTx, ReadersFrame
<1> QED
  BY <1>2, <1>4, <1>6, <1>7, CommitInv

\* A host's rejection and a no-show.
LEMMA UnverifyInv ==
    ASSUME IInv, NEW s \in Shifts, NEW status \in Verifications \ {"verified"},
           verification' = [verification EXCEPT ![s] = status],
           UNCHANGED <<request, wallet, tx>>
    PROVE  IInv'
<1>1. TablesOK'
  BY DEF IInv, TypeOK, TablesOK
<1>2. ASSUME NEW r \in Shifts, verification'[r] = "verified"
      PROVE  Paid(r)' \/ \E k \in Slots : request'[r][k] # "unused"
  <2>1. verification[r] = "verified"
    BY <1>2 DEF IInv, TypeOK
  <2>2. Paid(r)' <=> Paid(r)
    BY PaymentsFrame DEF SamePayments
  <2> QED
    BY <2>1, <2>2 DEF IInv, VerifiedShiftHasClaim
<1>3. Safety'
  BY <1>2, VerificationFrame DEF VerifiedShiftHasClaim
<1>4. \A u \in Sessions, r \in Shifts : tx[u].shift = r => StillHolds(u, r)'
  BY ReadersFrame
<1> QED
  BY <1>1, <1>3, <1>4, StatementInv

LEMMA EditRequest ==
    ASSUME TypeOK, NEW s \in Shifts, NEW k \in Slots, NEW status \in RequestStatuses,
           request' = [request EXCEPT ![s][k] = status]
    PROVE  /\ request' \in [Shifts -> [Slots -> RequestStatuses]]
           /\ request'[s][k] = status
           /\ \A r \in Shifts, j \in Slots :
                 r # s \/ j # k => request'[r][j] = request[r][j]
BY DEF TypeOK

\* An edit that neither makes nor unmakes an approval.
LEMMA SameApprovals ==
    ASSUME TypeOK, NEW s \in Shifts, NEW k \in Slots, NEW status \in RequestStatuses,
           request' = [request EXCEPT ![s][k] = status],
           request[s][k] # "approved", status # "approved"
    PROVE  \A r \in Shifts : HasRequest(r, "approved")' <=> HasRequest(r, "approved")
BY EditRequest DEF HasRequest

LEMMA InsertRequestInv ==
    ASSUME IInv, NEW t \in Sessions, InsertRequest(t)
    PROVE  IInv'
<1> DEFINE v == tx[t].shift
<1>1. v \in Shifts /\ End(t) /\ wallet' = wallet
  BY DEF IInv, WellFormed, InsertRequest, Idle
<1>2. CASE HasRequest(v, "pending")
  BY <1>1, <1>2, EndInv DEF InsertRequest
<1>3. CASE ~HasRequest(v, "pending")
  <2>1. PICK k \in Slots : /\ request[v][k] = "unused"
                           /\ request' = [request EXCEPT ![v][k] = "pending"]
    BY <1>3 DEF InsertRequest
  <2>2. verification' = [verification EXCEPT ![v] = "verified"]
    BY <1>3 DEF InsertRequest
  <2>3. ~HasRequest(v, "approved")
    BY <1>1 DEF IInv, ReadsStillHold, StillHolds, InsertRequest
  <2> HIDE DEF v
  <2>4. /\ request' \in [Shifts -> [Slots -> RequestStatuses]]
        /\ request'[v][k] = "pending"
        /\ \A r \in Shifts, j \in Slots :
              r # v \/ j # k => request'[r][j] = request[r][j]
    BY <1>1, <2>1, EditRequest DEF IInv
  <2>5. TablesOK'
    BY <1>1, <2>2, <2>4 DEF IInv, TypeOK, TablesOK
  <2>6. \A r \in Shifts : HasRequest(r, "approved")' <=> HasRequest(r, "approved")
    BY <1>1, <2>1, SameApprovals DEF IInv
  <2>7. SamePayments
    BY <1>1, PaymentsFrame
  <2>8. OneAwardPerShift'
    BY <2>7 DEF IInv, OneAwardPerShift, SamePayments
  <2>9. ApprovedIffPaid'
    BY <1>1, <2>6, <2>7 DEF IInv, ApprovedIffPaid, SamePayments
  <2>10. SettledShiftHasOneRequest'
    BY <1>3, <2>3, <2>4 DEF IInv, SettledShiftHasOneRequest, HasRequest
  <2>11. ASSUME NEW s \in Shifts, verification'[s] = "verified"
         PROVE  Paid(s)' \/ \E j \in Slots : request'[s][j] # "unused"
    <3>1. CASE s = v
      BY <2>4, <3>1
    <3>2. CASE s # v
      <4>1. verification[s] = "verified"
        BY <2>2, <2>11, <3>2 DEF IInv, TypeOK
      <4> QED
        BY <2>4, <2>7, <3>2, <4>1 DEF IInv, VerifiedShiftHasClaim, SamePayments
    <3> QED
      BY <3>1, <3>2
  <2>12. ASSUME NEW u \in Sessions \ {t}, NEW s \in Shifts, tx[u].shift = s
         PROVE  StillHolds(u, s)'
    <3>1. StillHolds(u, s) /\ tx'[u] = tx[u] /\ WellFormed(u)
      BY <1>1, <2>12, EndTx DEF IInv, ReadsStillHold
    <3>2. tx[u].op = "approve" => request'[s][tx[u].slot] = "pending"
      BY <2>1, <2>4, <3>1 DEF StillHolds, WellFormed
    <3> QED
      BY <2>6, <2>7, <3>1, <3>2 DEF StillHolds, SamePayments
  <2> QED
    BY <1>1, <2>5, <2>8, <2>9, <2>10, <2>11, <2>12, CommitInv
    DEF Safety, VerifiedShiftHasClaim
<1> QED
  BY <1>2, <1>3

LEMMA RejectRequestInv ==
    ASSUME IInv, NEW s \in Shifts, NEW k \in Slots, RejectRequest(s, k)
    PROVE  IInv'
<1>1. /\ request[s][k] = "pending"
      /\ request' = [request EXCEPT ![s][k] = "rejected"]
      /\ UNCHANGED <<verification, wallet, tx>>
  BY DEF RejectRequest
<1>2. /\ request' \in [Shifts -> [Slots -> RequestStatuses]]
      /\ request'[s][k] = "rejected"
      /\ \A r \in Shifts, j \in Slots :
            r # s \/ j # k => request'[r][j] = request[r][j]
  BY <1>1, EditRequest DEF IInv
<1>3. TablesOK'
  BY <1>1, <1>2 DEF IInv, TypeOK, TablesOK
<1>4. \A r \in Shifts : HasRequest(r, "approved")' <=> HasRequest(r, "approved")
  BY <1>1, SameApprovals DEF IInv
<1>5. SamePayments
  BY <1>1, PaymentsFrame
<1>6. OneAwardPerShift'
  BY <1>5 DEF IInv, OneAwardPerShift, SamePayments
<1>7. ApprovedIffPaid'
  BY <1>1, <1>4, <1>5 DEF IInv, ApprovedIffPaid, SamePayments
<1>8. SettledShiftHasOneRequest'
  BY <1>2 DEF IInv, SettledShiftHasOneRequest
<1>9. VerifiedShiftHasClaim'
  BY <1>1, <1>2, <1>5 DEF IInv, VerifiedShiftHasClaim, SamePayments
<1>10. ASSUME NEW u \in Sessions, NEW r \in Shifts, tx[u].shift = r
       PROVE  StillHolds(u, r)'
  <2>1. StillHolds(u, r) /\ tx'[u] = tx[u] /\ WellFormed(u)
    BY <1>1, <1>10 DEF IInv, ReadsStillHold
  <2>2. ~(tx[u].op = "approve" /\ r = s /\ tx[u].slot = k)
    BY <1>10 DEF RejectRequest, RequestRowFree
  <2>3. tx[u].op = "approve" => request'[r][tx[u].slot] = "pending"
    BY <1>2, <2>1, <2>2 DEF StillHolds, WellFormed
  <2> QED
    BY <1>4, <1>5, <2>1, <2>3 DEF StillHolds, SamePayments
<1> QED
  BY <1>1, <1>3, <1>6, <1>7, <1>8, <1>9, <1>10, StatementInv DEF Safety

\* A payment disturbs no other session: one that is about to commit an award
\* for the shift would hold its key.
LEMMA PayersFrame ==
    ASSUME IInv, NEW s \in Shifts, NEW note \in Notes, ~Paid(s), PaysOnce(s, note),
           NEW u \in Sessions, tx[u].shift = s => ~HoldsAwardKey(u)
    PROVE  \A r \in Shifts :
              tx[u].shift = r /\ tx[u].step = "commit" => (tx[u].award <=> ~Paid(r)')
BY DEF IInv, ReadsStillHold, StillHolds, PaysOnce, HoldsAwardKey

LEMMA PaymentSafety ==
    ASSUME IInv, NEW s \in Shifts, NEW note \in Notes, PaysOnce(s, note)
    PROVE  /\ OneAwardPerShift'
           /\ \A r \in Shifts : Paid(r) => Paid(r)'
BY DEF IInv, OneAwardPerShift, PaysOnce

LEMMA AdminAllocateInv ==
    ASSUME IInv, NEW s \in Shifts, AdminAllocate(s)
    PROVE  IInv'
<1>1. PaysOnce(s, "admin")
  BY PayOnce DEF AdminAllocate, IInv
<1>2. ~Paid(s) /\ UNCHANGED <<verification, request, tx>>
  BY DEF AdminAllocate
<1>3. TablesOK'
  BY <1>1, <1>2 DEF IInv, TypeOK, TablesOK, PaysOnce
<1>4. SameRequests
  BY <1>2, RequestsFrame
<1>5. OneAwardPerShift' /\ \A r \in Shifts : Paid(r) => Paid(r)'
  BY <1>1, PaymentSafety
<1>6. \A r \in Shifts : wallet'[r]["verify"] = wallet[r]["verify"]
  BY <1>1 DEF PaysOnce
<1>7. ApprovedIffPaid'
  BY <1>4, <1>5, <1>6 DEF IInv, ApprovedIffPaid, SameRequests
<1>8. SettledShiftHasOneRequest'
  BY <1>2 DEF IInv, SettledShiftHasOneRequest
<1>9. VerifiedShiftHasClaim'
  BY <1>2, <1>5 DEF IInv, VerifiedShiftHasClaim
<1>10. ASSUME NEW u \in Sessions, NEW r \in Shifts, tx[u].shift = r
       PROVE  StillHolds(u, r)'
  <2>1. StillHolds(u, r) /\ tx'[u] = tx[u]
    BY <1>2, <1>10 DEF IInv, ReadsStillHold
  <2>2. tx[u].step = "commit" => (tx[u].award <=> ~Paid(r)')
    BY <1>1, <1>2, <1>10, PayersFrame DEF AdminAllocate, AwardKeyFree
  <2>3. HasRequest(r, "approved")' <=> HasRequest(r, "approved")
    BY <1>4 DEF SameRequests
  <2> QED
    BY <1>2, <2>1, <2>2, <2>3 DEF StillHolds
<1> QED
  BY <1>2, <1>3, <1>5, <1>7, <1>8, <1>9, <1>10, StatementInv DEF Safety

LEMMA CommitOrgVerifyInv ==
    ASSUME IInv, NEW t \in Sessions, CommitOrgVerify(t)
    PROVE  IInv'
<1> PICK v \in Shifts : v = tx[t].shift
  BY DEF IInv, WellFormed, CommitOrgVerify
<1>1. v \in Shifts /\ tx[t].award /\ tx[t].step = "commit"
  BY DEF IInv, WellFormed, CommitOrgVerify
<1>2. ~Paid(v)
  BY <1>1 DEF IInv, ReadsStillHold, StillHolds
<1>3. /\ verification' = [verification EXCEPT ![v] = "verified"]
      /\ Pay(v, "org") /\ End(t) /\ request' = request
  BY DEF CommitOrgVerify
<1>4. \A u \in Sessions \ {t} : tx[u].shift = v => ~HoldsAwardKey(u)
  BY <1>1 DEF IInv, LocksExclude, Exclusive, HoldsAwardKey
<1>5. PaysOnce(v, "org")
  BY <1>1, <1>2, <1>3, PayOnce DEF IInv
<1>6. TablesOK'
  BY <1>1, <1>3, <1>5 DEF IInv, TypeOK, TablesOK, PaysOnce
<1>7. SameRequests
  BY <1>3, RequestsFrame
<1>8. OneAwardPerShift' /\ \A r \in Shifts : Paid(r) => Paid(r)'
  BY <1>1, <1>5, PaymentSafety
<1>9. \A r \in Shifts : wallet'[r]["verify"] = wallet[r]["verify"]
  BY <1>5 DEF PaysOnce
<1>10. ApprovedIffPaid'
  BY <1>7, <1>8, <1>9 DEF IInv, ApprovedIffPaid, SameRequests
<1>11. SettledShiftHasOneRequest'
  BY <1>3 DEF IInv, SettledShiftHasOneRequest
<1>12. VerifiedShiftHasClaim'
  <2>1. ASSUME NEW s \in Shifts, s # v, verification'[s] = "verified"
        PROVE  Paid(s)' \/ \E k \in Slots : request'[s][k] # "unused"
    <3>1. verification[s] = "verified"
      BY <1>3, <2>1 DEF IInv, TypeOK
    <3> QED
      BY <1>3, <1>8, <3>1 DEF IInv, VerifiedShiftHasClaim
  <2>2. Paid(v)'
    BY <1>5 DEF PaysOnce
  <2> QED
    BY <2>1, <2>2 DEF VerifiedShiftHasClaim
<1>13. ASSUME NEW u \in Sessions \ {t}, NEW r \in Shifts, tx[u].shift = r
       PROVE  StillHolds(u, r)'
  <2>1. StillHolds(u, r) /\ tx'[u] = tx[u]
    BY <1>3, <1>13, EndTx DEF IInv, ReadsStillHold
  <2>2. tx[u].step = "commit" => (tx[u].award <=> ~Paid(r)')
    BY <1>1, <1>2, <1>4, <1>5, <1>13, PayersFrame
  <2>3. HasRequest(r, "approved")' <=> HasRequest(r, "approved")
    BY <1>7 DEF SameRequests
  <2> QED
    BY <1>3, <2>1, <2>2, <2>3 DEF StillHolds
<1> QED
  BY <1>3, <1>6, <1>8, <1>10, <1>11, <1>12, <1>13, CommitInv DEF Safety

LEMMA CommitApproveInv ==
    ASSUME IInv, NEW t \in Sessions, CommitApprove(t)
    PROVE  IInv'
<1> PICK v \in Shifts, k \in Slots : v = tx[t].shift /\ k = tx[t].slot
  BY DEF IInv, WellFormed, CommitApprove
<1>1. /\ tx[t].op = "approve" /\ tx[t].step = "commit"
      /\ verification' = verification /\ End(t)
      /\ request' = [request EXCEPT ![v][k] = "approved"]
      /\ IF tx[t].award THEN Pay(v, "verify") ELSE wallet' = wallet
  BY DEF CommitApprove
<1>2. v \in Shifts /\ k \in Slots
  OBVIOUS
<1>3. request[v][k] = "pending" /\ (tx[t].award <=> ~Paid(v))
  BY <1>1, <1>2 DEF IInv, ReadsStillHold, StillHolds
<1>4. \A u \in Sessions \ {t} :
          tx[u].shift = v => /\ tx[t].award => ~HoldsAwardKey(u)
                             /\ tx[u].op = "approve" => tx[u].slot # k
  BY <1>1 DEF IInv, LocksExclude, Exclusive, HoldsAwardKey
\* No other transaction of the shift is about to insert a request: it would
\* hold the advisory lock.
<1>5. \A u \in Sessions \ {t} : tx[u].shift = v => tx[u].step # "insert_request"
  <2>1. SUFFICES ASSUME NEW u \in Sessions \ {t}, tx[u].shift = v,
                        tx[u].step = "insert_request"
                 PROVE  FALSE
    OBVIOUS
  <2>2. WellFormed(u) /\ tx[u].op = "verify"
    BY <2>1 DEF IInv, TypeOK, Transactions, WellFormed, ApproveSteps, OrgSteps, Idle
  <2>3. HoldsAdvisory(u) /\ HoldsAdvisory(t)
    BY <1>1, <2>1, <2>2 DEF HoldsAdvisory
  <2> QED
    BY <2>1, <2>3 DEF IInv, LocksExclude, Exclusive
<1>6. /\ request' \in [Shifts -> [Slots -> RequestStatuses]]
      /\ request'[v][k] = "approved"
      /\ \A r \in Shifts, j \in Slots :
            r # v \/ j # k => request'[r][j] = request[r][j]
  <2>1. TypeOK
    BY DEF IInv
  <2> QED
    BY ONLY <2>1, <1>1, EditRequest
\* Whether the award is new or was there, the shift is paid once from now on.
<1>7. /\ wallet' \in [Shifts -> [Notes -> Nat]]
      /\ Paid(v)'
      /\ OneAwardPerShift'
      /\ \A r \in Shifts : Paid(r) => Paid(r)'
      /\ \A r \in Shifts \ {v} : (Paid(r)' <=> Paid(r)) /\ wallet'[r]["verify"] = wallet[r]["verify"]
  <2>1. CASE tx[t].award
    <3>1. PaysOnce(v, "verify")
      BY <1>1, <1>2, <1>3, <2>1, PayOnce DEF IInv
    <3>2. OneAwardPerShift' /\ \A r \in Shifts : Paid(r) => Paid(r)'
      BY <1>2, <3>1, PaymentSafety
    <3> QED
      BY <3>1, <3>2 DEF PaysOnce
  <2>2. CASE ~tx[t].award
    <3>1. wallet' = wallet /\ SamePayments
      BY <1>1, <2>2, PaymentsFrame
    <3>2. OneAwardPerShift'
      BY <3>1 DEF IInv, OneAwardPerShift, SamePayments
    <3> QED
      BY <1>2, <1>3, <2>2, <3>1, <3>2 DEF SamePayments, IInv, TypeOK
  <2> QED
    BY <2>1, <2>2
<1>8. TablesOK'
  BY <1>1, <1>6, <1>7 DEF IInv, TypeOK, TablesOK
<1>9. \A r \in Shifts \ {v} : HasRequest(r, "approved")' <=> HasRequest(r, "approved")
  BY <1>6 DEF HasRequest
<1>10. HasRequest(v, "approved")'
  BY <1>2, <1>6 DEF HasRequest
<1>11. ApprovedIffPaid'
  <2>1. ASSUME NEW r \in Shifts
        PROVE  /\ HasRequest(r, "approved")' => Paid(r)'
               /\ wallet'[r]["verify"] > 0 => HasRequest(r, "approved")'
    <3>1. CASE r = v
      BY <1>7, <1>10, <3>1
    <3>2. CASE r # v
      BY <1>7, <1>9, <3>2 DEF IInv, ApprovedIffPaid
    <3> QED
      BY <3>1, <3>2
  <2> QED
    BY <2>1 DEF ApprovedIffPaid
<1>12. SettledShiftHasOneRequest'
  BY <1>2, <1>3, <1>6 DEF IInv, SettledShiftHasOneRequest
<1>13. VerifiedShiftHasClaim'
  BY <1>1, <1>2, <1>6, <1>7 DEF IInv, VerifiedShiftHasClaim
<1>14. ASSUME NEW u \in Sessions \ {t}, NEW r \in Shifts, tx[u].shift = r
       PROVE  StillHolds(u, r)'
  <2>1. StillHolds(u, r) /\ tx'[u] = tx[u] /\ WellFormed(u)
    BY <1>1, <1>14, EndTx DEF IInv, ReadsStillHold
  <2>2. tx[u].op = "approve" => request'[r][tx[u].slot] = "pending"
    BY <1>4, <1>6, <1>14, <2>1 DEF StillHolds, WellFormed
  <2>3. tx[u].step = "insert_request" => ~HasRequest(r, "approved")'
    BY <1>5, <1>9, <1>14, <2>1 DEF StillHolds
  <2>4. tx[u].step = "commit" => (tx[u].award <=> ~Paid(r)')
    <3>1. CASE r # v
      BY <1>7, <1>14, <2>1, <3>1 DEF StillHolds
    <3>2. CASE r = v
      BY <1>3, <1>4, <1>7, <1>14, <2>1, <3>2 DEF StillHolds, HoldsAwardKey
    <3> QED
      BY <3>1, <3>2
  <2> QED
    BY <2>1, <2>2, <2>3, <2>4 DEF StillHolds
<1> QED
  BY <1>1, <1>7, <1>8, <1>11, <1>12, <1>13, <1>14, CommitInv DEF Safety

-----------------------------------------------------------------------------

\* The lookups of a verification go on, or commit what they found.
LEMMA FindInv ==
    ASSUME IInv, NEW t \in Sessions,
           FindAward(t) \/ FindPending(t) \/ FindApproved(t)
    PROVE  IInv'
<1>1. tx[t].op = "verify" /\ tx[t].shift \in Shifts
  BY DEF FindAward, FindPending, FindApproved, IInv, TypeOK, Transactions,
         WellFormed, ApproveSteps, OrgSteps, Idle
<1>2. CASE CommitVerified(t)
  <2>1. \/ Paid(tx[t].shift)
        \/ \E k \in Slots : request[tx[t].shift][k] # "unused"
    <3>1. CASE tx[t].step = "find_award"
      <4>1. Goto(t, "find_pending") => ~End(t)
        BY <3>1 DEF Goto, End, Idle, IInv, TypeOK, Transactions
      <4> QED
        BY <1>2, <3>1, <4>1 DEF FindAward, FindPending, FindApproved, CommitVerified
    <3>2. CASE tx[t].step = "find_pending"
      <4>1. Goto(t, "find_approved") => ~End(t)
        BY <3>2 DEF Goto, End, Idle, IInv, TypeOK, Transactions
      <4> QED
        BY <1>2, <3>2, <4>1 DEF FindAward, FindPending, FindApproved, CommitVerified, HasRequest
    <3>3. CASE tx[t].step = "find_approved"
      <4>1. Goto(t, "insert_request") => ~End(t)
        BY <3>3 DEF Goto, End, Idle, IInv, TypeOK, Transactions
      <4> QED
        BY <1>2, <3>3, <4>1 DEF FindAward, FindPending, FindApproved, CommitVerified, HasRequest
    <3> QED
      BY <3>1, <3>2, <3>3 DEF FindAward, FindPending, FindApproved
  <2> QED
    BY <1>1, <1>2, <2>1, CommitVerifiedInv
<1>3. CASE ~CommitVerified(t)
  <2>1. CASE FindAward(t)
    BY <1>3, <2>1, LookupInv DEF FindAward, VerifySteps
  <2>2. CASE FindPending(t)
    BY <1>3, <2>2, LookupInv DEF FindPending, VerifySteps
  <2>3. CASE FindApproved(t)
    BY <1>3, <2>3, LookupInv DEF FindApproved, VerifySteps
  <2> QED
    BY <2>1, <2>2, <2>3
<1> QED
  BY <1>2, <1>3

LEMMA ArrivalInv ==
    ASSUME IInv, NEW s \in Shifts, Arrival(s)
    PROVE  IInv'
<1>1. CASE RejectAttendance(s)
  BY <1>1, UnverifyInv DEF RejectAttendance
<1>2. CASE MarkNoShow(s)
  BY <1>2, UnverifyInv DEF MarkNoShow
<1>3. CASE AdminAllocate(s)
  BY <1>3, AdminAllocateInv
<1>4. ASSUME NEW k \in Slots, RejectRequest(s, k) PROVE IInv'
  BY <1>4, RejectRequestInv
<1>5. ASSUME NEW t \in Sessions, BeginVerify(t, s) PROVE IInv'
  BY <1>5, BeginVerifyInv
<1>6. ASSUME NEW t \in Sessions, BeginOrgVerify(t, s) PROVE IInv'
  BY <1>6, BeginOrgVerifyInv
<1>7. ASSUME NEW t \in Sessions, NEW k \in Slots, BeginApprove(t, s, k) PROVE IInv'
  BY <1>7, BeginApproveInv
<1> QED
  BY <1>1, <1>2, <1>3, <1>4, <1>5, <1>6, <1>7 DEF Arrival

LEMMA SessionInv ==
    ASSUME IInv, NEW t \in Sessions, Continue(t) \/ Acquire(t) \/ Rollback(t)
    PROVE  IInv'
<1>1. CASE FindAward(t) \/ FindPending(t) \/ FindApproved(t)
  BY <1>1, FindInv
<1>2. CASE InsertRequest(t)
  BY <1>2, InsertRequestInv
<1>3. CASE CheckRsvp(t)
  BY <1>3, CheckRsvpInv
<1>4. CASE FindOrInsert(t)
  BY <1>4, FindOrInsertInv
<1>5. CASE CommitApprove(t)
  BY <1>5, CommitApproveInv
<1>6. CASE CommitOrgVerify(t)
  BY <1>6, CommitOrgVerifyInv
<1>7. CASE TakeAdvisory(t)
  BY <1>7, TakeAdvisoryInv
<1>8. CASE InsertAward(t)
  BY <1>8, InsertAwardInv
<1>9. CASE OrgUpdateRsvp(t)
  BY <1>9, OrgUpdateRsvpInv
<1>10. CASE Rollback(t)
  BY <1>10, EndInv DEF Rollback
<1> QED
  BY <1>1, <1>2, <1>3, <1>4, <1>5, <1>6, <1>7, <1>8, <1>9, <1>10 DEF Continue, Acquire

LEMMA StutterInv == IInv /\ UNCHANGED vars => IInv'
<1> SUFFICES ASSUME IInv, UNCHANGED vars PROVE IInv'
  OBVIOUS
<1>1. TablesOK'
  BY DEF vars, IInv, TypeOK, TablesOK
<1>2. Safety'
  BY SafetyFrame DEF vars, IInv, Safety
<1>3. \A u \in Sessions, s \in Shifts : tx[u].shift = s => StillHolds(u, s)'
  BY ReadersFrame DEF vars
<1> QED
  BY <1>1, <1>2, <1>3, StatementInv DEF vars

LEMMA NextInv == IInv /\ [Next]_vars => IInv'
<1> SUFFICES ASSUME IInv, [Next]_vars PROVE IInv'
  OBVIOUS
<1>1. ASSUME NEW s \in Shifts, Arrival(s) PROVE IInv'
  BY <1>1, ArrivalInv
<1>2. ASSUME NEW t \in Sessions, Continue(t) \/ Acquire(t) \/ Rollback(t) PROVE IInv'
  BY <1>2, SessionInv
<1>3. CASE UNCHANGED vars
  BY <1>3, StutterInv
<1> QED
  BY <1>1, <1>2, <1>3 DEF Next

\* The inductive invariant holds in every reachable state.
THEOREM Invariance == Spec => []IInv
BY InitInv, NextInv, PTL DEF Spec

\* Every table and every session always has its type.
THEOREM TypeCorrect == Spec => []TypeOK
<1>1. IInv => TypeOK
  BY DEF IInv
<1> QED
  BY <1>1, Invariance, PTL

\* No interleaving of the host's verification, an administrator's approval,
\* the portal's verification and a direct allocation pays a shift twice.
THEOREM PaidOnce == Spec => []OneAwardPerShift
<1>1. IInv => OneAwardPerShift
  BY DEF IInv
<1> QED
  BY <1>1, Invariance, PTL

\* Approval and payment stay together across crashes and rollbacks.
THEOREM ApprovalPays == Spec => []ApprovedIffPaid
<1>1. IInv => ApprovedIffPaid
  BY DEF IInv
<1> QED
  BY <1>1, Invariance, PTL

\* A shift never has two requests that are open or approved.
THEOREM OneOpenRequest == Spec => []SettledShiftHasOneRequest
<1>1. IInv => SettledShiftHasOneRequest
  BY DEF IInv
<1> QED
  BY <1>1, Invariance, PTL

\* A verified shift is paid or has a request on file.
THEOREM NoLostClaim == Spec => []VerifiedShiftHasClaim
<1>1. IInv => VerifiedShiftHasClaim
  BY DEF IInv
<1> QED
  BY <1>1, Invariance, PTL

-----------------------------------------------------------------------------
(***************************************************************************)
(* Decisions are final.                                                    *)
(***************************************************************************)

KeepsVerified(s) == verification[s] = "verified" => verification'[s] = "verified"

KeepsVerdict(s, k) ==
    request[s][k] \in {"approved", "rejected"} => request'[s][k] = request[s][k]

Final == \A s \in Shifts : KeepsVerified(s) /\ \A k \in Slots : KeepsVerdict(s, k)

LEMMA ArrivalFinal ==
    ASSUME IInv, NEW s \in Shifts, Arrival(s)
    PROVE  Final
<1> USE DEF Final, KeepsVerified, KeepsVerdict
<1>0. TypeOK
  BY DEF IInv
<1>1. CASE RejectAttendance(s) \/ MarkNoShow(s)
  BY <1>0, <1>1 DEF RejectAttendance, MarkNoShow, TypeOK
<1>2. CASE UNCHANGED <<verification, request>>
  BY <1>2
<1>3. ASSUME NEW k \in Slots, RejectRequest(s, k) PROVE Final
  <2>1. /\ request[s][k] = "pending" /\ verification' = verification
        /\ request' = [request EXCEPT ![s][k] = "rejected"]
    BY <1>3 DEF RejectRequest
  <2> QED
    BY <1>0, <2>1, EditRequest
<1> QED
  BY <1>1, <1>2, <1>3 DEF Arrival, AdminAllocate, BeginVerify, BeginOrgVerify, BeginApprove

LEMMA SessionFinal ==
    ASSUME IInv, NEW t \in Sessions, Continue(t) \/ Acquire(t) \/ Rollback(t)
    PROVE  Final
<1> USE DEF Final, KeepsVerified, KeepsVerdict
<1>0. TypeOK
  BY DEF IInv
<1>1. CASE UNCHANGED <<verification, request>>
  BY <1>1
<1>2. CASE CommitVerified(t) \/ CommitOrgVerify(t)
  <2>1. /\ verification' = [verification EXCEPT ![tx[t].shift] = "verified"]
        /\ request' = request
    BY <1>2 DEF CommitVerified, CommitOrgVerify
  <2> QED
    BY <1>0, <2>1 DEF TypeOK
<1>3. CASE InsertRequest(t)
  <2>1. PICK v \in Shifts : v = tx[t].shift
    BY <1>3 DEF IInv, WellFormed, InsertRequest, Idle
  <2>2. CASE HasRequest(v, "pending")
    BY <1>3, <2>1, <2>2 DEF InsertRequest
  <2>3. CASE ~HasRequest(v, "pending")
    <3>1. PICK k \in Slots : /\ request[v][k] = "unused"
                             /\ request' = [request EXCEPT ![v][k] = "pending"]
      BY <1>3, <2>1, <2>3 DEF InsertRequest
    <3>2. verification' = [verification EXCEPT ![v] = "verified"]
      BY <1>3, <2>1, <2>3 DEF InsertRequest
    <3>3. \A r \in Shifts, j \in Slots :
              r # v \/ j # k => request'[r][j] = request[r][j]
      BY ONLY <1>0, <3>1, EditRequest
    <3> QED
      BY <1>0, <3>1, <3>2, <3>3 DEF TypeOK
  <2> QED
    BY <2>2, <2>3
<1>4. CASE CommitApprove(t)
  <2>1. PICK v \in Shifts, k \in Slots : v = tx[t].shift /\ k = tx[t].slot
    BY <1>4 DEF IInv, WellFormed, CommitApprove
  <2>2. /\ request[v][k] = "pending" /\ verification' = verification
        /\ request' = [request EXCEPT ![v][k] = "approved"]
    BY <1>4, <2>1 DEF IInv, ReadsStillHold, StillHolds, CommitApprove
  <2>3. \A r \in Shifts, j \in Slots :
            r # v \/ j # k => request'[r][j] = request[r][j]
    BY ONLY <1>0, <2>2, EditRequest
  <2> QED
    BY <2>2, <2>3
<1> QED
  BY <1>1, <1>2, <1>3, <1>4
  DEF Continue, Acquire, Rollback, FindAward, FindPending, FindApproved, CheckRsvp,
      FindOrInsert, TakeAdvisory, InsertAward, OrgUpdateRsvp

LEMMA NextFinal == IInv /\ [Next]_vars => [Final]_vars
BY ArrivalFinal, SessionFinal DEF Next

\* A verified shift stays verified and a reviewed request keeps its verdict.
THEOREM Finality == Spec => DecisionsAreFinal
<1>1. [Final]_vars =>
          [\A s \in Shifts :
              /\ verification[s] = "verified" => verification'[s] = "verified"
              /\ \A k \in Slots :
                    request[s][k] \in {"approved", "rejected"}
                        => request'[s][k] = request[s][k]]_vars
  BY DEF Final, KeepsVerified, KeepsVerdict
<1> QED
  BY <1>1, NextFinal, Invariance, PTL DEF Spec, DecisionsAreFinal

-----------------------------------------------------------------------------
(***************************************************************************)
(* The safety under EveryTransactionEnds: transactions never wait for one  *)
(* another in a circle, and none runs a statement twice.                   *)
(***************************************************************************)

\* Session u holds the lock that the next statement of t takes.
WaitsFor(t, u) ==
    /\ tx[u].shift = tx[t].shift
    /\ \/ tx[t].step = "lock_rsvp" /\ HoldsRsvpRow(u)
       \/ tx[t].step = "advisory" /\ HoldsAdvisory(u)
       \/ tx[t].step = "insert_award" /\ HoldsAwardKey(u)

\* Any set of sessions has one that waits for none of them.
NoCircularWait ==
    \A S \in SUBSET Sessions :
        S # {} => \E t \in S : \A u \in S : ~WaitsFor(t, u)

\* The order of the statements of every path.
Rank(step) ==
    CASE step = "idle" -> 0
      [] step = "lock_rsvp" -> 1
      [] step = "advisory" -> 2
      [] step \in {"find_award", "check_rsvp"} -> 3
      [] step \in {"find_pending", "find_or_insert"} -> 4
      [] step \in {"find_approved", "insert_award"} -> 5
      [] step \in {"insert_request", "commit"} -> 6

Advances(t) ==
    \/ tx'[t] = tx[t]
    \/ tx'[t] = Idle
    \/ Rank(tx[t].step) < Rank(tx'[t].step)

\* The locks are taken in the order RSVP row, advisory lock, award key: the
\* holder of the lock that somebody waits for is further on.
LEMMA HoldersAreFurther ==
    ASSUME IInv, NEW t \in Sessions, NEW u \in Sessions, WaitsFor(t, u)
    PROVE  Rank(tx[t].step) < Rank(tx[u].step)
<1>1. WellFormed(u) /\ tx[u].step \in Steps
  BY DEF IInv, TypeOK, Transactions
<1>2. CASE tx[t].step = "lock_rsvp" /\ HoldsRsvpRow(u)
  <2>1. tx[u].step \in VerifySteps \cup {"insert_award", "commit"}
    BY <1>1, <1>2 DEF HoldsRsvpRow, WellFormed
  <2> QED
    BY <1>2, <2>1 DEF VerifySteps, Rank
<1>3. CASE tx[t].step = "advisory" /\ HoldsAdvisory(u)
  <2>1. tx[u].step \in (VerifySteps \cup ApproveSteps) \ {"advisory"}
    BY <1>1, <1>3 DEF HoldsAdvisory, WellFormed
  <2> QED
    BY <1>3, <2>1 DEF VerifySteps, ApproveSteps, Rank
<1>4. CASE tx[t].step = "insert_award" /\ HoldsAwardKey(u)
  BY <1>4 DEF HoldsAwardKey, Rank
<1> QED
  BY <1>2, <1>3, <1>4 DEF WaitsFor

LEMMA RankRange == \A step \in Steps : Rank(step) \in 0..6
BY DEF Rank

\* A nonempty set of sessions has one that is furthest on.
LEMMA FurthestOn ==
    ASSUME NEW S, S # {}, NEW f \in [S -> 0..6]
    PROVE  \E t \in S : \A u \in S : f[u] <= f[t]
<1> SUFFICES ASSUME \A t \in S : \E u \in S : f[t] < f[u] PROVE FALSE
  OBVIOUS
<1> DEFINE Reaches(n) == \E t \in S : n <= f[t]
<1>1. \A n \in 0..6 : Reaches(n) => Reaches(n + 1)
  OBVIOUS
<1>2. Reaches(0)
  OBVIOUS
<1>3. ~Reaches(7)
  OBVIOUS
<1> HIDE DEF Reaches
<1>4. Reaches(1) /\ Reaches(2) /\ Reaches(3)
  BY <1>1, <1>2
<1>5. Reaches(4) /\ Reaches(5) /\ Reaches(6)
  BY <1>1, <1>4
<1> QED
  BY <1>1, <1>3, <1>5

LEMMA InvNoCircle == IInv => NoCircularWait
<1> SUFFICES ASSUME IInv, NEW S \in SUBSET Sessions, S # {}
             PROVE  \E t \in S : \A u \in S : ~WaitsFor(t, u)
  BY DEF NoCircularWait
<1> DEFINE f == [t \in S |-> Rank(tx[t].step)]
<1>1. \A t \in S : Rank(tx[t].step) \in 0..6
  BY RankRange DEF IInv, TypeOK, Transactions
<1>2. f \in [S -> 0..6]
  BY <1>1
<1>3. \A u \in S : f[u] = Rank(tx[u].step)
  OBVIOUS
<1> HIDE DEF f
<1>4. PICK t \in S : \A u \in S : f[u] <= f[t]
  BY <1>2, FurthestOn, Zenon
<1>5. \A u \in S : ~(Rank(tx[t].step) < Rank(tx[u].step))
  BY <1>1, <1>3, <1>4
<1> QED
  BY <1>5, HoldersAreFurther

\* Whatever sessions are under way, one of them waits for none of the others:
\* the locks of the four paths are never taken in a circle.
THEOREM NobodyWaitsInACircle == Spec => []NoCircularWait
BY InvNoCircle, Invariance, PTL

LEMMA ArrivalAdvances ==
    ASSUME IInv, NEW s \in Shifts, Arrival(s), NEW u \in Sessions
    PROVE  Advances(u)
<1>1. tx \in [Sessions -> Transactions]
  BY DEF IInv, TypeOK
<1>2. ASSUME NEW t \in Sessions, NEW op, NEW k, NEW step \in {"advisory", "lock_rsvp"},
             tx[t] = Idle, Start(t, op, step, s, k)
      PROVE  Advances(u)
  <2>1. CASE u = t
    <3>1. tx[t].step = "idle" /\ tx'[t].step = step
      BY <1>1, <1>2 DEF Start, Idle
    <3> QED
      BY <1>2, <2>1, <3>1 DEF Advances, Rank
  <2>2. CASE u # t
    BY <1>1, <1>2, <2>2 DEF Start, Advances
  <2> QED
    BY <2>1, <2>2
<1>3. CASE UNCHANGED tx
  BY <1>3 DEF Advances
<1>4. ASSUME NEW t \in Sessions,
             \/ BeginVerify(t, s) \/ BeginOrgVerify(t, s)
             \/ \E k \in Slots : BeginApprove(t, s, k)
      PROVE  Advances(u)
  BY <1>2, <1>4 DEF BeginVerify, BeginOrgVerify, BeginApprove
<1> QED
  BY <1>3, <1>4 DEF Arrival, RejectAttendance, MarkNoShow, AdminAllocate, RejectRequest

LEMMA SessionAdvances ==
    ASSUME IInv, NEW t \in Sessions, Continue(t) \/ Acquire(t) \/ Rollback(t),
           NEW u \in Sessions
    PROVE  Advances(u)
<1>1. tx \in [Sessions -> Transactions]
  BY DEF IInv, TypeOK
<1>2. CASE End(t)
  BY <1>1, <1>2 DEF End, Advances
<1>3. ASSUME NEW step, Goto(t, step), Rank(tx[t].step) < Rank(step)
      PROVE  Advances(u)
  BY <1>1, <1>3 DEF Goto, Transactions, Advances
<1>4. ASSUME tx[t].step = "insert_award",
             tx' = [tx EXCEPT ![t].step = "commit", ![t].award = TRUE]
      PROVE  Advances(u)
  <2>1. CASE u = t
    <3>1. tx'[t].step = "commit"
      BY <1>1, <1>4 DEF Transactions
    <3> QED
      BY <1>4, <2>1, <3>1 DEF Advances, Rank
  <2>2. CASE u # t
    BY <1>1, <1>4, <2>2 DEF Advances
  <2> QED
    BY <2>1, <2>2
<1>5. CASE TakeAdvisory(t)
  BY <1>3, <1>5 DEF TakeAdvisory, Rank
<1>6. CASE FindAward(t) \/ FindPending(t) \/ FindApproved(t)
  BY <1>2, <1>3, <1>6 DEF FindAward, FindPending, FindApproved, CommitVerified, Rank
<1>7. CASE CheckRsvp(t)
  BY <1>2, <1>3, <1>7 DEF CheckRsvp, Rank
<1>8. CASE FindOrInsert(t)
  BY <1>3, <1>8 DEF FindOrInsert, Rank
<1>9. CASE OrgUpdateRsvp(t)
  BY <1>3, <1>9 DEF OrgUpdateRsvp, Rank
<1>10. CASE InsertAward(t)
  BY <1>2, <1>4, <1>10 DEF InsertAward
<1>11. CASE \/ InsertRequest(t) \/ CommitApprove(t) \/ CommitOrgVerify(t)
            \/ Rollback(t)
  BY <1>2, <1>11 DEF InsertRequest, CommitApprove, CommitOrgVerify, Rollback
<1> QED
  BY <1>5, <1>6, <1>7, <1>8, <1>9, <1>10, <1>11 DEF Continue, Acquire

LEMMA NextAdvances ==
    IInv /\ [Next]_vars => [\A t \in Sessions : Advances(t)]_vars
BY ArrivalAdvances, SessionAdvances DEF Next

\* Every step of a session ends its transaction or takes it to a statement
\* further on, so that none has more than seven steps.
THEOREM StepsAdvance == Spec => [][\A t \in Sessions : Advances(t)]_vars
BY NextAdvances, Invariance, PTL DEF Spec

-----------------------------------------------------------------------------
(***************************************************************************)
(* The workflow implements ShiftClaims.                                    *)
(***************************************************************************)

LEMMA InitMaps == Init => Abstract!Init
<1> SUFFICES ASSUME Init PROVE Abstract!Init
  OBVIOUS
<1>1. \A s \in Shifts, status \in RequestStatuses \ {"unused"} : ~HasRequest(s, status)
  BY DEF Init, HasRequest
<1>2. \A s \in Shifts : ClaimOf(s) = "none"
  BY <1>1 DEF ClaimOf
<1>3. ASSUME NEW s \in Shifts PROVE Credits(s) = 0
  <2>1. wallet[s]["verify"] = 0 /\ wallet[s]["org"] = 0 /\ wallet[s]["admin"] = 0
    BY DEF Init
  <2> QED
    BY <2>1 DEF Credits
<1> QED
  BY <1>2, <1>3 DEF Abstract!Init, claimOf, paidOf

\* A step that leaves requests and wallets alone is a stutter.
LEMMA StutterMaps == UNCHANGED <<request, wallet>> => UNCHANGED <<claimOf, paidOf>>
<1> SUFFICES ASSUME UNCHANGED <<request, wallet>> PROVE UNCHANGED <<claimOf, paidOf>>
  OBVIOUS
<1>1. \A s \in Shifts : ClaimOf(s)' = ClaimOf(s) /\ Credits(s)' = Credits(s)
  BY DEF ClaimOf, HasRequest, Credits
<1> QED
  BY <1>1 DEF claimOf, paidOf

LEMMA SameRequestsMap == UNCHANGED request => claimOf' = claimOf
<1> SUFFICES ASSUME UNCHANGED request PROVE claimOf' = claimOf
  OBVIOUS
<1>1. \A s \in Shifts : ClaimOf(s)' = ClaimOf(s)
  BY DEF ClaimOf, HasRequest
<1> QED
  BY <1>1 DEF claimOf

LEMMA SamePaymentsMap == UNCHANGED wallet => paidOf' = paidOf
<1> SUFFICES ASSUME UNCHANGED wallet PROVE paidOf' = paidOf
  OBVIOUS
<1>1. \A s \in Shifts : Credits(s)' = Credits(s)
  BY DEF Credits
<1> QED
  BY <1>1 DEF paidOf

\* An edit of one shift's request changes the claim of that shift only.
LEMMA EditMaps ==
    ASSUME TypeOK, NEW s \in Shifts, NEW k \in Slots, NEW status \in RequestStatuses,
           request' = [request EXCEPT ![s][k] = status]
    PROVE  claimOf' = [claimOf EXCEPT ![s] = ClaimOf(s)']
<1>1. \A r \in Shifts \ {s} : ClaimOf(r)' = ClaimOf(r)
  BY EditRequest DEF ClaimOf, HasRequest
<1> QED
  BY <1>1 DEF claimOf

LEMMA PaymentMaps ==
    ASSUME NEW s \in Shifts, NEW note \in Notes, PaysOnce(s, note)
    PROVE  paidOf' = [paidOf EXCEPT ![s] = 1]
BY DEF PaysOnce, paidOf

LEMMA UnpaidMaps ==
    ASSUME TypeOK, NEW s \in Shifts, ~Paid(s)
    PROVE  paidOf[s] = 0
<1>1. /\ wallet[s]["verify"] \in Nat
      /\ wallet[s]["org"] \in Nat
      /\ wallet[s]["admin"] \in Nat
  BY DEF TypeOK
<1> QED
  BY <1>1 DEF paidOf, Paid, Credits

\* The requests of a shift with an open one are its claim.
LEMMA OpenClaim ==
    ASSUME IInv, NEW s \in Shifts, NEW k \in Slots, request[s][k] = "pending"
    PROVE  claimOf[s] = "open"
BY DEF IInv, SettledShiftHasOneRequest, claimOf, ClaimOf, HasRequest

LEMMA InsertRequestMaps ==
    ASSUME IInv, NEW t \in Sessions, InsertRequest(t)
    PROVE  [Abstract!Next]_<<claimOf, paidOf>>
<1>1. PICK v \in Shifts : v = tx[t].shift
  BY DEF IInv, WellFormed, InsertRequest, Idle
<1>2. CASE HasRequest(v, "pending")
  BY <1>1, <1>2, StutterMaps DEF InsertRequest
<1>3. CASE ~HasRequest(v, "pending")
  <2>1. PICK k \in Slots : /\ request[v][k] = "unused"
                           /\ request' = [request EXCEPT ![v][k] = "pending"]
    BY <1>1, <1>3 DEF InsertRequest
  <2>2. ~HasRequest(v, "approved")
    BY <1>1 DEF IInv, ReadsStillHold, StillHolds, InsertRequest
  <2>3. claimOf[v] \in {"none", "refused"}
    BY <1>3, <2>2 DEF claimOf, ClaimOf
  <2>4. TypeOK
    BY DEF IInv
  <2>5. request'[v][k] = "pending" /\ \A j \in Slots \ {k} : request'[v][j] = request[v][j]
    <3>1. /\ request'[v][k] = "pending"
          /\ \A r \in Shifts, j \in Slots :
                r # v \/ j # k => request'[r][j] = request[r][j]
      BY ONLY <2>1, <2>4, EditRequest
    <3> QED
      BY <3>1
  <2>6. ClaimOf(v)' = "open"
    BY <2>1, <2>2, <2>5 DEF ClaimOf, HasRequest
  <2>7. claimOf' = [claimOf EXCEPT ![v] = "open"]
    <3>1. claimOf' = [claimOf EXCEPT ![v] = ClaimOf(v)']
      BY ONLY <2>1, <2>4, EditMaps
    <3> QED
      BY <2>6, <3>1
  <2>8. paidOf' = paidOf
    BY SamePaymentsMap DEF InsertRequest
  <2>9. Abstract!Open(v)
    BY <2>3, <2>7, <2>8 DEF Abstract!Open
  <2> QED
    BY <2>9 DEF Abstract!Next
<1> QED
  BY <1>2, <1>3

LEMMA RejectRequestMaps ==
    ASSUME IInv, NEW s \in Shifts, NEW k \in Slots, RejectRequest(s, k)
    PROVE  [Abstract!Next]_<<claimOf, paidOf>>
<1>1. TypeOK
  BY DEF IInv
<1>2. /\ request[s][k] = "pending"
      /\ request' = [request EXCEPT ![s][k] = "rejected"]
      /\ wallet' = wallet
  BY DEF RejectRequest
<1>3. request'[s][k] = "rejected" /\ \A j \in Slots \ {k} : request'[s][j] = request[s][j]
  <2>1. /\ request'[s][k] = "rejected"
        /\ \A r \in Shifts, j \in Slots :
              r # s \/ j # k => request'[r][j] = request[r][j]
    BY ONLY <1>1, <1>2, EditRequest
  <2> QED
    BY <2>1
<1>4. \A j \in Slots \ {k} : request[s][j] \notin {"pending", "approved"}
  BY <1>2 DEF IInv, SettledShiftHasOneRequest
<1>5. ClaimOf(s)' = "refused"
  BY <1>3, <1>4 DEF ClaimOf, HasRequest
<1>6. claimOf' = [claimOf EXCEPT ![s] = "refused"]
  <2>1. claimOf' = [claimOf EXCEPT ![s] = ClaimOf(s)']
    BY ONLY <1>1, <1>2, EditMaps
  <2> QED
    BY <1>5, <2>1
<1>7. claimOf[s] = "open"
  BY <1>2, OpenClaim
<1>8. Abstract!Refuse(s)
  BY <1>2, <1>6, <1>7, SamePaymentsMap DEF Abstract!Refuse
<1> QED
  BY <1>8 DEF Abstract!Next

LEMMA CommitApproveMaps ==
    ASSUME IInv, NEW t \in Sessions, CommitApprove(t)
    PROVE  [Abstract!Next]_<<claimOf, paidOf>>
<1>1. PICK v \in Shifts, k \in Slots : v = tx[t].shift /\ k = tx[t].slot
  BY DEF IInv, WellFormed, CommitApprove
<1>2. /\ request[v][k] = "pending"
      /\ tx[t].award <=> ~Paid(v)
      /\ request' = [request EXCEPT ![v][k] = "approved"]
      /\ IF tx[t].award THEN Pay(v, "verify") ELSE wallet' = wallet
  BY <1>1 DEF IInv, ReadsStillHold, StillHolds, CommitApprove
<1>3. TypeOK
  BY DEF IInv
<1>4. request'[v][k] = "approved"
  BY ONLY <1>2, <1>3, EditRequest
<1>5. ClaimOf(v)' = "settled"
  BY <1>4 DEF ClaimOf, HasRequest
<1>6. claimOf' = [claimOf EXCEPT ![v] = "settled"]
  <2>1. claimOf' = [claimOf EXCEPT ![v] = ClaimOf(v)']
    BY ONLY <1>2, <1>3, EditMaps
  <2> QED
    BY <1>5, <2>1
<1>7. claimOf[v] = "open"
  BY <1>2, OpenClaim
<1>8. paidOf' = [paidOf EXCEPT ![v] = 1]
  <2>1. CASE tx[t].award
    <3>1. PaysOnce(v, "verify")
      BY <1>2, <1>3, <2>1, PayOnce
    <3> QED
      BY <3>1, PaymentMaps
  <2>2. CASE ~tx[t].award
    <3>1. Paid(v) /\ paidOf' = paidOf
      BY <1>2, <2>2, SamePaymentsMap
    <3>2. Credits(v) = 1
      <4>1. Credits(v) <= 1 /\ Credits(v) > 0
        BY <3>1 DEF IInv, OneAwardPerShift, Paid
      <4>2. /\ wallet[v]["verify"] \in Nat
            /\ wallet[v]["org"] \in Nat
            /\ wallet[v]["admin"] \in Nat
        BY <1>3 DEF TypeOK
      <4>3. Credits(v) \in Nat
        BY <4>2 DEF Credits
      <4> QED
        BY <4>1, <4>3
    <3> QED
      BY <3>1, <3>2 DEF paidOf
  <2> QED
    BY <2>1, <2>2
<1>9. Abstract!Settle(v)
  BY <1>6, <1>7, <1>8 DEF Abstract!Settle
<1> QED
  BY <1>9 DEF Abstract!Next

\* The portal's payment and a direct one go beside the claim.
LEMMA PayBesideMaps ==
    ASSUME IInv, NEW s \in Shifts, NEW note \in Notes, ~Paid(s), Pay(s, note),
           UNCHANGED request
    PROVE  [Abstract!Next]_<<claimOf, paidOf>>
<1>1. PaysOnce(s, note) /\ paidOf[s] = 0
  BY PayOnce, UnpaidMaps DEF IInv
<1>2. paidOf' = [paidOf EXCEPT ![s] = 1] /\ claimOf' = claimOf
  BY <1>1, PaymentMaps, SameRequestsMap
<1>3. Abstract!PayBeside(s)
  BY <1>1, <1>2 DEF Abstract!PayBeside
<1> QED
  BY <1>3 DEF Abstract!Next

LEMMA CommitOrgVerifyMaps ==
    ASSUME IInv, NEW t \in Sessions, CommitOrgVerify(t)
    PROVE  [Abstract!Next]_<<claimOf, paidOf>>
<1>1. PICK v \in Shifts : v = tx[t].shift
  BY DEF IInv, WellFormed, CommitOrgVerify
<1>2. tx[t].award /\ tx[t].step = "commit"
  BY DEF IInv, WellFormed, CommitOrgVerify
<1>3. ~Paid(v)
  BY <1>1, <1>2 DEF IInv, ReadsStillHold, StillHolds
<1>4. Pay(v, "org") /\ request' = request
  BY <1>1 DEF CommitOrgVerify
<1> QED
  BY <1>3, <1>4, PayBesideMaps

LEMMA NextMaps == IInv /\ [Next]_vars => [Abstract!Next]_<<claimOf, paidOf>>
<1> SUFFICES ASSUME IInv, [Next]_vars PROVE [Abstract!Next]_<<claimOf, paidOf>>
  OBVIOUS
<1>1. CASE UNCHANGED <<request, wallet>>
  BY <1>1, StutterMaps
<1>2. ASSUME NEW s \in Shifts, Arrival(s) PROVE [Abstract!Next]_<<claimOf, paidOf>>
  <2>1. CASE AdminAllocate(s)
    BY <2>1, PayBesideMaps DEF AdminAllocate
  <2>2. ASSUME NEW k \in Slots, RejectRequest(s, k)
        PROVE  [Abstract!Next]_<<claimOf, paidOf>>
    BY <2>2, RejectRequestMaps
  <2> QED
    BY <1>1, <1>2, <2>1, <2>2
    DEF Arrival, RejectAttendance, MarkNoShow, BeginVerify, BeginOrgVerify, BeginApprove
<1>3. ASSUME NEW t \in Sessions, Continue(t) \/ Acquire(t) \/ Rollback(t)
      PROVE  [Abstract!Next]_<<claimOf, paidOf>>
  <2>1. CASE InsertRequest(t)
    BY <2>1, InsertRequestMaps
  <2>2. CASE CommitApprove(t)
    BY <2>2, CommitApproveMaps
  <2>3. CASE CommitOrgVerify(t)
    BY <2>3, CommitOrgVerifyMaps
  <2>4. CASE UNCHANGED <<request, wallet>>
    BY <1>1, <2>4
  <2> QED
    BY <1>3, <2>1, <2>2, <2>3, <2>4
    DEF Continue, Acquire, Rollback, FindAward, FindPending, FindApproved, CheckRsvp,
        FindOrInsert, TakeAdvisory, InsertAward, OrgUpdateRsvp, CommitVerified
<1>4. CASE UNCHANGED vars
  BY <1>1, <1>4 DEF vars
<1> QED
  BY <1>2, <1>3, <1>4 DEF Next

\* Every behaviour of the four paths is, seen through the refinement mapping,
\* one of ShiftClaims.
THEOREM Refinement == Spec => ImplementsShiftClaims
<1>1. UNCHANGED <<claimOf, paidOf>> <=> UNCHANGED Abstract!vars
  BY DEF Abstract!vars
<1>2. IInv /\ [Next]_vars => [Abstract!Next]_(Abstract!vars)
  BY NextMaps DEF Abstract!vars
<1> QED
  BY <1>2, InitMaps, Invariance, PTL DEF Spec, ImplementsShiftClaims, Abstract!Spec

-----------------------------------------------------------------------------
(***************************************************************************)
(* The wallet.  To CreditAward a redemption is a stuttering step, so that  *)
(* what is shown of the awards alone holds while the wallet is spent from. *)
(***************************************************************************)

\* A behaviour of the wallet is a behaviour of the awards: a redemption writes
\* no RSVP, no request and no earn_shift credit (redeemOffer).
THEOREM RedemptionsStutter == WalletSpec => Spec
<1>1. WalletInit => Init
  BY DEF WalletInit
<1>2. [WalletNext]_<<vars, walletVars>> => [Next]_vars
  BY DEF WalletNext
<1> QED
  BY <1>1, <1>2, PTL DEF WalletSpec, Spec

\* No shift is credited twice, whatever is redeemed meanwhile.
THEOREM PaidOnceWhileRedeeming == WalletSpec => []OneAwardPerShift
BY RedemptionsStutter, PaidOnce, PTL

\* An approved request has its credit, whatever is redeemed meanwhile.
THEOREM ApprovalPaysWhileRedeeming == WalletSpec => []ApprovedIffPaid
BY RedemptionsStutter, ApprovalPays, PTL

\* The wallet's awards go on implementing the life of a claim.
THEOREM ClaimsWhileRedeeming == WalletSpec => ImplementsShiftClaims
BY RedemptionsStutter, Refinement, PTL

-----------------------------------------------------------------------------
(***************************************************************************)
(* The wallet is never overdrawn: the awards only raise what it has        *)
(* earned, because they implement ShiftClaims, and the redemption under    *)
(* way, of which there is one, is covered.                                 *)
(***************************************************************************)

OneRedeemer ==
    \A c, d \in Clients : redeeming[c] # {} /\ redeeming[d] # {} => c = d

\* What the redemption under way is about to debit is still there.
RedemptionCovered ==
    \A c \in Clients : \A o \in redeeming[c] :
        redeeming[c] = {o} /\ Spent + Cost[o] <= Earned

WInv ==
    /\ IInv
    /\ redeemed \in [Offers -> Nat]
    /\ redeeming \in [Clients -> SUBSET Offers]
    /\ OneRedeemer
    /\ RedemptionCovered
    /\ NeverOverdrawn

CreditsOf == [s \in Shifts |-> Credits(s) * ShiftCredits[s]]
CostsOf == [o \in Offers |-> redeemed[o] * Cost[o]]

LEMMA WalletSums ==
    /\ Earned = SumFunctionOnSet(CreditsOf, Shifts)
    /\ Spent = SumFunctionOnSet(CostsOf, Offers)
BY DEF Earned, Spent, CreditsOf, CostsOf, SumFunction

LEMMA CreditsCounted == TypeOK => \A s \in Shifts : Credits(s) \in Nat
<1> SUFFICES ASSUME TypeOK, NEW s \in Shifts PROVE Credits(s) \in Nat
  OBVIOUS
<1>1. /\ wallet[s]["verify"] \in Nat
      /\ wallet[s]["org"] \in Nat
      /\ wallet[s]["admin"] \in Nat
  BY DEF TypeOK
<1> QED
  BY <1>1 DEF Credits

LEMMA NatProduct == ASSUME NEW m \in Nat, NEW n \in Nat PROVE m * n \in Nat
OBVIOUS

LEMMA OneMoreFactor ==
    ASSUME NEW m \in Nat, NEW n \in Nat PROVE (m + 1) * n - m * n = n
OBVIOUS

LEMMA LargerProduct ==
    ASSUME NEW m \in Nat, NEW n \in Nat, NEW k \in Nat, m <= n
    PROVE  m * k <= n * k /\ m * k \in Int /\ n * k \in Int
OBVIOUS

Counted ==
    /\ Earned \in Nat /\ Spent \in Nat
    /\ \A s \in Shifts : CreditsOf[s] \in Nat
    /\ \A o \in Offers : CostsOf[o] \in Nat

LEMMA SumsCounted == TypeOK /\ redeemed \in [Offers -> Nat] => Counted
<1> SUFFICES ASSUME TypeOK, redeemed \in [Offers -> Nat] PROVE Counted
  OBVIOUS
<1>1. ASSUME NEW s \in Shifts PROVE CreditsOf[s] \in Nat
  <2>1. Credits(s) \in Nat /\ ShiftCredits[s] \in Nat
    BY CreditsCounted, ShiftCreditsPositive
  <2> QED
    BY <2>1, NatProduct DEF CreditsOf
<1>2. ASSUME NEW o \in Offers PROVE CostsOf[o] \in Nat
  <2>1. redeemed[o] \in Nat /\ Cost[o] \in Nat
    BY CostPositive
  <2> QED
    BY <2>1, NatProduct DEF CostsOf
<1>3. Earned \in Nat /\ Spent \in Nat
  BY <1>1, <1>2, SumNat, WalletSums, RowsFinite
<1> QED
  BY <1>1, <1>2, <1>3 DEF Counted

\* The same of the next state.
LEMMA CountedNext ==
    /\ (TypeOK => \A s \in Shifts : Credits(s) \in Nat)'
    /\ (TypeOK /\ redeemed \in [Offers -> Nat] => Counted)'
    /\ (Earned = SumFunctionOnSet(CreditsOf, Shifts))'
    /\ (Spent = SumFunctionOnSet(CostsOf, Offers))'
BY CreditsCounted, SumsCounted, WalletSums, PTL

\* An award is one of the steps of ShiftClaims, which take no credit back.
LEMMA AwardsRaise ==
    ASSUME IInv, [Next]_vars, NEW s \in Shifts
    PROVE  Credits(s) <= Credits(s)'
<1>1. [Abstract!Next]_<<claimOf, paidOf>>
  BY NextMaps
<1>2. Credits(s) \in Nat /\ Credits(s) <= 1
  BY CreditsCounted DEF IInv, OneAwardPerShift
<1>3. DOMAIN paidOf = Shifts /\ paidOf[s] = Credits(s) /\ paidOf'[s] = Credits(s)'
  BY DEF paidOf
<1>4. paidOf'[s] \in {paidOf[s], 1}
  <2>1. CASE UNCHANGED paidOf
    BY <2>1
  <2>2. ASSUME NEW r \in Shifts, paidOf' = [paidOf EXCEPT ![r] = 1]
        PROVE  paidOf'[s] \in {paidOf[s], 1}
    BY <1>3, <2>2
  <2> QED
    BY <1>1, <2>1, <2>2
    DEF Abstract!Next, Abstract!Open, Abstract!Refuse, Abstract!Settle, Abstract!PayBeside
<1> HIDE DEF paidOf
<1> QED
  BY <1>2, <1>3, <1>4

LEMMA EarnedGrows ==
    ASSUME IInv, [Next]_vars, redeemed \in [Offers -> Nat]
    PROVE  Earned <= Earned'
<1>1. TypeOK /\ TypeOK'
  BY NextInv DEF IInv
<1>2. ASSUME NEW s \in Shifts
      PROVE  /\ CreditsOf[s] \in Int /\ CreditsOf'[s] \in Int
             /\ CreditsOf[s] <= CreditsOf'[s]
  <2>1. Credits(s) \in Nat /\ Credits(s)' \in Nat /\ ShiftCredits[s] \in Nat
    BY <1>1, CreditsCounted, CountedNext, ShiftCreditsPositive
  <2>2. Credits(s) <= Credits(s)'
    BY AwardsRaise
  <2>3. /\ Credits(s) * ShiftCredits[s] <= Credits(s)' * ShiftCredits[s]
        /\ Credits(s) * ShiftCredits[s] \in Int /\ Credits(s)' * ShiftCredits[s] \in Int
    BY <2>1, <2>2, LargerProduct, Zenon
  <2>4. CreditsOf[s] = Credits(s) * ShiftCredits[s] /\ CreditsOf'[s] = Credits(s)' * ShiftCredits[s]
    BY DEF CreditsOf
  <2> QED
    BY <2>3, <2>4, Zenon
<1>3. Earned' = SumFunctionOnSet(CreditsOf', Shifts)
  BY CountedNext
<1> QED
  BY <1>2, <1>3, SumMonotone, WalletSums, RowsFinite

LEMMA WalletInitKeeps == WalletInit => WInv
<1> SUFFICES ASSUME WalletInit PROVE WInv
  OBVIOUS
<1>1. IInv
  BY InitInv DEF WalletInit
<1>2. /\ redeemed = [o \in Offers |-> 0] /\ redeemed \in [Offers -> Nat]
      /\ redeeming \in [Clients -> SUBSET Offers] /\ \A c \in Clients : redeeming[c] = {}
  BY DEF WalletInit
<1>3. Spent = 0
  <2>1. \A o \in Offers : CostsOf[o] = 0 /\ CostsOf[o] \in Int
    <3>1. ASSUME NEW o \in Offers PROVE 0 * Cost[o] = 0
      BY CostPositive
    <3> QED
      BY <1>2, <3>1 DEF CostsOf
  <2>2. {} \in SUBSET Offers /\ \A o \in Offers \ {} : CostsOf[o] = 0
    BY <2>1
  <2>3. SumFunctionOnSet(CostsOf, Offers) = SumFunctionOnSet(CostsOf, {})
    BY <2>1, <2>2, SumOfSupport, RowsFinite
  <2> QED
    BY <2>3, SumEmpty, WalletSums
<1>4. Earned \in Nat
  BY <1>1, <1>2, SumsCounted DEF IInv, Counted
<1> QED
  BY <1>1, <1>2, <1>3, <1>4 DEF WInv, OneRedeemer, RedemptionCovered, NeverOverdrawn

LEMMA AwardKeeps ==
    ASSUME WInv, [Next]_vars, UNCHANGED walletVars
    PROVE  WInv'
<1>1. IInv /\ IInv' /\ TypeOK /\ TypeOK' /\ redeemed \in [Offers -> Nat]
  BY NextInv DEF WInv, IInv
<1>2. UNCHANGED <<redeemed, redeeming>>
  BY DEF walletVars
<1>3. Spent' = Spent
  BY <1>2 DEF Spent
<1>4. Earned <= Earned' /\ Earned \in Nat /\ Earned' \in Nat /\ Spent \in Nat
  BY <1>1, <1>2, EarnedGrows, SumsCounted, CountedNext DEF Counted
<1>5. \A n \in Nat : Spent + n <= Earned => Spent + n <= Earned'
  BY <1>4
<1>6. \A o \in Offers : Cost[o] \in Nat
  BY CostPositive
<1>7. RedemptionCovered'
  BY <1>2, <1>3, <1>5, <1>6 DEF WInv, RedemptionCovered
<1>8. NeverOverdrawn'
  BY <1>3, <1>4 DEF WInv, NeverOverdrawn
<1> QED
  BY <1>1, <1>2, <1>7, <1>8 DEF WInv, OneRedeemer

LEMMA RedemptionKeeps ==
    ASSUME WInv, WalletStep, UNCHANGED vars
    PROVE  WInv'
<1>1. /\ IInv /\ TypeOK /\ redeemed \in [Offers -> Nat]
      /\ redeeming \in [Clients -> SUBSET Offers]
      /\ OneRedeemer /\ RedemptionCovered /\ NeverOverdrawn
  BY DEF WInv, IInv
<1>2. IInv'
  BY <1>1, StutterInv
<1>3. UNCHANGED wallet
  BY DEF vars
<1>4. Earned' = Earned
  BY <1>3 DEF Earned, Credits
<1>5. Earned \in Nat /\ Spent \in Nat
  BY <1>1, SumsCounted DEF Counted
<1>6. \A o \in Offers : Cost[o] \in Nat /\ Cost[o] > 0
  BY CostPositive
<1>7. ASSUME NEW c \in Clients, NEW o \in Offers, BeginRedeem(c, o) PROVE WInv'
  <2>1. /\ \A d \in Clients : redeeming[d] = {}
        /\ redeeming' = [redeeming EXCEPT ![c] = {o}] /\ redeemed' = redeemed
        /\ Earned - Spent >= Cost[o]
    BY <1>7 DEF BeginRedeem, UserFree
  <2>2. Spent' = Spent
    BY <2>1 DEF Spent
  <2>3. Spent + Cost[o] <= Earned
    BY <1>5, <1>6, <2>1
  <2>4. redeeming'[c] = {o} /\ \A d \in Clients \ {c} : redeeming'[d] = {}
    BY <1>1, <2>1
  <2>5. RedemptionCovered'
    BY <1>4, <2>2, <2>3, <2>4 DEF RedemptionCovered
  <2>6. OneRedeemer'
    BY <2>4 DEF OneRedeemer
  <2>7. NeverOverdrawn'
    BY <1>1, <1>4, <2>2 DEF NeverOverdrawn
  <2> QED
    BY <1>1, <1>2, <2>1, <2>5, <2>6, <2>7 DEF WInv
<1>8. ASSUME NEW c \in Clients, RollbackRedeem(c) PROVE WInv'
  <2>1. redeeming' = [redeeming EXCEPT ![c] = {}] /\ redeemed' = redeemed
    BY <1>8 DEF RollbackRedeem
  <2>2. Spent' = Spent
    BY <2>1 DEF Spent
  <2>3. \A d \in Clients : redeeming'[d] \in {redeeming[d], {}}
    BY <1>1, <2>1
  <2>4. RedemptionCovered'
    BY <1>1, <1>4, <2>2, <2>3 DEF RedemptionCovered
  <2>5. OneRedeemer'
    BY <1>1, <2>3 DEF OneRedeemer
  <2>6. NeverOverdrawn'
    BY <1>1, <1>4, <2>2 DEF NeverOverdrawn
  <2> QED
    BY <1>1, <1>2, <2>1, <2>4, <2>5, <2>6 DEF WInv
<1>9. ASSUME NEW c \in Clients, CommitRedeem(c) PROVE WInv'
  <2>1. PICK o \in redeeming[c] : TRUE
    BY <1>9 DEF CommitRedeem
  <2>2. o \in Offers /\ redeeming[c] = {o} /\ Spent + Cost[o] <= Earned
    BY <1>1 DEF RedemptionCovered
  <2>3. /\ redeemed' = [p \in Offers |-> IF p \in {o} THEN redeemed[p] + 1 ELSE redeemed[p]]
        /\ redeeming' = [redeeming EXCEPT ![c] = {}]
    BY <1>9, <2>2 DEF CommitRedeem
  <2>4. redeemed' \in [Offers -> Nat]
    BY <1>1, <2>3
  <2>5. \A d \in Clients : redeeming'[d] = {}
    BY <1>1, <2>2, <2>3 DEF OneRedeemer
  <2>6. Spent' = Spent + Cost[o]
    <3>1. \A p \in Offers : CostsOf[p] \in Int /\ CostsOf'[p] \in Int
      <4>1. TypeOK'
        BY <1>2 DEF IInv
      <4> QED
        BY <1>1, <2>4, <4>1, SumsCounted, CountedNext DEF Counted
    <3>2. \A p \in Offers \ {o} : CostsOf'[p] = CostsOf[p]
      BY <2>3 DEF CostsOf
    <3>3. CostsOf'[o] - CostsOf[o] = Cost[o]
      <4>1. CostsOf[o] = redeemed[o] * Cost[o] /\ CostsOf'[o] = (redeemed[o] + 1) * Cost[o]
        BY <2>2, <2>3 DEF CostsOf
      <4>2. redeemed[o] \in Nat /\ Cost[o] \in Nat
        BY <1>1, <1>6, <2>2
      <4>3. (redeemed[o] + 1) * Cost[o] - redeemed[o] * Cost[o] = Cost[o]
        BY <4>2, OneMoreFactor, Zenon
      <4> QED
        BY <4>1, <4>3, Zenon
    <3>4. Spent' = SumFunctionOnSet(CostsOf', Offers)
      BY CountedNext
    <3>5. SumFunctionOnSet(CostsOf', Offers)
            = SumFunctionOnSet(CostsOf, Offers) + (CostsOf'[o] - CostsOf[o])
      BY <2>2, <3>1, <3>2, SumChangedAt, RowsFinite
    <3> QED
      BY <3>3, <3>4, <3>5, WalletSums
  <2>7. NeverOverdrawn'
    BY <1>4, <2>2, <2>6 DEF NeverOverdrawn
  <2>8. RedemptionCovered' /\ OneRedeemer'
    BY <2>5 DEF RedemptionCovered, OneRedeemer
  <2> QED
    BY <1>1, <1>2, <2>3, <2>4, <2>7, <2>8 DEF WInv
<1> QED
  BY <1>7, <1>8, <1>9 DEF WalletStep

\* Debits never exceed credits, for any offers, costs and connections, however
\* redemptions and awards of one wallet overlap (redeemOffer).
THEOREM WalletCovered == WalletSpec => []NeverOverdrawn
<1>1. WInv /\ [WalletNext]_<<vars, walletVars>> => WInv'
  <2>1. ASSUME WInv, Next, UNCHANGED walletVars PROVE WInv'
    BY <2>1, AwardKeeps
  <2>2. ASSUME WInv, WalletStep, UNCHANGED vars PROVE WInv'
    BY <2>2, RedemptionKeeps
  <2>3. ASSUME WInv, UNCHANGED <<vars, walletVars>> PROVE WInv'
    BY <2>3, AwardKeeps
  <2> QED
    BY <2>1, <2>2, <2>3 DEF WalletNext
<1>2. WInv => NeverOverdrawn
  BY DEF WInv
<1> QED
  BY <1>1, <1>2, WalletInitKeeps, PTL DEF WalletSpec

=============================================================================
