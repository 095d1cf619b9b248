---------------------------- MODULE CreditAward ----------------------------
(***************************************************************************)
(* How a verified volunteer shift becomes a credit in the volunteer's      *)
(* wallet.  A "shift" is one (volunteer, event) pair, that is one row of   *)
(* event_rsvps.  Four code paths meet on it, each a PostgreSQL transaction *)
(* at READ COMMITTED:                                                      *)
(*                                                                         *)
(*   verify   the host verifies attendance (verifyEventRsvp), which opens  *)
(*            a pending credit request (processVerifiedEarnShift);         *)
(*   approve  an administrator approves a request, which pays the shift    *)
(*            (approvePendingCreditRequest), or rejects it;                *)
(*   org      the organisation portal verifies attendance and pays the     *)
(*            shift in one go (awardIcForRsvp);                            *)
(*   admin    an administrator inserts a wallet row directly.              *)
(*                                                                         *)
(* One step is one statement whose reads can go stale or whose lock can    *)
(* make the transaction wait.  Writes of an open transaction are kept in   *)
(* its session and become visible at commit; locks are not a variable of   *)
(* their own: which session holds which lock follows from how far it is.   *)
(***************************************************************************)
EXTENDS Naturals

CONSTANTS
    Shifts,     \* the (volunteer, event) pairs with an RSVP
    Slots,      \* ids of the credit requests of one shift (a bound for TLC)
    Sessions,   \* database sessions serving requests
    NoShift, NoSlot

ASSUME NotAShift == NoShift \notin Shifts
ASSUME NotASlot == NoSlot \notin Slots

VARIABLES
    verification,   \* event_rsvps.verification_status, committed
    request,        \* pending_credit_requests.status per shift and slot
    wallet,         \* how many committed earn_shift credits a shift has, by note
    tx              \* the transaction each session is running

vars == <<verification, request, wallet, tx>>

Verifications == {"pending", "verified", "rejected"}
RequestStatuses == {"unused", "pending", "approved", "rejected"}
Notes == {"verify", "org", "admin"}

Ops == {"none", "verify", "approve", "org"}
Steps == {"idle", "advisory", "find_award", "find_pending", "find_approved",
          "insert_request", "check_rsvp", "find_or_insert", "lock_rsvp",
          "insert_award", "commit"}

Transactions ==
    [op: Ops, step: Steps, shift: Shifts \cup {NoShift},
     slot: Slots \cup {NoSlot}, award: BOOLEAN]

Idle == [op |-> "none", step |-> "idle", shift |-> NoShift, slot |-> NoSlot,
         award |-> FALSE]

TypeOK ==
    /\ verification \in [Shifts -> Verifications]
    /\ request \in [Shifts -> [Slots -> RequestStatuses]]
    /\ wallet \in [Shifts -> [Notes -> Nat]]
    /\ tx \in [Sessions -> Transactions]

Init ==
    /\ verification = [s \in Shifts |-> "pending"]
    /\ request = [s \in Shifts |-> [k \in Slots |-> "unused"]]
    /\ wallet = [s \in Shifts |-> [n \in Notes |-> 0]]
    /\ tx = [t \in Sessions |-> Idle]

\* The number of earn_shift credits of a shift.
Credits(s) == wallet[s]["verify"] + wallet[s]["org"] + wallet[s]["admin"]

Paid(s) == Credits(s) > 0

(***************************************************************************)
(* Locks, each held from the statement that takes it to the end of the     *)
(* transaction.                                                            *)
(***************************************************************************)

\* The RSVP row: SELECT ... FOR UPDATE of the host's handler, or the UPDATE
\* of the organisation portal's.
HoldsRsvpRow(t) ==
    \/ tx[t].op = "verify"
    \/ tx[t].op = "org" /\ tx[t].step \in {"insert_award", "commit"}

RsvpRowFree(s) == \A t \in Sessions : tx[t].shift = s => ~HoldsRsvpRow(t)

\* pg_advisory_xact_lock on "<user>:<event>".
HoldsAdvisory(t) ==
    /\ tx[t].op \in {"verify", "approve"}
    /\ tx[t].step # "advisory"

AdvisoryFree(s) == \A t \in Sessions : tx[t].shift = s => ~HoldsAdvisory(t)

\* The key of the unique index on (user_id, event_id) of earn_shift credits:
\* an inserted but uncommitted row makes every other insert of the key wait.
HoldsAwardKey(t) == tx[t].step = "commit" /\ tx[t].award

AwardKeyFree(s) == \A t \in Sessions : tx[t].shift = s => ~HoldsAwardKey(t)

\* The credit request row, locked by fetchPendingRequestForUpdate.
RequestRowFree(s, k) ==
    \A t \in Sessions :
        ~(tx[t].op = "approve" /\ tx[t].shift = s /\ tx[t].slot = k)

Start(t, op, step, s, k) ==
    tx' = [tx EXCEPT ![t] = [op |-> op, step |-> step, shift |-> s, slot |-> k,
                             award |-> FALSE]]
Goto(t, step) == tx' = [tx EXCEPT ![t].step = step]
End(t) == tx' = [tx EXCEPT ![t] = Idle]

\* A process that dies, a lost connection, an error or an early return with
\* ROLLBACK: nothing the transaction wrote survives.
Rollback(t) ==
    /\ tx[t].step # "idle"
    /\ End(t)
    /\ UNCHANGED <<verification, request, wallet>>

(***************************************************************************)
(* verify: the host verifies attendance.                                   *)
(***************************************************************************)

\* The bound on requests: a shift whose slots are used up takes no further
\* verification that could insert one.
RoomForRequest(s) ==
    Paid(s) \/ \E k \in Slots : request[s][k] = "unused"

\* Mutant: the verification is committed before the request is filed.
BeginVerifyAutocommit(t, s) ==
    /\ tx[t] = Idle
    /\ RsvpRowFree(s)
    /\ RoomForRequest(s)
    /\ verification' = [verification EXCEPT ![s] = "verified"]
    /\ Start(t, "verify", "advisory", s, NoSlot)
    /\ UNCHANGED <<request, wallet>>

\* Lock the RSVP row.  Both a row that is not verified yet and one that is
\* go on to processVerifiedEarnShift, the second one without an update.
\* (Whether the RSVP is accepted and not a no-show is EventRsvp's concern:
\* here the handler may be refused at any time, which changes nothing.  So
\* does a verified row with no duration to reward, zero_credit; the handler
\* rounds the duration of a fresh verification up to 15 minutes.)
BeginVerify(t, s) ==
    /\ tx[t] = Idle
    /\ RsvpRowFree(s)
    /\ RoomForRequest(s)
    /\ Start(t, "verify", "advisory", s, NoSlot)
    /\ UNCHANGED <<verification, request, wallet>>

\* decision = "rejected": one locked row, updated and committed.
RejectAttendance(s) ==
    /\ RsvpRowFree(s)
    /\ verification[s] # "verified"
    /\ verification' = [verification EXCEPT ![s] = "rejected"]
    /\ UNCHANGED <<request, wallet, tx>>

\* Mutant: no-show forgets that a verified RSVP is final.
MarkVerifiedNoShow(s) ==
    /\ RsvpRowFree(s)
    /\ verification' = [verification EXCEPT ![s] = "pending"]
    /\ UNCHANGED <<request, wallet, tx>>

\* markEventNoShow refuses a verified RSVP, and puts any other back to pending.
MarkNoShow(s) ==
    /\ RsvpRowFree(s)
    /\ verification[s] # "verified"
    /\ verification' = [verification EXCEPT ![s] = "pending"]
    /\ UNCHANGED <<request, wallet, tx>>

TakeAdvisory(t) ==
    /\ tx[t].step = "advisory"
    /\ AdvisoryFree(tx[t].shift)
    /\ Goto(t, IF tx[t].op = "verify" THEN "find_award" ELSE "check_rsvp")
    /\ UNCHANGED <<verification, request, wallet>>

\* COMMIT of the host's transaction when no request has to be inserted.
CommitVerified(t) ==
    /\ verification' = [verification EXCEPT ![tx[t].shift] = "verified"]
    /\ End(t)
    /\ UNCHANGED <<request, wallet>>

\* findExistingEarnShiftWalletTx: an award ends it with already_awarded.
FindAward(t) ==
    /\ tx[t].step = "find_award"
    /\ IF Paid(tx[t].shift)
       THEN CommitVerified(t)
       ELSE Goto(t, "find_pending") /\ UNCHANGED <<verification, request, wallet>>

HasRequest(s, status) == \E k \in Slots : request[s][k] = status

\* findPendingCreditRequest: an open request is reused.
FindPending(t) ==
    /\ tx[t].step = "find_pending"
    /\ IF HasRequest(tx[t].shift, "pending")
       THEN CommitVerified(t)
       ELSE Goto(t, "find_approved") /\ UNCHANGED <<verification, request, wallet>>

\* findApprovedCreditRequest: so is an approved one; a rejected one is not.
FindApproved(t) ==
    /\ tx[t].step = "find_approved"
    /\ IF HasRequest(tx[t].shift, "approved")
       THEN CommitVerified(t)
       ELSE Goto(t, "insert_request") /\ UNCHANGED <<verification, request, wallet>>

\* INSERT the request and COMMIT.  The unique index on pending requests turns
\* a second pending row into an error, that is into a rollback.
InsertRequest(t) ==
    LET s == tx[t].shift IN
    /\ tx[t].step = "insert_request"
    /\ IF HasRequest(s, "pending")
       THEN UNCHANGED <<verification, request>>
       ELSE /\ \E k \in Slots :
                  /\ request[s][k] = "unused"
                  /\ request' = [request EXCEPT ![s][k] = "pending"]
            /\ verification' = [verification EXCEPT ![s] = "verified"]
    /\ End(t)
    /\ UNCHANGED wallet

(***************************************************************************)
(* approve: an administrator reviews a request.                            *)
(***************************************************************************)

\* Mutant: a reviewed request can be approved again.
BeginApproveReviewed(t, s, k) ==
    /\ tx[t] = Idle
    /\ RequestRowFree(s, k)
    /\ request[s][k] # "unused"
    /\ Start(t, "approve", "advisory", s, k)
    /\ UNCHANGED <<verification, request, wallet>>

\* Mutant: the verdict is committed before the award is paid.
BeginApproveAutocommit(t, s, k) ==
    /\ tx[t] = Idle
    /\ RequestRowFree(s, k)
    /\ request[s][k] = "pending"
    /\ request' = [request EXCEPT ![s][k] = "approved"]
    /\ Start(t, "approve", "advisory", s, k)
    /\ UNCHANGED <<verification, wallet>>

\* SELECT ... FOR UPDATE; anything but a pending request is already_reviewed.
BeginApprove(t, s, k) ==
    /\ tx[t] = Idle
    /\ RequestRowFree(s, k)
    /\ request[s][k] = "pending"
    /\ Start(t, "approve", "advisory", s, k)
    /\ UNCHANGED <<verification, request, wallet>>

\* Mutant: approval locks the RSVP row while it holds the advisory lock, the
\* opposite order of verification.
CheckLockedRsvp(t) ==
    /\ tx[t].step = "check_rsvp"
    /\ RsvpRowFree(tx[t].shift)
    /\ IF verification[tx[t].shift] = "verified"
       THEN Goto(t, "find_or_insert")
       ELSE End(t)
    /\ UNCHANGED <<verification, request, wallet>>

\* fetchVerifiedRsvp, without a lock on the row.
CheckRsvp(t) ==
    /\ tx[t].step = "check_rsvp"
    /\ IF verification[tx[t].shift] = "verified"
       THEN Goto(t, "find_or_insert")
       ELSE End(t)
    /\ UNCHANGED <<verification, request, wallet>>

\* findOrInsertWalletTx, the lookup: an award that is there already is the
\* one that the rest of the transaction funds.
FindOrInsert(t) ==
    /\ tx[t].step = "find_or_insert"
    /\ Goto(t, IF Paid(tx[t].shift) THEN "commit" ELSE "insert_award")
    /\ UNCHANGED <<verification, request, wallet>>

\* Mutant: no unique index on the award.
InsertAwardUnchecked(t) ==
    /\ tx[t].step = "insert_award"
    /\ tx' = [tx EXCEPT ![t].step = "commit", ![t].award = TRUE]
    /\ UNCHANGED <<verification, request, wallet>>

\* The INSERT into wallet_transactions, in approve and in org: it waits for
\* an uncommitted row with its key, and a committed one makes it an error,
\* which rolls the transaction back.
InsertAward(t) ==
    /\ tx[t].step = "insert_award"
    /\ AwardKeyFree(tx[t].shift)
    /\ IF Paid(tx[t].shift)
       THEN End(t)
       ELSE tx' = [tx EXCEPT ![t].step = "commit", ![t].award = TRUE]
    /\ UNCHANGED <<verification, request, wallet>>

Pay(s, note) == wallet' = [wallet EXCEPT ![s][note] = @ + 1]

\* Fund the award (FundingLedger), mark the request approved, COMMIT.
CommitApprove(t) ==
    LET s == tx[t].shift IN
    /\ tx[t].op = "approve"
    /\ tx[t].step = "commit"
    /\ request' = [request EXCEPT ![s][tx[t].slot] = "approved"]
    /\ IF tx[t].award THEN Pay(s, "verify") ELSE UNCHANGED wallet
    /\ End(t)
    /\ UNCHANGED verification

\* Mutant: an approved request can still be rejected.
RejectReviewedRequest(s, k) ==
    /\ RequestRowFree(s, k)
    /\ request[s][k] # "unused"
    /\ request' = [request EXCEPT ![s][k] = "rejected"]
    /\ UNCHANGED <<verification, wallet, tx>>

\* rejectPendingCreditRequest takes the request row and nothing else.
RejectRequest(s, k) ==
    /\ RequestRowFree(s, k)
    /\ request[s][k] = "pending"
    /\ request' = [request EXCEPT ![s][k] = "rejected"]
    /\ UNCHANGED <<verification, wallet, tx>>

(***************************************************************************)
(* org and admin: the two paths that pay without a request.                *)
(***************************************************************************)

\* awardIcForRsvp reads the RSVP outside its transaction.
BeginOrgVerify(t, s) ==
    /\ tx[t] = Idle
    /\ verification[s] # "verified"
    /\ Start(t, "org", "lock_rsvp", s, NoSlot)
    /\ UNCHANGED <<verification, request, wallet>>

\* UPDATE event_rsvps by id, whatever the row says by now.
OrgUpdateRsvp(t) ==
    /\ tx[t].step = "lock_rsvp"
    /\ RsvpRowFree(tx[t].shift)
    /\ Goto(t, "insert_award")
    /\ UNCHANGED <<verification, request, wallet>>

CommitOrgVerify(t) ==
    LET s == tx[t].shift IN
    /\ tx[t].op = "org"
    /\ tx[t].step = "commit"
    /\ verification' = [verification EXCEPT ![s] = "verified"]
    /\ Pay(s, "org")
    /\ End(t)
    /\ UNCHANGED request

\* POST /credits/allocate with reason earn_shift: a single INSERT.
AdminAllocate(s) ==
    /\ AwardKeyFree(s)
    /\ ~Paid(s)
    /\ Pay(s, "admin")
    /\ UNCHANGED <<verification, request, tx>>

-----------------------------------------------------------------------------

\* The steps of a transaction under way.
Continue(t) ==
    \/ FindAward(t) \/ FindPending(t) \/ FindApproved(t) \/ InsertRequest(t)
    \/ CheckRsvp(t) \/ FindOrInsert(t) \/ CommitApprove(t) \/ CommitOrgVerify(t)

\* Those of its steps that may have to wait for another transaction.
Acquire(t) == TakeAdvisory(t) \/ InsertAward(t) \/ OrgUpdateRsvp(t)

\* Requests the program receives.
Arrival(s) ==
    \/ RejectAttendance(s)
    \/ MarkNoShow(s)
    \/ AdminAllocate(s)
    \/ \E k \in Slots : RejectRequest(s, k)
    \/ \E t \in Sessions :
          \/ BeginVerify(t, s)
          \/ BeginOrgVerify(t, s)
          \/ \E k \in Slots : BeginApprove(t, s, k)

Next ==
    \/ \E s \in Shifts : Arrival(s)
    \/ \E t \in Sessions : Continue(t) \/ Acquire(t) \/ Rollback(t)

Spec == Init /\ [][Next]_vars

(***************************************************************************)
(* A session runs its statements; PostgreSQL hands a lock to its waiters   *)
(* in turn, so that a waiter that could repeatedly have had the lock gets  *)
(* it.  Nobody promises that a request ever arrives, or a crash.           *)
(***************************************************************************)
Fairness == \A t \in Sessions : WF_vars(Continue(t)) /\ SF_vars(Acquire(t))

(***************************************************************************)
(* Properties                                                              *)
(***************************************************************************)

\* A shift is paid at most once, whichever of the paths pay it and however
\* they interleave: the paths of the organisation portal and of direct
\* allocation take no advisory lock.
OneAwardPerShift == \A s \in Shifts : Credits(s) <= 1

\* An approved request has its award, and an award that came from approval has
\* its approved request: a crash never separates the two.
ApprovedIffPaid ==
    \A s \in Shifts :
        /\ HasRequest(s, "approved") => Paid(s)
        /\ wallet[s]["verify"] > 0 => HasRequest(s, "approved")

\* Once a shift's request is approved, no other request of it is open or
\* approved: verifying it again, or reviewing a request that was rejected
\* earlier, never puts it up for payment a second time.
SettledShiftHasOneRequest ==
    \A s \in Shifts : \A j, k \in Slots :
        /\ j # k
        /\ request[s][j] \in {"pending", "approved"}
        => request[s][k] \notin {"pending", "approved"}

\* A verified shift is never left without either a payment or a request
\* somebody reviewed or will review.
VerifiedShiftHasClaim ==
    \A s \in Shifts :
        verification[s] = "verified" =>
            \/ Paid(s)
            \/ \E k \in Slots : request[s][k] # "unused"

\* Decisions are final: a reviewed request keeps its verdict and a verified
\* shift stays verified, although approval reads both before it acts and
\* no-show, rejection and the portal write them meanwhile.
DecisionsAreFinal ==
    [][\A s \in Shifts :
          /\ verification[s] = "verified" => verification'[s] = "verified"
          /\ \A k \in Slots :
                request[s][k] \in {"approved", "rejected"}
                    => request'[s][k] = request[s][k]]_vars

(***************************************************************************)
(* The workflow implements ShiftClaims: the requests of a shift together   *)
(* are its claim.                                                          *)
(***************************************************************************)

ClaimOf(s) ==
    IF HasRequest(s, "approved") THEN "settled"
    ELSE IF HasRequest(s, "pending") THEN "open"
    ELSE IF HasRequest(s, "rejected") THEN "refused"
    ELSE "none"

claimOf == [s \in Shifts |-> ClaimOf(s)]
paidOf == [s \in Shifts |-> Credits(s)]

Abstract == INSTANCE ShiftClaims WITH claim <- claimOf, paid <- paidOf

\* Every interleaving of the four paths looks, from outside, like one claim
\* that is settled at most once and one payment.
ImplementsShiftClaims == Abstract!Spec

(***************************************************************************)
(* The inductive invariant behind the safety properties.                   *)
(***************************************************************************)

VerifySteps == {"advisory", "find_award", "find_pending", "find_approved",
                "insert_request"}
ApproveSteps == {"advisory", "check_rsvp", "find_or_insert", "insert_award", "commit"}
OrgSteps == {"lock_rsvp", "insert_award", "commit"}

\* What a session knows about its own transaction.
WellFormed(t) ==
    /\ tx[t].op = "none" => tx[t] = Idle
    /\ tx[t].op # "none" => tx[t].shift \in Shifts
    /\ tx[t].op = "verify" => tx[t].step \in VerifySteps
    /\ tx[t].op = "approve" => tx[t].step \in ApproveSteps /\ tx[t].slot \in Slots
    /\ tx[t].op = "org" => tx[t].step \in OrgSteps
    /\ tx[t].award => tx[t].step = "commit"
    /\ tx[t].op = "org" /\ tx[t].step = "commit" => tx[t].award

\* Two sessions on one shift never hold the same lock.
Exclusive(t, u) ==
    /\ ~(HoldsRsvpRow(t) /\ HoldsRsvpRow(u))
    /\ ~(HoldsAdvisory(t) /\ HoldsAdvisory(u))
    /\ ~(HoldsAwardKey(t) /\ HoldsAwardKey(u))
    /\ tx[t].op = "approve" /\ tx[u].op = "approve" => tx[t].slot # tx[u].slot

LocksExclude ==
    \A t, u \in Sessions : t # u /\ tx[t].shift = tx[u].shift => Exclusive(t, u)

\* What a transaction has read under a lock is still true when it acts on it.
StillHolds(t, s) ==
    /\ tx[t].op = "approve" => request[s][tx[t].slot] = "pending"
    /\ tx[t].step = "insert_request" => ~HasRequest(s, "approved")
    /\ tx[t].step = "commit" => (tx[t].award <=> ~Paid(s))

ReadsStillHold ==
    \A t \in Sessions, s \in Shifts : tx[t].shift = s => StillHolds(t, s)

\* The strengthening that every step preserves: an award is paid once because
\* the session about to insert it holds its key and saw no award under it.
IInv ==
    /\ TypeOK
    /\ \A t \in Sessions : WellFormed(t)
    /\ LocksExclude
    /\ ReadsStillHold
    /\ OneAwardPerShift
    /\ ApprovedIffPaid
    /\ SettledShiftHasOneRequest
    /\ VerifiedShiftHasClaim

\* No set of transactions waits for one another for ever.
EveryTransactionEnds ==
    \A t \in Sessions : (tx[t].step # "idle") ~> (tx[t].step = "idle")
=============================================================================
