----------------------------- MODULE EventRsvp -----------------------------
(***************************************************************************)
(* The sign-ups of one event: who is pending, waitlisted, seated or out,   *)
(* how many seats the event has, how many spots of each role are taken,    *)
(* and what the host says of attendance afterwards.                        *)
(*                                                                         *)
(* Volunteers accept and decline, the organisation approves and declines,  *)
(* hosts edit, cancel and complete the event, check people in, verify them *)
(* or mark them as no-shows.  Sign-ups are serialised by the lock on the   *)
(* event's row; attendance takes only the lock on the RSVP's row; check-in,*)
(* portal verification, cancellation and completion decide on an unlocked  *)
(* read and then UPDATE.  One step is one statement whose reads can go     *)
(* stale or whose lock can make the transaction wait; the writes of a      *)
(* transaction happen in its last step, which commits it.                  *)
(***************************************************************************)
EXTENDS Integers, FiniteSets

CONSTANTS
    Volunteers,
    Roles,          \* event_roles of the event
    NoRole, NoVolunteer,
    Sessions,
    Handlers,       \* the handlers that are called in an instance
    Capacities,     \* the values events.capacity is given; 0 stands for NULL
    SpotsNeeded,    \* event_roles.spots_needed
    MaxFilled       \* bound on event_roles.spots_filled

ASSUME NotARole == NoRole \notin Roles
ASSUME VolunteersFinite == IsFiniteSet(Volunteers) /\ NoVolunteer \notin Volunteers
ASSUME CapacitiesAreNat == Capacities \subseteq Nat
ASSUME SpotsNeededPositive == SpotsNeeded \in Nat \ {0}
ASSUME MaxFilledNat == MaxFilled \in Nat

VARIABLES
    event,      \* the row of events
    rsvp,       \* the row of event_rsvps of each volunteer, "none" if absent
    filled,     \* event_roles.spots_filled
    tx,         \* the transaction, or the unlocked decision, of each session
    outside     \* history: volunteers seated past the capacity check

vars == <<event, rsvp, filled, tx, outside>>

EventStatuses == {"published", "cancelled", "completed"}
Statuses == {"none", "pending", "waitlisted", "accepted", "checked_in", "declined"}
Verifications == {"pending", "rejected", "verified", "portal"}

SignupOps == {"accept", "decline", "approve", "org_decline"}
AttendanceOps == {"verify", "no_show"}
UnlockedOps == {"check_in", "portal_verify", "cancel", "complete"}
Ops == SignupOps \cup AttendanceOps \cup UnlockedOps \cup
       {"admin_signup", "update_event", "admin_patch"}

Events == [status: EventStatuses, capacity: Capacities, waitlist: BOOLEAN]
Rsvps == [status: Statuses, role: Roles \cup {NoRole}, noShow: BOOLEAN,
          verification: Verifications]

Steps == {"idle", "roles", "rsvp", "write", "claim"}

Transactions ==
    [op: Ops \cup {"none"}, step: Steps, v: Volunteers \cup {NoVolunteer},
     role: Roles \cup {NoRole}, seats: Nat]

Idle == [op |-> "none", step |-> "idle", v |-> NoVolunteer, role |-> NoRole,
         seats |-> 0]

TypeOK ==
    /\ event \in Events
    /\ rsvp \in [Volunteers -> Rsvps]
    /\ filled \in [Roles -> 0..MaxFilled]
    /\ outside \subseteq Volunteers
    /\ tx \in [Sessions -> Transactions]

\* Volunteers is the set of people who do not host the event: the service
\* refuses the host's own RSVP, and every count leaves the host out.
Init ==
    /\ event \in [status: {"published"}, capacity: Capacities, waitlist: BOOLEAN]
    /\ rsvp = [v \in Volunteers |-> [status |-> "none", role |-> NoRole,
                                     noShow |-> FALSE, verification |-> "pending"]]
    /\ filled = [r \in Roles |-> 0]
    /\ tx = [t \in Sessions |-> Idle]
    /\ outside = {}

SeatTaking == {"accepted", "checked_in"}
Counting == {"pending", "accepted", "checked_in", "waitlisted"}

Seated == {v \in Volunteers : rsvp[v].status \in SeatTaking}
Waitlisted == {v \in Volunteers : rsvp[v].status = "waitlisted"}

\* shouldCountRoleSignup
CountsForRole(x) == x.status \in Counting /\ ~x.noShow

Limited(e) == e.capacity > 0

(***************************************************************************)
(* Locks, each held to the end of the transaction.                         *)
(***************************************************************************)
HoldsEvent(t) == tx[t].op \in SignupOps
HoldsRoles(t) == tx[t].op = "accept" /\ tx[t].step \in {"rsvp", "write"}
HoldsRsvp(t, v) ==
    /\ \/ tx[t].op \in SignupOps \cup AttendanceOps
       \/ tx[t].op = "portal_verify" /\ tx[t].step = "claim"
    /\ tx[t].step \in {"write", "claim"}
    /\ tx[t].v = v

EventFree == \A t \in Sessions : ~HoldsEvent(t)
RolesFree == \A t \in Sessions : ~HoldsRoles(t)
RsvpFree(v) == \A t \in Sessions : ~HoldsRsvp(t, v)

Start(t, op, step, v, r) ==
    /\ op \in Handlers
    /\ tx[t] = Idle
    /\ tx' = [tx EXCEPT ![t] = [op |-> op, step |-> step, v |-> v, role |-> r,
                                seats |-> 0]]
At(t, op, step) == tx[t].op = op /\ tx[t].step = step
End(t) == tx' = [tx EXCEPT ![t] = Idle]

\* An error, a lost connection or an early return with ROLLBACK.
Rollback(t) ==
    /\ tx[t] # Idle
    /\ End(t)
    /\ UNCHANGED <<event, rsvp, filled, outside>>

(***************************************************************************)
(* Promotion from the waitlist, inside a transaction that has left event e *)
(* and RSVPs x.  Ids are random UUIDs, so ORDER BY id is an arbitrary      *)
(* order; FOR UPDATE SKIP LOCKED passes over the RSVPs that the sessions   *)
(* in others have locked.                                                  *)
(***************************************************************************)

Lowest(m, n) == IF m < n THEN m ELSE n
Atleast0(n) == IF n < 0 THEN 0 ELSE n

\* Mutant: the promotion is forgotten.
NoPromotion(others, e, x) == {{}}

\* The sets of volunteers a promotion may move to pending.
Promotions(others, e, x) ==
    LET waiting == {v \in Volunteers : x[v].status = "waitlisted"}
        unlocked == {v \in waiting : \A u \in others : ~HoldsRsvp(u, v)}
        seats == Cardinality({v \in Volunteers : x[v].status \in SeatTaking})
        limit == IF e.status = "cancelled" THEN 0
                 ELSE IF Limited(e) THEN Atleast0(e.capacity - seats)
                 ELSE Cardinality(waiting)
    IN {S \in SUBSET unlocked : Cardinality(S) = Lowest(limit, Cardinality(unlocked))}

Promoted(x, S) ==
    [v \in Volunteers |-> IF v \in S THEN [x[v] EXCEPT !.status = "pending"] ELSE x[v]]

(***************************************************************************)
(* Sign-up transactions: the lock on the event comes first.                *)
(***************************************************************************)

\* Mutant: a sign-up does not wait for the event's row.
BeginSignupUnlocked(t, op, step, v, r) ==
    /\ op \in SignupOps
    /\ Start(t, op, step, v, r)
    /\ UNCHANGED <<event, rsvp, filled, outside>>

\* Mutant: a cancelled event is not refused.
BeginSignupCancelled(t, op, step, v, r) ==
    /\ op \in SignupOps
    /\ EventFree
    /\ Start(t, op, step, v, r)
    /\ UNCHANGED <<event, rsvp, filled, outside>>

\* SELECT ... FROM events ... FOR UPDATE.  All but the organisation's
\* decline refuse a cancelled event.
BeginSignup(t, op, step, v, r) ==
    /\ op \in SignupOps
    /\ EventFree
    /\ event.status = "cancelled" => op = "org_decline"
    /\ Start(t, op, step, v, r)
    /\ UNCHANGED <<event, rsvp, filled, outside>>

\* A volunteer asks for a role; with one role in the event it may be left out.
\* An event without roles takes no sign-ups.
\* (MaxFilled bounds the counter for TLC.)
BeginAccept(t, v, r) ==
    r \in Roles /\ filled[r] < MaxFilled /\ BeginSignup(t, "accept", "roles", v, r)
BeginDecline(t, v) == BeginSignup(t, "decline", "rsvp", v, NoRole)
BeginApprove(t, v) == BeginSignup(t, "approve", "rsvp", v, NoRole)
BeginOrgDecline(t, v) == BeginSignup(t, "org_decline", "rsvp", v, NoRole)

\* validateRoleAssignment locks every role of the event.
LockRoles(t) ==
    /\ At(t, "accept", "roles")
    /\ tx' = [tx EXCEPT ![t].step = "rsvp"]
    /\ UNCHANGED <<event, rsvp, filled, outside>>

\* Lock the volunteer's RSVP, then count the seats taken.
LockRsvp(t) ==
    /\ tx[t].op \in SignupOps /\ tx[t].step = "rsvp"
    /\ RsvpFree(tx[t].v)
    /\ tx' = [tx EXCEPT ![t].step = "write", ![t].seats = Cardinality(Seated)]
    /\ UNCHANGED <<event, rsvp, filled, outside>>

\* resolveAcceptedRsvpStatus and what applyEventRsvpAction makes of it: a full
\* role, or a full event without a waitlist, leaves the request pending.
AcceptedStatus(r, seats) ==
    IF Limited(event) /\ seats >= event.capacity /\ event.waitlist
       /\ filled[r] < SpotsNeeded
    THEN "waitlisted" ELSE "pending"

\* Mutant: moving to another role does not give back the spot in the first.
FilledAfterAcceptKeeping(old, r) ==
    IF CountsForRole(old) /\ old.role = r THEN filled
    ELSE [filled EXCEPT ![r] = @ + 1]

\* The counters after old is replaced by a sign-up for role r.
FilledAfterAccept(old, r) ==
    LET counted == CountsForRole(old) /\ old.role \in Roles
        released == IF counted /\ old.role # r
                    THEN [filled EXCEPT ![old.role] = Atleast0(@ - 1)] ELSE filled
    IN IF counted /\ old.role = r THEN filled
       ELSE [released EXCEPT ![r] = @ + 1]

\* An upsert: no_show and the verification of an earlier life of the row stay.
Accept(t) ==
    LET v == tx[t].v
        r == tx[t].role
        old == rsvp[v]
    IN /\ At(t, "accept", "write")
       /\ IF old.status \in SeatTaking
          THEN UNCHANGED <<rsvp, filled>>
          ELSE /\ rsvp' = [rsvp EXCEPT ![v].status = AcceptedStatus(r, tx[t].seats),
                                       ![v].role = r]
               /\ filled' = FilledAfterAccept(old, r)
       /\ End(t)
       /\ UNCHANGED <<event, outside>>

\* Mutant: the decrement without GREATEST(..., 0).
FilledAfterLeavingUnfloored(old) ==
    IF CountsForRole(old) /\ old.role \in Roles
    THEN [filled EXCEPT ![old.role] = @ - 1] ELSE filled

FilledAfterLeaving(old) ==
    IF CountsForRole(old) /\ old.role \in Roles
    THEN [filled EXCEPT ![old.role] = Atleast0(@ - 1)] ELSE filled

\* What both declines write: the RSVP, the role's counter and, when a seat
\* was given up, the promotion.
WriteDeclined(t, v) ==
    LET old == rsvp[v]
        x == [rsvp EXCEPT ![v].status = "declined"]
    IN /\ IF old.status \in SeatTaking
          THEN \E S \in Promotions(Sessions \ {t}, event, x) : rsvp' = Promoted(x, S)
          ELSE rsvp' = x
       /\ filled' = FilledAfterLeaving(old)
       /\ outside' = outside \ {v}
       /\ End(t)
       /\ UNCHANGED event

\* A volunteer declines; a first answer inserts the row.
Decline(t) == At(t, "decline", "write") /\ WriteDeclined(t, tx[t].v)

\* The organisation declines an applicant, whatever the applicant's status.
OrgDecline(t) ==
    /\ At(t, "org_decline", "write")
    /\ rsvp[tx[t].v].status # "none"
    /\ WriteDeclined(t, tx[t].v)

\* Mutant: an off-by-one in the capacity check.
RoomForOneTooMany(seats) == Limited(event) => seats <= event.capacity

RoomFor(seats) == Limited(event) => seats < event.capacity

\* The organisation approves an applicant who is not seated yet.
Approve(t) ==
    LET v == tx[t].v
    IN /\ At(t, "approve", "write")
       /\ rsvp[v].status \notin SeatTaking \cup {"none"}
       /\ RoomFor(tx[t].seats)
       /\ rsvp' = [rsvp EXCEPT ![v].status = "accepted"]
       /\ outside' = outside \ {v}
       /\ End(t)
       /\ UNCHANGED <<event, filled>>

\* Mutant: a full event is answered without ending the transaction.
RefuseFullLeavingOpen(t) ==
    /\ \/ At(t, "org_decline", "write") /\ rsvp[tx[t].v].status = "none"
       \/ /\ At(t, "approve", "write")
          /\ rsvp[tx[t].v].status \in SeatTaking \cup {"none"}
    /\ Rollback(t)

\* The early returns: an applicant who is not there, who is seated already,
\* or for whom there is no room.
Refuse(t) ==
    /\ \/ At(t, "org_decline", "write") /\ rsvp[tx[t].v].status = "none"
       \/ /\ At(t, "approve", "write")
          /\ \/ rsvp[tx[t].v].status \in SeatTaking \cup {"none"}
             \/ ~RoomFor(tx[t].seats)
    /\ Rollback(t)

\* A volunteer signed up by an administrator is seated at once, with no role
\* and no look at the capacity; nothing but the event's lock is waited for.
AdminSignup(v) ==
    /\ "admin_signup" \in Handlers
    /\ EventFree
    /\ event.status # "cancelled"
    /\ rsvp[v].status = "none"
    /\ rsvp' = [rsvp EXCEPT ![v].status = "accepted"]
    /\ outside' = outside \cup {v}
    /\ UNCHANGED <<event, filled, tx>>

\* A cut of the capacity unseats nobody.
OutsideAfterCut(c) ==
    IF c > 0 /\ (~Limited(event) \/ c < event.capacity) THEN Seated ELSE outside

\* The host edits the event (draft and published are one status here), which
\* fills the seats an edit may have added.
UpdateEvent(c, w) ==
    /\ "update_event" \in Handlers
    /\ EventFree
    /\ event.status = "published"
    /\ event' = [event EXCEPT !.capacity = c, !.waitlist = w]
    /\ \E S \in Promotions(Sessions, event', rsvp) : rsvp' = Promoted(rsvp, S)
    /\ outside' = OutsideAfterCut(c)
    /\ UNCHANGED <<filled, tx>>

\* An administrator sets capacity and status in one UPDATE, promoting nobody.
AdminPatchEvent(c, s) ==
    /\ "admin_patch" \in Handlers
    /\ EventFree
    /\ c # 0 \/ ~Limited(event)
    /\ event' = [event EXCEPT !.capacity = c, !.status = s]
    /\ outside' = OutsideAfterCut(c)
    /\ UNCHANGED <<rsvp, filled, tx>>

(***************************************************************************)
(* Attendance transactions: the lock on the RSVP only.                     *)
(***************************************************************************)

\* SELECT ... FROM event_rsvps ... FOR UPDATE
BeginAttendance(t, op, v) ==
    /\ op \in AttendanceOps
    /\ RsvpFree(v)
    /\ rsvp[v].status # "none"
    /\ Start(t, op, "write", v, NoRole)
    /\ UNCHANGED <<event, rsvp, filled, outside>>

\* Mutant: a no-show can be verified.
VerifiableNoShow(x) == x.status \in SeatTaking

Verifiable(x) == x.status \in SeatTaking /\ ~x.noShow

AlreadyVerified(x) == x.verification \in {"verified", "portal"}

\* The host's rejection, or a verification that claims no credit because the
\* shift is paid already; an RSVP verified before keeps its verdict.
Verify(t, decision) ==
    LET v == tx[t].v
    IN /\ At(t, "verify", "write")
       /\ Verifiable(rsvp[v]) /\ ~AlreadyVerified(rsvp[v])
       /\ rsvp' = [rsvp EXCEPT ![v].verification = decision]
       /\ End(t)
       /\ UNCHANGED <<event, filled, outside>>

\* A verification that inserts a credit request (what becomes of it is
\* CreditAward's subject): the request refers to the event, so the insert
\* waits for a share of the lock on the event's row.
StartClaim(t) ==
    /\ At(t, "verify", "write")
    /\ Verifiable(rsvp[tx[t].v])
    /\ tx' = [tx EXCEPT ![t].step = "claim"]
    /\ UNCHANGED <<event, rsvp, filled, outside>>

Claim(t) ==
    LET v == tx[t].v
    IN /\ tx[t].step = "claim"
       /\ EventFree
       /\ rsvp' = [rsvp EXCEPT ![v].verification =
                       IF tx[t].op = "portal_verify" THEN "portal"
                       ELSE IF AlreadyVerified(rsvp[v]) THEN @ ELSE "verified"]
       /\ End(t)
       /\ UNCHANGED <<event, filled, outside>>

MayBeNoShow(x) == x.status \in SeatTaking /\ ~AlreadyVerified(x)

\* The role's counter is decremented under the role's lock, which the
\* acceptance of another volunteer may hold.
MarkNoShow(t) ==
    LET v == tx[t].v
        r == rsvp[v].role
    IN /\ At(t, "no_show", "write")
       /\ MayBeNoShow(rsvp[v])
       /\ r \in Roles => RolesFree
       /\ rsvp' = [rsvp EXCEPT ![v].noShow = TRUE, ![v].status = "accepted",
                               ![v].verification = "pending"]
       /\ filled' = IF r \in Roles THEN [filled EXCEPT ![r] = Atleast0(@ - 1)]
                    ELSE filled
       /\ End(t)
       /\ UNCHANGED <<event, outside>>

\* The early returns of both.
RefuseAttendance(t) ==
    /\ \/ /\ At(t, "verify", "write")
          /\ ~Verifiable(rsvp[tx[t].v]) \/ AlreadyVerified(rsvp[tx[t].v])
       \/ At(t, "no_show", "write") /\ ~MayBeNoShow(rsvp[tx[t].v])
    /\ Rollback(t)

(***************************************************************************)
(* A sign-up holds the event, and an acceptance the roles too, and may     *)
(* wait for an RSVP; a no-show holds the RSVP and may wait for its role, a *)
(* verification holds it and may wait for the event.  PostgreSQL notices   *)
(* and aborts one of the two.                                              *)
(***************************************************************************)
WaitsForRsvp(t, u) ==
    /\ tx[t].op \in SignupOps /\ tx[t].step = "rsvp" /\ HoldsRsvp(u, tx[t].v)
WaitsForSignup(t, u) ==
    \/ /\ At(t, "no_show", "write") /\ MayBeNoShow(rsvp[tx[t].v])
       /\ rsvp[tx[t].v].role \in Roles /\ HoldsRoles(u)
    \/ tx[t].step = "claim" /\ HoldsEvent(u)

WaitCrosswise(t, u) ==
    \/ WaitsForRsvp(t, u) /\ WaitsForSignup(u, t)
    \/ WaitsForSignup(t, u) /\ WaitsForRsvp(u, t)

DeadlockVictim(t) == (\E u \in Sessions : WaitCrosswise(t, u)) /\ Rollback(t)

(***************************************************************************)
(* Handlers that decide on an unlocked read.                               *)
(***************************************************************************)

\* SELECT the event and the RSVP; only a seated volunteer goes on.
ReadCheckIn(t, v) ==
    /\ event.status # "cancelled"
    /\ rsvp[v].status \in SeatTaking
    /\ Start(t, "check_in", "write", v, NoRole)
    /\ UNCHANGED <<event, rsvp, filled, outside>>

\* UPDATE ... SET status='checked_in', no_show=FALSE, whatever is there now.
CheckIn(t) ==
    LET v == tx[t].v
    IN /\ At(t, "check_in", "write")
       /\ RsvpFree(v)
       /\ rsvp' = [rsvp EXCEPT ![v].status = "checked_in", ![v].noShow = FALSE]
       /\ outside' = IF v \in Seated THEN outside ELSE outside \cup {v}
       /\ End(t)
       /\ UNCHANGED <<event, filled>>

\* awardIcForRsvp reads the RSVP and skips one that is verified already...
ReadPortalVerify(t, v) ==
    /\ rsvp[v].status # "none"
    /\ ~AlreadyVerified(rsvp[v])
    /\ Start(t, "portal_verify", "write", v, NoRole)
    /\ UNCHANGED <<event, rsvp, filled, outside>>

\* ...and then, in a transaction, marks it, whatever its status and its
\* no_show, and pays it with a wallet row that refers to the event.
PortalUpdate(t) ==
    /\ At(t, "portal_verify", "write")
    /\ RsvpFree(tx[t].v)
    /\ tx' = [tx EXCEPT ![t].step = "claim"]
    /\ UNCHANGED <<event, rsvp, filled, outside>>

\* cancelEvent and forceCancelEvent; completeEvent.
ReadEvent(t, op) ==
    /\ \/ op = "cancel" /\ event.status = "published"
       \/ op = "complete" /\ event.status # "cancelled"
    /\ Start(t, op, "write", NoVolunteer, NoRole)
    /\ UNCHANGED <<event, rsvp, filled, outside>>

Cancel(t) ==
    /\ At(t, "cancel", "write")
    /\ EventFree
    /\ event' = [event EXCEPT !.status = "cancelled"]
    /\ End(t)
    /\ UNCHANGED <<rsvp, filled, outside>>

Complete(t) ==
    /\ At(t, "complete", "write")
    /\ EventFree
    /\ event' = [event EXCEPT !.status = "completed"]
    /\ End(t)
    /\ UNCHANGED <<rsvp, filled, outside>>

-----------------------------------------------------------------------------

\* A request that opens a transaction or takes its unlocked read.
Arrival(t) ==
    \/ \E op \in {"cancel", "complete"} : ReadEvent(t, op)
    \/ \E v \in Volunteers :
        \/ \E r \in Roles : BeginAccept(t, v, r)
        \/ BeginDecline(t, v)
        \/ BeginApprove(t, v)
        \/ BeginOrgDecline(t, v)
        \/ \E op \in AttendanceOps : BeginAttendance(t, op, v)
        \/ ReadCheckIn(t, v)
        \/ ReadPortalVerify(t, v)

\* What a transaction that has begun does by itself.
Continue(t) ==
    \/ LockRoles(t)
    \/ LockRsvp(t)
    \/ Accept(t)
    \/ Decline(t)
    \/ OrgDecline(t)
    \/ Approve(t)
    \/ Refuse(t)
    \/ \E decision \in {"verified", "rejected"} : Verify(t, decision)
    \/ MarkNoShow(t)
    \/ RefuseAttendance(t)
    \/ CheckIn(t)
    \/ StartClaim(t)
    \/ PortalUpdate(t)
    \/ Claim(t)
    \/ Cancel(t)
    \/ Complete(t)
    \/ DeadlockVictim(t)

\* Requests that one step serves.
Request ==
    \/ \E v \in Volunteers : AdminSignup(v)
    \/ \E c \in Capacities, w \in BOOLEAN : UpdateEvent(c, w)
    \/ \E c \in Capacities, s \in EventStatuses : AdminPatchEvent(c, s)

Next == Request \/ \E t \in Sessions : Arrival(t) \/ Continue(t) \/ Rollback(t)

Spec == Init /\ [][Next]_vars

-----------------------------------------------------------------------------
(***************************************************************************)
(* Safety.                                                                 *)
(***************************************************************************)

\* Apart from the volunteers seated by an administrator, by a check-in that
\* came after they had lost the seat, or before the host cut the capacity,
\* no more people are seated than the event has seats: the count that an
\* approval takes is still good when it writes, because every way to a seat
\* that looks at the capacity holds the event's row (orgPortalApi approve).
CapacityRespected ==
    Limited(event) => Cardinality(Seated \ outside) <= event.capacity

\* Nobody whose attendance the host verified is marked as a no-show, in
\* whichever order the two verdicts come in: verifyEventRsvp refuses a
\* no-show, markEventNoShow a verified RSVP, both under the RSVP's lock.
HostVerifiedAttended ==
    \A v \in Volunteers : rsvp[v].verification = "verified" => ~rsvp[v].noShow

\* The transactions whose locks session t waits for: sign-ups hold the event,
\* the roles and the RSVP, attendance the RSVP and then asks for the role or
\* the event.
WaitsFor(t, u) ==
    \/ WaitsForRsvp(t, u)
    \/ WaitsForSignup(t, u)
    \/ /\ tx[t].op \in {"check_in", "portal_verify"} /\ tx[t].step = "write"
       /\ HoldsRsvp(u, tx[t].v)
    \/ tx[t].op \in {"cancel", "complete"} /\ HoldsEvent(u)

\* Of two that wait for each other PostgreSQL's deadlock detector aborts one.
CanGoOn(t) ==
    /\ tx[t] # Idle
    /\ \/ \A u \in Sessions : ~WaitsFor(t, u)
       \/ \E u \in Sessions : WaitCrosswise(t, u)

\* While transactions are open, one of them can go on by itself: nobody waits
\* in a circle of more than two.
SomeoneCanGoOn ==
    (\E t \in Sessions : tx[t] # Idle) => \E t \in Sessions : CanGoOn(t)

\* An UPDATE or INSERT of the transaction of session t gets its locks, and a
\* seat that is given up can be offered, or the handler refuses.
WriteGoesOn(t) ==
    LET v == tx[t].v
    IN \/ tx[t].op \in {"accept", "approve", "verify"}
       \/ /\ tx[t].op \in {"decline", "org_decline"}
          /\ rsvp[v].status \in SeatTaking =>
               Promotions(Sessions \ {t}, event, [rsvp EXCEPT ![v].status = "declined"]) # {}
       \/ /\ tx[t].op = "no_show"
          /\ MayBeNoShow(rsvp[v]) /\ rsvp[v].role \in Roles => RolesFree
       \/ tx[t].op \in {"check_in", "portal_verify"} /\ RsvpFree(v)
       \/ tx[t].op \in {"cancel", "complete"} /\ EventFree

\* The handler of session t has a statement for where it stands, whatever it
\* has read, and the statement is not kept waiting.
HasStatement(t) ==
    \/ At(t, "accept", "roles")
    \/ tx[t].op \in SignupOps /\ tx[t].step = "rsvp" /\ RsvpFree(tx[t].v)
    \/ tx[t].step = "write" /\ WriteGoesOn(t)
    \/ tx[t].step = "claim" /\ EventFree
    \/ \E u \in Sessions : WaitCrosswise(t, u)

\* One that need not wait has a statement to run.
MoversHaveStatements == \A t \in Sessions : CanGoOn(t) => HasStatement(t)

\* Open transactions never all stand still, and none is left open by an answer:
\* a statement that can be run can be run to its end.
OpenTransactionsMove ==
    /\ SomeoneCanGoOn
    /\ MoversHaveStatements
    /\ \A t \in Sessions : HasStatement(t) => ENABLED Continue(t)

(***************************************************************************)
(* What a step may never do.                                               *)
(***************************************************************************)

\* The sign-ups that count for a role, which spots_filled is meant to count.
Signups(r) == {v \in Volunteers : rsvp[v].role = r /\ CountsForRole(rsvp[v])}
Surplus(r) == filled[r] - Cardinality(Signups(r))

\* A step on v's RSVP that spots_filled is known not to follow: whatever
\* happens to one already marked as a no-show (marked again it is subtracted
\* again, accepted again it is added again), and a declined one that gets a
\* seat back by approval or a late check-in.
Unfollowed(v) ==
    \/ rsvp[v].noShow /\ \E t \in Sessions : tx[t].v = v /\ tx'[t] = Idle
    \/ rsvp[v].status = "declined" /\ rsvp'[v].status \in SeatTaking

\* spots_filled follows the sign-ups of its role through every acceptance,
\* change of role, promotion, approval, decline, check-in and first no-show:
\* a counter that is not too low drifts only in an Unfollowed step.
RoleCounterFollowsSignups ==
    [][\A r \in Roles :
        \/ Surplus(r)' = Surplus(r)
        \/ Surplus(r) < 0
        \/ \E v \in Volunteers : Unfollowed(v)]_vars

\* Nobody joins the waitlist of an event with a free seat, although the
\* acceptance counted the seats in an earlier statement.
WaitlistedOnlyWhenFull ==
    [][\A v \in Volunteers :
        rsvp[v].status # "waitlisted" /\ rsvp'[v].status = "waitlisted" =>
            Limited(event) /\ Cardinality(Seated) >= event.capacity]_vars

\* When a seat becomes free in an event that is on, the waitlist loses as
\* many people as there are free seats, or all but those whose RSVP is
\* locked: no step gives a seat up without offering it.
ReleasedSeatIsOffered ==
    [][(\E v \in Volunteers : v \in Seated /\ v \notin Seated')
        /\ event.status # "cancelled" =>
        LET left == {v \in Waitlisted' : RsvpFree(v)}
            promoted == Cardinality(Waitlisted \ Waitlisted')
        IN \/ left = {}
           \/ Limited(event) /\ Cardinality(Seated') + promoted >= event.capacity]_vars

\* Once an event is cancelled an RSVP can only be declined, except that a
\* seated one can still be checked in or marked as a no-show and a check-in
\* under way takes effect.
CancelledTakesNoSignups ==
    [][event.status = "cancelled" =>
        \A v \in Volunteers :
            \/ rsvp'[v].status \in {rsvp[v].status, "declined", "checked_in"}
            \/ rsvp[v].status = "checked_in" /\ rsvp'[v].noShow]_vars

(***************************************************************************)
(* What the repository says and the code does not do.                      *)
(***************************************************************************)

\* "No-show RSVP cannot be verified" (verifyEventRsvp), by any path.
NoShowNeverVerified ==
    \A v \in Volunteers : ~(rsvp[v].noShow /\ AlreadyVerified(rsvp[v]))
=============================================================================
