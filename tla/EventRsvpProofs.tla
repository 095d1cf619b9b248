-------------------------- MODULE EventRsvpProofs --------------------------
(***************************************************************************)
(* Proofs about EventRsvp, for any volunteers, roles, capacities and       *)
(* sessions: no approval oversells the seats, a verified attendance is no  *)
(* no-show, the waitlist is joined only when the event is full and served  *)
(* whenever a seat is given up, a cancelled event takes no sign-ups, the   *)
(* roles' counters follow the sign-ups; open transactions never all wait,  *)
(* one that does not wait has a statement to run, and none runs more than  *)
(* four.                                                                   *)
(***************************************************************************)
EXTENDS EventRsvp, FiniteSetTheorems, TLAPS

-----------------------------------------------------------------------------
(***************************************************************************)
(* The inductive invariant.  One transaction holds the event and one each  *)
(* RSVP, and what a transaction has read under a lock it still relies on.  *)
(***************************************************************************)

\* Those whose seat the capacity check answers for.
Inside == Seated \ outside

OneEventHolder ==
    \A t, u \in Sessions : HoldsEvent(t) /\ HoldsEvent(u) => t = u

OneRsvpHolder ==
    \A t, u \in Sessions : \A v \in Volunteers :
        HoldsRsvp(t, v) /\ HoldsRsvp(u, v) => t = u

\* What the transaction of session t relies on: the event is still on and the
\* role has room, the seats it counted are not given up and nobody but itself
\* takes one, the attendance it claims credit for can still be verified.
Relies(t) ==
    /\ tx[t].op \notin {"none", "cancel", "complete"} => tx[t].v \in Volunteers
    /\ tx[t].step = "claim" => tx[t].op \in {"verify", "portal_verify"}
    /\ tx[t].op = "accept" => tx[t].role \in Roles /\ filled[tx[t].role] < MaxFilled
    /\ tx[t].op \in {"accept", "decline", "approve"} => event.status # "cancelled"
    /\ HoldsEvent(t) /\ tx[t].step = "write" =>
          /\ Cardinality(Inside) <= tx[t].seats
          /\ tx[t].seats <= Cardinality(Seated)
    /\ At(t, "verify", "claim") => Verifiable(rsvp[tx[t].v])

NoRowNoRole == \A v \in Volunteers : rsvp[v].status = "none" => rsvp[v].role = NoRole

RowsSound == NoRowNoRole /\ HostVerifiedAttended /\ CapacityRespected

IInv ==
    /\ TypeOK
    /\ OneEventHolder
    /\ OneRsvpHolder
    /\ \A t \in Sessions : Relies(t)
    /\ RowsSound

-----------------------------------------------------------------------------
(***************************************************************************)
(* Counting people.                                                        *)
(***************************************************************************)

\* A set of volunteers can be counted, and a part of it is no larger.
LEMMA PeopleAreCounted ==
    ASSUME NEW S \in SUBSET Volunteers, NEW T \in SUBSET S
    PROVE  /\ IsFiniteSet(S)
           /\ Cardinality(S) \in Nat
           /\ Cardinality(T) \in Nat
           /\ Cardinality(T) <= Cardinality(S)
           /\ Cardinality(S) = Cardinality(T) => S = T
<1>1. IsFiniteSet(S)
    BY FS_Subset, VolunteersFinite
<1>2. IsFiniteSet(T) /\ Cardinality(T) <= Cardinality(S)
      /\ (Cardinality(S) = Cardinality(T) => S = T)
    BY <1>1, FS_Subset
<1> QED
    BY <1>1, <1>2, FS_CardinalityType

\* One more person is one more, at most.
LEMMA OneMorePerson ==
    ASSUME NEW S \in SUBSET Volunteers, NEW v \in Volunteers
    PROVE  /\ Cardinality(S \cup {v}) \in Nat
           /\ Cardinality(S) \in Nat
           /\ Cardinality(S \cup {v}) = IF v \in S THEN Cardinality(S)
                                        ELSE Cardinality(S) + 1
           /\ Cardinality(S \ {v}) = IF v \in S THEN Cardinality(S) - 1
                                     ELSE Cardinality(S)
<1>1. IsFiniteSet(S) /\ Cardinality(S) \in Nat
    BY PeopleAreCounted
<1>2. IsFiniteSet(S \cup {v})
      /\ Cardinality(S \cup {v}) = IF v \in S THEN Cardinality(S) ELSE Cardinality(S) + 1
    BY <1>1, FS_AddElement
<1>3. Cardinality(S \ {v}) = IF v \in S THEN Cardinality(S) - 1 ELSE Cardinality(S)
    BY <1>1, FS_RemoveElement
<1> QED
    BY <1>1, <1>2, <1>3, FS_CardinalityType

\* The seats are counted in natural numbers.
LEMMA SeatsAreCounted ==
    /\ Cardinality(Seated) \in Nat
    /\ Cardinality(Inside) \in Nat
    /\ Cardinality(Inside) <= Cardinality(Seated)
<1>1. Seated \in SUBSET Volunteers /\ Inside \in SUBSET Seated
    BY DEF Seated, Inside
<1> QED
    BY <1>1, PeopleAreCounted

-----------------------------------------------------------------------------
(***************************************************************************)
(* What a step leaves to the transactions of other sessions.               *)
(***************************************************************************)

\* The step leaves what the transaction of session u relies on.
Leaves(u) ==
    /\ HoldsEvent(u) =>
          /\ event' = event
          /\ \A r \in Roles : filled'[r] <= filled[r]
          /\ Seated \subseteq Seated'
          /\ Inside' \subseteq Inside
    /\ \A v \in Volunteers :
          HoldsRsvp(u, v) /\ Verifiable(rsvp[v]) => Verifiable(rsvp'[v])

\* Session t takes a lock only when it is free.
TakesFreeLocks(t) ==
    /\ HoldsEvent(t)' => HoldsEvent(t) \/ EventFree
    /\ \A v \in Volunteers : HoldsRsvp(t, v)' => HoldsRsvp(t, v) \/ RsvpFree(v)

LEMMA LeftRelies ==
    ASSUME TypeOK, TypeOK', NEW u \in Sessions, Relies(u), tx'[u] = tx[u], Leaves(u)
    PROVE  Relies(u)'
<1>1. HoldsEvent(u) = HoldsEvent(u)'
    BY DEF HoldsEvent
<1>2. tx[u].op = "accept" => tx[u].role \in Roles /\ filled'[tx[u].role] < MaxFilled
    <2> SUFFICES ASSUME tx[u].op = "accept"
                 PROVE  tx[u].role \in Roles /\ filled'[tx[u].role] < MaxFilled
        OBVIOUS
    <2>1. tx[u].role \in Roles /\ filled[tx[u].role] < MaxFilled
        BY DEF Relies
    <2>2. filled'[tx[u].role] <= filled[tx[u].role]
        BY <2>1 DEF Leaves, HoldsEvent, SignupOps
    <2> QED
        BY <2>1, <2>2, MaxFilledNat DEF TypeOK
<1>3. tx[u].op \in {"accept", "decline", "approve"} => event'.status # "cancelled"
    BY DEF Relies, Leaves, HoldsEvent, SignupOps
<1>4. HoldsEvent(u) /\ tx[u].step = "write" =>
          /\ Cardinality(Inside') <= tx[u].seats
          /\ tx[u].seats <= Cardinality(Seated')
    <2> SUFFICES ASSUME HoldsEvent(u), tx[u].step = "write"
                 PROVE  /\ Cardinality(Inside') <= tx[u].seats
                        /\ tx[u].seats <= Cardinality(Seated')
        OBVIOUS
    <2>1. Cardinality(Inside) <= tx[u].seats /\ tx[u].seats <= Cardinality(Seated)
        BY DEF Relies
    <2>2. Seated' \in SUBSET Volunteers /\ Inside \in SUBSET Volunteers
        BY DEF Seated, Inside
    <2>3. Seated \in SUBSET Seated' /\ Inside' \in SUBSET Inside
        BY DEF Leaves
    <2>4. /\ Cardinality(Seated') \in Nat /\ Cardinality(Seated) \in Nat
          /\ Cardinality(Seated) <= Cardinality(Seated')
        BY <2>2, <2>3, PeopleAreCounted
    <2>5. /\ Cardinality(Inside') \in Nat /\ Cardinality(Inside) \in Nat
          /\ Cardinality(Inside') <= Cardinality(Inside)
        BY <2>2, <2>3, PeopleAreCounted
    <2>6. tx[u].seats \in Nat
        BY DEF TypeOK, Transactions
    <2> QED
        BY <2>1, <2>4, <2>5, <2>6
<1>5. At(u, "verify", "claim") => Verifiable(rsvp'[tx[u].v])
    <2> SUFFICES ASSUME At(u, "verify", "claim")
                 PROVE  Verifiable(rsvp'[tx[u].v])
        OBVIOUS
    <2>1. tx[u].v \in Volunteers /\ Verifiable(rsvp[tx[u].v])
        BY DEF Relies, At
    <2>2. HoldsRsvp(u, tx[u].v)
        BY DEF HoldsRsvp, At, AttendanceOps
    <2> QED
        BY <2>1, <2>2 DEF Leaves
<1> QED
    BY <1>1, <1>2, <1>3, <1>4, <1>5 DEF Relies, At

\* A step of session t keeps the invariant when it takes only free locks,
\* leaves the others what they rely on, and is sound itself.
LEMMA SessionStep ==
    ASSUME IInv, NEW t \in Sessions, TypeOK',
           \A u \in Sessions \ {t} : tx'[u] = tx[u] /\ Leaves(u),
           TakesFreeLocks(t), Relies(t)', RowsSound'
    PROVE  IInv'
<1>1. ASSUME NEW u \in Sessions PROVE Relies(u)'
    <2>1. CASE u = t
        BY <2>1
    <2>2. CASE u # t
        <3>1. tx'[u] = tx[u] /\ Leaves(u) /\ Relies(u) /\ TypeOK
            BY <2>2 DEF IInv
        <3> QED
            BY <3>1, LeftRelies
    <2> QED
        BY <2>1, <2>2
<1>2. ASSUME NEW u \in Sessions \ {t}
      PROVE  /\ HoldsEvent(u)' = HoldsEvent(u)
             /\ \A v : HoldsRsvp(u, v)' = HoldsRsvp(u, v)
    BY DEF HoldsEvent, HoldsRsvp
<1>3. OneEventHolder'
    BY <1>2 DEF IInv, OneEventHolder, TakesFreeLocks, EventFree
<1>4. OneRsvpHolder'
    BY <1>2 DEF IInv, OneRsvpHolder, TakesFreeLocks, RsvpFree
<1> QED
    BY <1>1, <1>3, <1>4 DEF IInv

\* A request served in one step leaves every transaction what it relies on.
LEMMA RequestStep ==
    ASSUME IInv, TypeOK', tx' = tx, \A u \in Sessions : Leaves(u), RowsSound'
    PROVE  IInv'
<1>1. ASSUME NEW u \in Sessions PROVE Relies(u)'
    <2>1. tx'[u] = tx[u] /\ Leaves(u) /\ Relies(u) /\ TypeOK
        BY DEF IInv
    <2> QED
        BY <2>1, LeftRelies
<1>2. OneEventHolder' /\ OneRsvpHolder'
    BY DEF IInv, OneEventHolder, OneRsvpHolder, HoldsEvent, HoldsRsvp
<1> QED
    BY <1>1, <1>2 DEF IInv

\* A step that writes no table keeps the invariant when it takes only free
\* locks and what it relies on is so.
LEMMA QuietStep ==
    ASSUME IInv, NEW t \in Sessions, UNCHANGED <<event, rsvp, filled, outside>>,
           tx' \in [Sessions -> Transactions],
           \A u \in Sessions \ {t} : tx'[u] = tx[u],
           TakesFreeLocks(t), Relies(t)'
    PROVE  IInv'
<1>1. TypeOK' /\ RowsSound'
    BY DEF IInv, TypeOK, RowsSound, NoRowNoRole, HostVerifiedAttended,
           CapacityRespected, Seated
<1>2. ASSUME NEW u \in Sessions \ {t}
      PROVE  Leaves(u)
    <2>1. \A r \in Roles : filled[r] \in 0..MaxFilled
        BY DEF IInv, TypeOK
    <2>2. \A r \in Roles : filled'[r] <= filled[r]
        BY <2>1, MaxFilledNat
    <2>3. Seated' = Seated /\ Inside' = Inside
        BY DEF Seated, Inside
    <2> QED
        BY <2>2, <2>3 DEF Leaves
<1> QED
    BY <1>1, <1>2, SessionStep

\* The end of a transaction keeps the invariant when its writes leave the
\* others what they rely on.
LEMMA EndStep ==
    ASSUME IInv, NEW t \in Sessions, End(t),
           event' \in Events, rsvp' \in [Volunteers -> Rsvps],
           filled' \in [Roles -> 0..MaxFilled], outside' \subseteq Volunteers,
           \A u \in Sessions \ {t} : Leaves(u), RowsSound'
    PROVE  IInv'
<1>1. tx \in [Sessions -> Transactions] /\ Idle \in Transactions
    BY DEF IInv, TypeOK, Transactions, Idle, Steps
<1>2. tx' \in [Sessions -> Transactions] /\ tx'[t] = Idle
      /\ \A u \in Sessions \ {t} : tx'[u] = tx[u]
    BY <1>1 DEF End
<1>3. TypeOK'
    BY <1>2 DEF TypeOK
<1>4. TakesFreeLocks(t)
    BY <1>2 DEF TakesFreeLocks, HoldsEvent, HoldsRsvp, Idle, SignupOps
<1>5. Relies(t)'
    BY <1>2 DEF Relies, HoldsEvent, At, Idle, SignupOps
<1> QED
    BY <1>2, <1>3, <1>4, <1>5, SessionStep

-----------------------------------------------------------------------------
(***************************************************************************)
(* Steps that begin a transaction, take a lock or read.                    *)
(***************************************************************************)

LEMMA InitKeeps == Init => IInv
<1> SUFFICES ASSUME Init PROVE IInv
    OBVIOUS
<1>1. TypeOK
    BY MaxFilledNat DEF Init, TypeOK, Events, EventStatuses, Rsvps, Statuses,
          Verifications, Transactions, Idle, Steps
<1>2. \A t \in Sessions : tx[t] = Idle
    BY DEF Init
<1>3. OneEventHolder /\ OneRsvpHolder
    BY <1>2 DEF OneEventHolder, OneRsvpHolder, HoldsEvent, HoldsRsvp, Idle, SignupOps
<1>4. \A t \in Sessions : Relies(t)
    BY <1>2 DEF Relies, HoldsEvent, At, Idle, SignupOps
<1>5. NoRowNoRole /\ HostVerifiedAttended
    BY DEF Init, NoRowNoRole, HostVerifiedAttended
<1>6. CapacityRespected
    <2>1. Seated \ outside = {}
        BY DEF Init, Seated, SeatTaking
    <2>2. Cardinality(Seated \ outside) = 0
        BY <2>1, FS_EmptySet
    <2>3. event.capacity \in Nat
        BY <1>1, CapacitiesAreNat DEF TypeOK, Events
    <2> QED
        BY <2>2, <2>3 DEF CapacityRespected
<1> QED
    BY <1>1, <1>3, <1>4, <1>5, <1>6 DEF IInv, RowsSound

\* The shape of a transaction that starts.
LEMMA StartedTransaction ==
    ASSUME TypeOK, NEW t \in Sessions, NEW op \in Ops, NEW step \in Steps,
           NEW v \in Volunteers \cup {NoVolunteer}, NEW r \in Roles \cup {NoRole},
           Start(t, op, step, v, r)
    PROVE  /\ tx' \in [Sessions -> Transactions]
           /\ \A u \in Sessions \ {t} : tx'[u] = tx[u]
           /\ tx'[t] = [op |-> op, step |-> step, v |-> v, role |-> r, seats |-> 0]
BY DEF Start, TypeOK, Transactions

LEMMA BeginSignupKeeps ==
    ASSUME IInv, NEW t \in Sessions, NEW op \in SignupOps, NEW step \in {"roles", "rsvp"},
           NEW v \in Volunteers, NEW r \in Roles \cup {NoRole},
           op = "accept" => r \in Roles /\ filled[r] < MaxFilled,
           BeginSignup(t, op, step, v, r)
    PROVE  IInv'
<1>1. /\ Start(t, op, step, v, r) /\ UNCHANGED <<event, rsvp, filled, outside>>
      /\ EventFree /\ (event.status = "cancelled" => op = "org_decline")
    BY DEF BeginSignup
<1>2. op \in Ops /\ step \in Steps /\ TypeOK
    BY DEF Ops, Steps, IInv
<1>3. /\ tx' \in [Sessions -> Transactions]
      /\ \A u \in Sessions \ {t} : tx'[u] = tx[u]
      /\ tx'[t] = [op |-> op, step |-> step, v |-> v, role |-> r, seats |-> 0]
    BY <1>1, <1>2, StartedTransaction
<1>4. TakesFreeLocks(t)
    BY <1>1, <1>3 DEF TakesFreeLocks, HoldsRsvp
<1>5. Relies(t)'
    BY <1>1, <1>3 DEF Relies, HoldsEvent, At, SignupOps
<1> QED
    BY <1>1, <1>3, <1>4, <1>5, QuietStep

\* A read without a lock.
LEMMA ReadKeeps ==
    ASSUME IInv, NEW t \in Sessions, NEW op \in UnlockedOps,
           NEW v \in Volunteers \cup {NoVolunteer},
           op \in {"check_in", "portal_verify"} => v \in Volunteers,
           Start(t, op, "write", v, NoRole), UNCHANGED <<event, rsvp, filled, outside>>
    PROVE  IInv'
<1>1. op \in Ops /\ "write" \in Steps /\ NoRole \in Roles \cup {NoRole} /\ TypeOK
    BY DEF Ops, Steps, IInv
<1>2. /\ tx' \in [Sessions -> Transactions]
      /\ \A u \in Sessions \ {t} : tx'[u] = tx[u]
      /\ tx'[t] = [op |-> op, step |-> "write", v |-> v, role |-> NoRole, seats |-> 0]
    BY <1>1, StartedTransaction
<1>3. TakesFreeLocks(t)
    BY <1>2 DEF TakesFreeLocks, HoldsEvent, HoldsRsvp, SignupOps, AttendanceOps, UnlockedOps
<1>4. Relies(t)'
    BY <1>2 DEF Relies, HoldsEvent, At, SignupOps, UnlockedOps
<1> QED
    BY <1>2, <1>3, <1>4, QuietStep

LEMMA BeginAttendanceKeeps ==
    ASSUME IInv, NEW t \in Sessions, NEW op \in AttendanceOps, NEW v \in Volunteers,
           BeginAttendance(t, op, v)
    PROVE  IInv'
<1>1. Start(t, op, "write", v, NoRole) /\ UNCHANGED <<event, rsvp, filled, outside>>
      /\ RsvpFree(v)
    BY DEF BeginAttendance
<1>2. op \in Ops /\ "write" \in Steps /\ NoRole \in Roles \cup {NoRole} /\ TypeOK
    BY DEF Ops, Steps, IInv
<1>3. /\ tx' \in [Sessions -> Transactions]
      /\ \A u \in Sessions \ {t} : tx'[u] = tx[u]
      /\ tx'[t] = [op |-> op, step |-> "write", v |-> v, role |-> NoRole, seats |-> 0]
    BY <1>1, <1>2, StartedTransaction
<1>4. TakesFreeLocks(t)
    BY <1>1, <1>3 DEF TakesFreeLocks, HoldsEvent, HoldsRsvp, SignupOps, AttendanceOps
<1>5. Relies(t)'
    BY <1>3 DEF Relies, HoldsEvent, At, SignupOps, AttendanceOps
<1> QED
    BY <1>1, <1>3, <1>4, <1>5, QuietStep

LEMMA ArrivalKeeps ==
    ASSUME IInv, NEW t \in Sessions, Arrival(t)
    PROVE  IInv'
<1>1. CASE \E op \in {"cancel", "complete"} : ReadEvent(t, op)
    <2> PICK op \in {"cancel", "complete"} : ReadEvent(t, op)
        BY <1>1
    <2>1. op \in UnlockedOps /\ op \notin {"check_in", "portal_verify"}
        BY DEF UnlockedOps
    <2> QED
        BY <2>1, ReadKeeps DEF ReadEvent
<1>2. ASSUME NEW v \in Volunteers, NEW r \in Roles, BeginAccept(t, v, r)
      PROVE  IInv'
    <2>1. "accept" \in SignupOps /\ filled[r] < MaxFilled
          /\ BeginSignup(t, "accept", "roles", v, r)
        BY <1>2 DEF BeginAccept, SignupOps
    <2> QED
        BY <2>1, BeginSignupKeeps
<1>3. ASSUME NEW v \in Volunteers, NEW op \in {"decline", "approve", "org_decline"},
             BeginSignup(t, op, "rsvp", v, NoRole)
      PROVE  IInv'
    <2>1. op \in SignupOps /\ op # "accept"
        BY DEF SignupOps
    <2> QED
        BY <1>3, <2>1, BeginSignupKeeps
<1>4. ASSUME NEW v \in Volunteers, ReadCheckIn(t, v) \/ ReadPortalVerify(t, v)
      PROVE  IInv'
    <2>1. PICK op \in {"check_in", "portal_verify"} :
              Start(t, op, "write", v, NoRole) /\ UNCHANGED <<event, rsvp, filled, outside>>
        BY <1>4 DEF ReadCheckIn, ReadPortalVerify
    <2>2. op \in UnlockedOps
        BY DEF UnlockedOps
    <2> QED
        BY <2>1, <2>2, ReadKeeps
<1>5. ASSUME NEW v \in Volunteers,
             BeginDecline(t, v) \/ BeginApprove(t, v) \/ BeginOrgDecline(t, v)
      PROVE  IInv'
    BY <1>3, <1>5 DEF BeginDecline, BeginApprove, BeginOrgDecline
<1> QED
    BY <1>1, <1>2, <1>4, <1>5, BeginAttendanceKeeps DEF Arrival

\* Steps that change only the transaction's own step.
LEMMA LockRolesKeeps ==
    ASSUME IInv, NEW t \in Sessions, LockRoles(t)
    PROVE  IInv'
<1>1. tx \in [Sessions -> Transactions] /\ Relies(t)
    BY DEF IInv, TypeOK
<1>2. /\ tx' \in [Sessions -> Transactions]
      /\ \A u \in Sessions \ {t} : tx'[u] = tx[u]
      /\ tx'[t] = [tx[t] EXCEPT !.step = "rsvp"]
    BY <1>1 DEF LockRoles, Transactions, Steps
<1>3. /\ tx'[t].op = tx[t].op /\ tx'[t].v = tx[t].v /\ tx'[t].role = tx[t].role
      /\ tx'[t].step = "rsvp"
    BY <1>1, <1>2 DEF Transactions
<1>4. TakesFreeLocks(t)
    BY <1>3 DEF TakesFreeLocks, HoldsEvent, HoldsRsvp
<1>5. UNCHANGED <<event, rsvp, filled, outside>>
    BY DEF LockRoles
<1>6. Relies(t)'
    BY <1>1, <1>3, <1>5 DEF Relies, HoldsEvent, At
<1> QED
    BY <1>2, <1>4, <1>5, <1>6, QuietStep

LEMMA LockRsvpKeeps ==
    ASSUME IInv, NEW t \in Sessions, LockRsvp(t)
    PROVE  IInv'
<1>1. tx \in [Sessions -> Transactions] /\ Relies(t)
    BY DEF IInv, TypeOK
<1>2. /\ tx' \in [Sessions -> Transactions]
      /\ \A u \in Sessions \ {t} : tx'[u] = tx[u]
      /\ tx'[t] = [tx[t] EXCEPT !.step = "write", !.seats = Cardinality(Seated)]
    <2> DEFINE n == Cardinality(Seated)
               x == [[tx[t] EXCEPT !.step = "write"] EXCEPT !.seats = n]
    <2>1. tx' = [tx EXCEPT ![t] = x] /\ x = [tx[t] EXCEPT !.step = "write", !.seats = n]
        BY <1>1 DEF LockRsvp
    <2>2. n \in Nat
        BY SeatsAreCounted
    <2> HIDE DEF n
    <2>3. [tx[t] EXCEPT !.step = "write"] \in Transactions
        BY <1>1 DEF Transactions, Steps
    <2>4. x \in Transactions
        BY <2>2, <2>3 DEF Transactions
    <2> HIDE DEF x
    <2> QED
        BY <1>1, <2>1, <2>4 DEF n
<1>3. /\ tx'[t].op = tx[t].op /\ tx'[t].v = tx[t].v /\ tx'[t].role = tx[t].role
      /\ tx'[t].step = "write" /\ tx'[t].seats = Cardinality(Seated)
    BY <1>1, <1>2 DEF Transactions
<1>4. UNCHANGED <<event, rsvp, filled, outside>> /\ RsvpFree(tx[t].v)
    BY DEF LockRsvp
<1>5. TakesFreeLocks(t)
    BY <1>3, <1>4 DEF TakesFreeLocks, HoldsEvent, HoldsRsvp
<1>6. Seated' = Seated /\ Inside' = Inside
    BY <1>4 DEF Seated, Inside
<1>7. Relies(t)'
    BY <1>1, <1>3, <1>4, <1>6, SeatsAreCounted DEF Relies, HoldsEvent, At
<1> QED
    BY <1>2, <1>4, <1>5, <1>7, QuietStep

\* A verification, by the host or in the portal, that comes to its credit.
LEMMA ToClaimKeeps ==
    ASSUME IInv, NEW t \in Sessions, StartClaim(t) \/ PortalUpdate(t)
    PROVE  IInv'
<1>1. tx \in [Sessions -> Transactions] /\ Relies(t)
    BY DEF IInv, TypeOK
<1>2. /\ tx' = [tx EXCEPT ![t].step = "claim"]
      /\ UNCHANGED <<event, rsvp, filled, outside>>
      /\ tx[t].op \in {"verify", "portal_verify"} /\ tx[t].step = "write"
      /\ tx[t].op = "verify" => Verifiable(rsvp[tx[t].v])
      /\ tx[t].op = "portal_verify" => RsvpFree(tx[t].v)
    BY DEF StartClaim, PortalUpdate, At
<1>3. /\ tx' \in [Sessions -> Transactions]
      /\ \A u \in Sessions \ {t} : tx'[u] = tx[u]
      /\ tx'[t] = [tx[t] EXCEPT !.step = "claim"]
    BY <1>1, <1>2 DEF Transactions, Steps
<1>4. tx'[t].op = tx[t].op /\ tx'[t].v = tx[t].v /\ tx'[t].step = "claim"
    BY <1>1, <1>3 DEF Transactions
<1>5. TakesFreeLocks(t)
    BY <1>2, <1>4 DEF TakesFreeLocks, HoldsEvent, HoldsRsvp, SignupOps, AttendanceOps
<1>6. Relies(t)'
    BY <1>1, <1>2, <1>4 DEF Relies, HoldsEvent, At, SignupOps
<1> QED
    BY <1>2, <1>3, <1>5, <1>6, QuietStep

\* An error, an early return or an aborted deadlock.
LEMMA RollbackKeeps ==
    ASSUME IInv, NEW t \in Sessions, Rollback(t)
    PROVE  IInv'
<1>1. End(t) /\ UNCHANGED <<event, rsvp, filled, outside>>
    BY DEF Rollback
<1>2. tx \in [Sessions -> Transactions] /\ Idle \in Transactions
    BY DEF IInv, TypeOK, Transactions, Idle, Steps
<1>3. tx' \in [Sessions -> Transactions] /\ tx'[t] = Idle
      /\ \A u \in Sessions \ {t} : tx'[u] = tx[u]
    BY <1>1, <1>2 DEF End
<1>4. TakesFreeLocks(t)
    BY <1>3 DEF TakesFreeLocks, HoldsEvent, HoldsRsvp, Idle, SignupOps
<1>5. Relies(t)'
    BY <1>3 DEF Relies, HoldsEvent, At, Idle, SignupOps
<1> QED
    BY <1>1, <1>3, <1>4, <1>5, QuietStep

-----------------------------------------------------------------------------
(***************************************************************************)
(* Steps that write a table.                                               *)
(***************************************************************************)

\* A lock that session t holds, or that is free, is held by no other session.
LEMMA NoOtherHolder ==
    ASSUME IInv, NEW t \in Sessions
    PROVE  /\ HoldsEvent(t) \/ EventFree =>
                  \A u \in Sessions \ {t} : ~HoldsEvent(u)
           /\ \A v \in Volunteers : HoldsRsvp(t, v) \/ RsvpFree(v) =>
                  \A u \in Sessions \ {t} : ~HoldsRsvp(u, v)
BY DEF IInv, OneEventHolder, OneRsvpHolder, EventFree, RsvpFree

\* The capacity is respected when no seat is taken and the event has at least
\* as many.
LEMMA NoSeatTaken ==
    ASSUME IInv, Inside' \subseteq Inside, event' \in Events,
           Limited(event') => Limited(event) /\ event.capacity <= event'.capacity
    PROVE  CapacityRespected'
<1>1. Inside \in SUBSET Volunteers /\ Inside' \in SUBSET Inside
    BY DEF Seated, Inside
<1>2. Cardinality(Inside') \in Nat /\ Cardinality(Inside) \in Nat
      /\ Cardinality(Inside') <= Cardinality(Inside)
    BY <1>1, PeopleAreCounted
<1>3. Limited(event) => Cardinality(Inside) <= event.capacity
    BY DEF IInv, RowsSound, CapacityRespected, Inside
<1>4. event.capacity \in Nat /\ event'.capacity \in Nat
    BY CapacitiesAreNat DEF IInv, TypeOK, Events
<1>5. Limited(event') => Cardinality(Inside') <= event'.capacity
    BY <1>2, <1>3, <1>4
<1> QED
    BY <1>5 DEF CapacityRespected, Inside, Limited

LEMMA NoSeatTakenNorChanged ==
    ASSUME IInv, Inside' \subseteq Inside, event' = event
    PROVE  CapacityRespected'
<1>1. event \in Events
    BY DEF IInv, TypeOK
<1>2. event.capacity \in Nat /\ event.capacity = event'.capacity
    BY <1>1, CapacitiesAreNat DEF Events
<1>3. event' \in Events /\ event.capacity <= event'.capacity
      /\ (Limited(event') => Limited(event))
    BY <1>1, <1>2
<1> QED
    BY <1>3, NoSeatTaken

\* Counters stay in their range.
LEMMA CountersInRange ==
    ASSUME TypeOK, NEW old \in Rsvps
    PROVE  /\ FilledAfterLeaving(old) \in [Roles -> 0..MaxFilled]
           /\ \A r \in Roles : FilledAfterLeaving(old)[r] <= filled[r]
           /\ \A r \in Roles : filled[r] < MaxFilled =>
                  FilledAfterAccept(old, r) \in [Roles -> 0..MaxFilled]
<1>1. filled \in [Roles -> 0..MaxFilled] /\ MaxFilled \in Nat
    BY MaxFilledNat DEF TypeOK
<1>2. \A n \in 0..MaxFilled : Atleast0(n - 1) \in 0..MaxFilled /\ Atleast0(n - 1) <= n
    BY <1>1 DEF Atleast0
<1>3. FilledAfterLeaving(old) \in [Roles -> 0..MaxFilled]
      /\ \A r \in Roles : FilledAfterLeaving(old)[r] <= filled[r]
    BY <1>1, <1>2 DEF FilledAfterLeaving
<1>4. ASSUME NEW r \in Roles, filled[r] < MaxFilled
      PROVE  FilledAfterAccept(old, r) \in [Roles -> 0..MaxFilled]
    <2> DEFINE counted == CountsForRole(old) /\ old.role \in Roles
               released == IF counted /\ old.role # r
                           THEN [filled EXCEPT ![old.role] = Atleast0(@ - 1)] ELSE filled
    <2>1. released \in [Roles -> 0..MaxFilled] /\ released[r] = filled[r]
        BY <1>1, <1>2
    <2>2. released[r] + 1 \in 0..MaxFilled
        BY <1>1, <1>4, <2>1
    <2>3. [released EXCEPT ![r] = @ + 1] \in [Roles -> 0..MaxFilled]
        BY <2>1, <2>2
    <2>4. FilledAfterAccept(old, r) \in {filled, [released EXCEPT ![r] = @ + 1]}
        BY DEF FilledAfterAccept
    <2> QED
        BY <1>1, <2>3, <2>4
<1> QED
    BY <1>3, <1>4

\* What a sign-up transaction that has come to its write knows.
LEMMA AtWrite ==
    ASSUME IInv, NEW t \in Sessions, HoldsEvent(t), tx[t].step = "write"
    PROVE  /\ tx[t].v \in Volunteers /\ HoldsRsvp(t, tx[t].v)
           /\ \A u \in Sessions \ {t} : ~HoldsEvent(u) /\ ~HoldsRsvp(u, tx[t].v)
           /\ Cardinality(Inside) <= tx[t].seats /\ tx[t].seats <= Cardinality(Seated)
           /\ tx[t].seats \in Nat
           /\ rsvp[tx[t].v] \in Rsvps
<1>1. Relies(t) /\ TypeOK
    BY DEF IInv
<1>2. tx[t].v \in Volunteers /\ HoldsRsvp(t, tx[t].v)
    BY <1>1 DEF Relies, HoldsEvent, HoldsRsvp, SignupOps
<1>3. \A u \in Sessions \ {t} : ~HoldsEvent(u) /\ ~HoldsRsvp(u, tx[t].v)
    BY <1>2, NoOtherHolder
<1>4. Cardinality(Inside) <= tx[t].seats /\ tx[t].seats <= Cardinality(Seated)
    BY <1>1 DEF Relies
<1>5. tx[t].seats \in Nat /\ rsvp[tx[t].v] \in Rsvps
    BY <1>1, <1>2 DEF TypeOK, Transactions
<1> QED
    BY <1>2, <1>3, <1>4, <1>5

\* An acceptance is a no-op or writes a pending or waitlisted request.
LEMMA AcceptWrites ==
    ASSUME IInv, NEW t \in Sessions, Accept(t)
    PROVE  /\ HoldsEvent(t) /\ tx[t].step = "write" /\ tx[t].role \in Roles
           /\ filled' \in [Roles -> 0..MaxFilled]
           /\ event.status # "cancelled"
           /\ \/ rsvp' = rsvp /\ filled' = filled
              \/ /\ rsvp[tx[t].v].status \notin SeatTaking
                 /\ rsvp' = [rsvp EXCEPT
                        ![tx[t].v].status = AcceptedStatus(tx[t].role, tx[t].seats),
                        ![tx[t].v].role = tx[t].role]
                 /\ filled' = FilledAfterAccept(rsvp[tx[t].v], tx[t].role)
<1>1. tx[t].op = "accept" /\ HoldsEvent(t) /\ tx[t].step = "write"
    BY DEF Accept, At, HoldsEvent, SignupOps
<1>2. Relies(t) /\ TypeOK
    BY DEF IInv
<1>3. tx[t].role \in Roles /\ filled[tx[t].role] < MaxFilled
      /\ event.status # "cancelled"
    BY <1>1, <1>2 DEF Relies
<1>4. FilledAfterAccept(rsvp[tx[t].v], tx[t].role) \in [Roles -> 0..MaxFilled]
    BY <1>1, <1>2, <1>3, AtWrite, CountersInRange
<1>5. \/ rsvp' = rsvp /\ filled' = filled
      \/ /\ rsvp[tx[t].v].status \notin SeatTaking
         /\ rsvp' = [rsvp EXCEPT
                ![tx[t].v].status = AcceptedStatus(tx[t].role, tx[t].seats),
                ![tx[t].v].role = tx[t].role]
         /\ filled' = FilledAfterAccept(rsvp[tx[t].v], tx[t].role)
    BY DEF Accept
<1> QED
    BY <1>1, <1>2, <1>3, <1>4, <1>5 DEF TypeOK

LEMMA AcceptKeeps ==
    ASSUME IInv, NEW t \in Sessions, Accept(t)
    PROVE  IInv'
<1> DEFINE v == tx[t].v
<1>1. End(t) /\ event' = event /\ outside' = outside
    BY DEF Accept
<1>2. v \in Volunteers /\ \A u \in Sessions \ {t} : ~HoldsEvent(u) /\ ~HoldsRsvp(u, v)
    BY AcceptWrites, AtWrite
<1>3. AcceptedStatus(tx[t].role, tx[t].seats) \in {"pending", "waitlisted"}
    BY DEF AcceptedStatus
<1>4. /\ rsvp' \in [Volunteers -> Rsvps]
      /\ \A w \in Volunteers \ {v} : rsvp'[w] = rsvp[w]
      /\ rsvp'[v].noShow = rsvp[v].noShow
      /\ rsvp'[v].verification = rsvp[v].verification
      /\ rsvp'[v] = rsvp[v] \/ rsvp'[v].status \in {"pending", "waitlisted"}
      /\ rsvp[v].status \in SeatTaking => rsvp'[v] = rsvp[v]
    <2>1. rsvp \in [Volunteers -> Rsvps]
        BY DEF IInv, TypeOK
    <2>2. CASE rsvp' = rsvp
        BY <2>1, <2>2
    <2>3. CASE rsvp' # rsvp
        <3> DEFINE s == AcceptedStatus(tx[t].role, tx[t].seats)
        <3>1. /\ rsvp[v].status \notin SeatTaking /\ tx[t].role \in Roles
              /\ rsvp' = [rsvp EXCEPT ![v].status = s, ![v].role = tx[t].role]
            BY <2>3, AcceptWrites
        <3>2. s \in {"pending", "waitlisted"}
            BY <1>3
        <3> HIDE DEF s, v
        <3>3. rsvp' = [rsvp EXCEPT ![v] = [@ EXCEPT !.status = s, !.role = tx[t].role]]
            BY <1>2, <2>1, <3>1
        <3>4. [rsvp[v] EXCEPT !.status = s, !.role = tx[t].role] \in Rsvps
            BY <1>2, <2>1, <3>1, <3>2 DEF Rsvps, Statuses
        <3> QED
            BY <1>2, <2>1, <3>1, <3>2, <3>3, <3>4 DEF Rsvps
    <2> QED
        BY <2>2, <2>3
<1>5. Inside' \subseteq Inside
    BY <1>1, <1>4 DEF Inside, Seated, SeatTaking
<1>6. \A u \in Sessions \ {t} : Leaves(u)
    BY <1>2, <1>4 DEF Leaves
<1>7. CapacityRespected'
    BY <1>1, <1>5, NoSeatTakenNorChanged
<1>8. NoRowNoRole' /\ HostVerifiedAttended'
    BY <1>4 DEF IInv, RowsSound, NoRowNoRole, HostVerifiedAttended
<1>9. filled' \in [Roles -> 0..MaxFilled]
    BY AcceptWrites
<1> QED
    BY <1>1, <1>4, <1>6, <1>7, <1>8, <1>9, EndStep DEF IInv, TypeOK, RowsSound

-----------------------------------------------------------------------------
(***************************************************************************)
(* Promotion from the waitlist.                                            *)
(***************************************************************************)

SeatedIn(x) == {v \in Volunteers : x[v].status \in SeatTaking}
WaitingIn(x) == {v \in Volunteers : x[v].status = "waitlisted"}
UnlockedIn(others, x) == {v \in WaitingIn(x) : \A u \in others : ~HoldsRsvp(u, v)}

\* A promotion takes people off the waitlist whose RSVP is not locked, nobody
\* in a cancelled event, and otherwise as many as there are free seats or as
\* there are people it can take.
LEMMA PromotionTakesWaiting ==
    ASSUME NEW others, NEW e \in Events, NEW x \in [Volunteers -> Rsvps],
           NEW S \in Promotions(others, e, x)
    PROVE  /\ S \subseteq UnlockedIn(others, x)
           /\ e.status = "cancelled" => S = {}
           /\ e.status = "cancelled" \/ S = UnlockedIn(others, x)
              \/ (Limited(e) /\ Cardinality(SeatedIn(x)) + Cardinality(S) >= e.capacity)
<1> DEFINE seats == Cardinality(SeatedIn(x))
           limit == IF e.status = "cancelled" THEN 0
                    ELSE IF Limited(e) THEN Atleast0(e.capacity - seats)
                    ELSE Cardinality(WaitingIn(x))
           unlocked == UnlockedIn(others, x)
<1>1. S \in SUBSET unlocked /\ Cardinality(S) = Lowest(limit, Cardinality(unlocked))
    BY DEF Promotions, SeatedIn, WaitingIn, UnlockedIn
<1>2. SeatedIn(x) \in SUBSET Volunteers /\ WaitingIn(x) \in SUBSET Volunteers
      /\ unlocked \in SUBSET WaitingIn(x) /\ unlocked \in SUBSET Volunteers
    BY DEF SeatedIn, WaitingIn, UnlockedIn
<1>3. seats \in Nat /\ Cardinality(WaitingIn(x)) \in Nat
      /\ Cardinality(unlocked) \in Nat
      /\ Cardinality(unlocked) <= Cardinality(WaitingIn(x))
    BY <1>2, PeopleAreCounted
<1>4. Cardinality(S) \in Nat /\ (Cardinality(unlocked) = Cardinality(S) => unlocked = S)
    BY <1>1, <1>2, PeopleAreCounted
<1>5. e.capacity \in Nat
    BY CapacitiesAreNat DEF Events
<1>6. CASE e.status = "cancelled"
    <2>1. Cardinality(S) = 0
        BY <1>1, <1>3, <1>6 DEF Lowest
    <2>2. IsFiniteSet(S)
        BY <1>1, <1>2, PeopleAreCounted
    <2>3. S = {}
        BY <2>1, <2>2, FS_EmptySet
    <2> QED
        BY <1>1, <1>6, <2>3
<1>7. CASE e.status # "cancelled"
    <2>1. Cardinality(S) = limit \/ Cardinality(S) = Cardinality(unlocked)
        BY <1>1 DEF Lowest
    <2>2. CASE Cardinality(S) = Cardinality(unlocked)
        BY <1>1, <1>4, <1>7, <2>2
    <2>3. CASE Cardinality(S) = limit /\ Limited(e)
        BY <1>1, <1>3, <1>5, <1>7, <2>3 DEF Atleast0
    <2>4. CASE Cardinality(S) = limit /\ ~Limited(e)
        <3>1. Cardinality(S) = Cardinality(WaitingIn(x))
            BY <1>7, <2>4
        <3>2. Cardinality(S) <= Cardinality(unlocked)
            BY <1>1, <1>3, <3>1 DEF Lowest
        <3> QED
            BY <1>1, <1>3, <1>4, <1>7, <3>1, <3>2
    <2> QED
        BY <2>1, <2>2, <2>3, <2>4
<1> QED
    BY <1>6, <1>7

\* Who is promoted becomes pending; nothing else changes.
LEMMA PromotedRows ==
    ASSUME NEW x \in [Volunteers -> Rsvps], NEW S \in SUBSET WaitingIn(x)
    PROVE  /\ Promoted(x, S) \in [Volunteers -> Rsvps]
           /\ SeatedIn(Promoted(x, S)) = SeatedIn(x)
           /\ WaitingIn(Promoted(x, S)) = WaitingIn(x) \ S
           /\ \A v \in Volunteers :
                 /\ v \notin S => Promoted(x, S)[v] = x[v]
                 /\ v \in S => Promoted(x, S)[v].status = "pending"
                               /\ x[v].status = "waitlisted"
                 /\ Promoted(x, S)[v].role = x[v].role
                 /\ Promoted(x, S)[v].noShow = x[v].noShow
                 /\ Promoted(x, S)[v].verification = x[v].verification
<1>1. ASSUME NEW v \in Volunteers
      PROVE  /\ Promoted(x, S)[v] \in Rsvps
             /\ v \notin S => Promoted(x, S)[v] = x[v]
             /\ v \in S => Promoted(x, S)[v].status = "pending"
                           /\ x[v].status = "waitlisted"
             /\ Promoted(x, S)[v].role = x[v].role
             /\ Promoted(x, S)[v].noShow = x[v].noShow
             /\ Promoted(x, S)[v].verification = x[v].verification
    BY DEF Promoted, WaitingIn, Rsvps, Statuses
<1>2. Promoted(x, S) \in [Volunteers -> Rsvps]
    BY <1>1 DEF Promoted
<1> HIDE DEF Promoted
<1>3. SeatedIn(Promoted(x, S)) = SeatedIn(x)
    BY <1>1 DEF SeatedIn, SeatTaking
<1>4. WaitingIn(Promoted(x, S)) = WaitingIn(x) \ S
    BY <1>1 DEF WaitingIn
<1> QED
    BY <1>1, <1>2, <1>3, <1>4

\* What a decline does to the RSVPs: v is out, and S is promoted.
Declines(v, S) ==
    /\ rsvp' \in [Volunteers -> Rsvps]
    /\ rsvp'[v] = [rsvp[v] EXCEPT !.status = "declined"]
    /\ \A w \in Volunteers \ {v} :
          /\ w \notin S => rsvp'[w] = rsvp[w]
          /\ w \in S => rsvp'[w].status = "pending" /\ rsvp[w].status = "waitlisted"
          /\ rsvp'[w].role = rsvp[w].role
          /\ rsvp'[w].noShow = rsvp[w].noShow
          /\ rsvp'[w].verification = rsvp[w].verification
    /\ Seated' = Seated \ {v}
    /\ Waitlisted' = (Waitlisted \ {v}) \ S

\* A decline that gives a seat up offers it, to people whose RSVP is unlocked.
LEMMA DeclineWrites ==
    ASSUME IInv, NEW t \in Sessions, NEW v \in Volunteers, WriteDeclined(t, v)
    PROVE  \E S \in SUBSET Volunteers :
              /\ Declines(v, S)
              /\ v \notin S
              /\ \A w \in S : \A u \in Sessions \ {t} : ~HoldsRsvp(u, w)
              /\ event.status = "cancelled" => S = {}
              /\ v \notin Seated \/ event.status = "cancelled"
                 \/ (\A w \in Waitlisted : RsvpFree(w) => w \in S)
                 \/ (Limited(event) /\ Cardinality(Seated') + Cardinality(S) >= event.capacity)
<1> DEFINE x == [rsvp EXCEPT ![v].status = "declined"]
           others == Sessions \ {t}
<1>1. rsvp \in [Volunteers -> Rsvps] /\ event \in Events
    BY DEF IInv, TypeOK
<1>2. /\ x \in [Volunteers -> Rsvps]
      /\ x[v] = [rsvp[v] EXCEPT !.status = "declined"]
      /\ \A w \in Volunteers \ {v} : x[w] = rsvp[w]
    BY <1>1 DEF Rsvps, Statuses
<1>3. \/ rsvp' = x /\ v \notin Seated
      \/ \E S \in Promotions(others, event, x) : rsvp' = Promoted(x, S)
    BY DEF WriteDeclined, Seated
<1> HIDE DEF x
<1>4. SeatedIn(x) = Seated \ {v} /\ WaitingIn(x) = Waitlisted \ {v}
    <2>1. x[v].status = "declined"
        BY <1>1, <1>2 DEF Rsvps
    <2> QED
        BY <1>2, <2>1 DEF SeatedIn, WaitingIn, Seated, Waitlisted, SeatTaking
<1>5. Seated' = SeatedIn(rsvp') /\ Waitlisted' = WaitingIn(rsvp')
    BY DEF Seated, Waitlisted, SeatedIn, WaitingIn
<1>6. CASE rsvp' = x /\ v \notin Seated
    <2>1. Declines(v, {})
        BY <1>2, <1>4, <1>5, <1>6 DEF Declines
    <2> QED
        BY <1>6, <2>1
<1>7. ASSUME NEW S \in Promotions(others, event, x), rsvp' = Promoted(x, S)
      PROVE  /\ S \in SUBSET Volunteers
             /\ Declines(v, S)
             /\ v \notin S
             /\ \A w \in S : \A u \in others : ~HoldsRsvp(u, w)
             /\ event.status = "cancelled" => S = {}
             /\ event.status = "cancelled"
                \/ (v \in Seated => \A w \in Waitlisted : RsvpFree(w) => w \in S)
                \/ (Limited(event) /\ Cardinality(Seated') + Cardinality(S) >= event.capacity)
    <2>1. /\ S \subseteq UnlockedIn(others, x)
          /\ event.status = "cancelled" => S = {}
          /\ event.status = "cancelled" \/ S = UnlockedIn(others, x)
             \/ (Limited(event) /\ Cardinality(SeatedIn(x)) + Cardinality(S) >= event.capacity)
        BY <1>1, <1>2, <1>7, PromotionTakesWaiting
    <2>2. S \in SUBSET WaitingIn(x) /\ S \in SUBSET Volunteers /\ v \notin S
          /\ \A w \in S : \A u \in others : ~HoldsRsvp(u, w)
        BY <1>4, <2>1 DEF UnlockedIn, WaitingIn
    <2>3. /\ rsvp' \in [Volunteers -> Rsvps]
          /\ SeatedIn(rsvp') = SeatedIn(x)
          /\ WaitingIn(rsvp') = WaitingIn(x) \ S
          /\ \A w \in Volunteers :
                /\ w \notin S => rsvp'[w] = x[w]
                /\ w \in S => rsvp'[w].status = "pending" /\ x[w].status = "waitlisted"
                /\ rsvp'[w].role = x[w].role
                /\ rsvp'[w].noShow = x[w].noShow
                /\ rsvp'[w].verification = x[w].verification
        BY <1>2, <1>7, <2>2, PromotedRows
    <2>4. Declines(v, S)
        BY <1>2, <1>4, <1>5, <2>2, <2>3 DEF Declines
    <2>5. S = UnlockedIn(others, x) =>
              (v \in Seated => \A w \in Waitlisted : RsvpFree(w) => w \in S)
        <3> SUFFICES ASSUME S = UnlockedIn(others, x), v \in Seated,
                            NEW w \in Waitlisted, RsvpFree(w)
                     PROVE  w \in S
            OBVIOUS
        <3>1. w # v
            BY DEF Seated, Waitlisted, SeatTaking
        <3> QED
            BY <1>4, <3>1 DEF UnlockedIn, RsvpFree
    <2>6. Cardinality(SeatedIn(x)) = Cardinality(Seated')
        BY <1>5, <2>3
    <2> QED
        BY <2>1, <2>2, <2>4, <2>5, <2>6
<1>8. CASE \E S \in Promotions(others, event, x) : rsvp' = Promoted(x, S)
    <2> PICK S \in Promotions(others, event, x) : rsvp' = Promoted(x, S)
        BY <1>8
    <2>1. v \in Seated \/ v \notin Seated
        OBVIOUS
    <2> QED
        BY <1>7, <2>1
<1> QED
    BY <1>3, <1>6, <1>8

LEMMA WriteDeclinedKeeps ==
    ASSUME IInv, NEW t \in Sessions, HoldsEvent(t), tx[t].step = "write",
           WriteDeclined(t, tx[t].v)
    PROVE  IInv'
<1> DEFINE v == tx[t].v
<1>1. /\ v \in Volunteers /\ rsvp[v] \in Rsvps
      /\ \A u \in Sessions \ {t} : ~HoldsEvent(u) /\ ~HoldsRsvp(u, v)
    BY AtWrite
<1>2. End(t) /\ event' = event /\ outside' = outside \ {v}
      /\ filled' = FilledAfterLeaving(rsvp[v])
    BY DEF WriteDeclined
<1>3. PICK S \in SUBSET Volunteers :
          /\ Declines(v, S)
          /\ \A w \in S : \A u \in Sessions \ {t} : ~HoldsRsvp(u, w)
    BY <1>1, DeclineWrites
<1>4. filled' \in [Roles -> 0..MaxFilled]
    <2>1. TypeOK
        BY DEF IInv
    <2>2. rsvp[v] \in Rsvps
        BY <1>1
    <2>3. FilledAfterLeaving(rsvp[v]) \in [Roles -> 0..MaxFilled]
        BY <2>1, <2>2, CountersInRange
    <2> QED
        BY <1>2, <2>3
<1>5. Inside' \subseteq Inside
    BY <1>2, <1>3 DEF Declines, Inside
<1>6. \A u \in Sessions \ {t} : Leaves(u)
    <2> SUFFICES ASSUME NEW u \in Sessions \ {t}, NEW w \in Volunteers,
                        HoldsRsvp(u, w)
                 PROVE  rsvp'[w] = rsvp[w]
        BY <1>1 DEF Leaves
    <2>1. w # v /\ w \notin S
        BY <1>1, <1>3
    <2> QED
        BY <1>3, <2>1 DEF Declines
<1>7. CapacityRespected'
    BY <1>2, <1>5, NoSeatTakenNorChanged
<1>8. NoRowNoRole' /\ HostVerifiedAttended'
    <2>1. NoRowNoRole /\ HostVerifiedAttended /\ rsvp \in [Volunteers -> Rsvps]
        BY DEF IInv, RowsSound, TypeOK
    <2>2. /\ rsvp'[v].status = "declined" /\ rsvp'[v].noShow = rsvp[v].noShow
          /\ rsvp'[v].verification = rsvp[v].verification
        BY <1>1, <1>3 DEF Declines, Rsvps
    <2>3. \A w \in Volunteers \ {v} :
              /\ rsvp'[w].status = "pending" \/ rsvp'[w] = rsvp[w]
              /\ rsvp'[w].noShow = rsvp[w].noShow
              /\ rsvp'[w].verification = rsvp[w].verification
        BY <1>3 DEF Declines
    <2> QED
        BY <2>1, <2>2, <2>3 DEF NoRowNoRole, HostVerifiedAttended
<1>9. rsvp' \in [Volunteers -> Rsvps] /\ event' \in Events /\ outside' \subseteq Volunteers
    BY <1>2, <1>3 DEF Declines, IInv, TypeOK
<1> QED
    BY <1>2, <1>4, <1>6, <1>7, <1>8, <1>9, EndStep DEF RowsSound

LEMMA ApproveKeeps ==
    ASSUME IInv, NEW t \in Sessions, Approve(t)
    PROVE  IInv'
<1> DEFINE v == tx[t].v
<1>1. HoldsEvent(t) /\ tx[t].step = "write"
    BY DEF Approve, At, HoldsEvent, SignupOps
<1>2. /\ v \in Volunteers /\ Cardinality(Inside) <= tx[t].seats /\ tx[t].seats \in Nat
      /\ \A u \in Sessions \ {t} : ~HoldsEvent(u) /\ ~HoldsRsvp(u, v)
    BY <1>1, AtWrite
<1>3. /\ End(t) /\ event' = event /\ filled' = filled /\ outside' = outside \ {v}
      /\ rsvp' = [rsvp EXCEPT ![v].status = "accepted"]
      /\ rsvp[v].status \notin SeatTaking \cup {"none"}
      /\ Limited(event) => tx[t].seats < event.capacity
    BY DEF Approve, RoomFor
<1>4. TypeOK /\ RowsSound /\ rsvp \in [Volunteers -> Rsvps]
    BY DEF IInv, TypeOK
<1>5. /\ rsvp' \in [Volunteers -> Rsvps]
      /\ \A w \in Volunteers \ {v} : rsvp'[w] = rsvp[w]
      /\ rsvp'[v].status = "accepted" /\ rsvp'[v].noShow = rsvp[v].noShow
      /\ rsvp'[v].verification = rsvp[v].verification
    BY <1>2, <1>3, <1>4 DEF Rsvps, Statuses
<1>6. Inside' \in SUBSET (Inside \cup {v}) /\ Inside \in SUBSET Volunteers
    BY <1>3, <1>5 DEF Inside, Seated
<1>7. CapacityRespected'
    <2>1. Inside \cup {v} \in SUBSET Volunteers
        BY <1>2, <1>6
    <2>2. /\ Cardinality(Inside') \in Nat
          /\ Cardinality(Inside') <= Cardinality(Inside \cup {v})
        BY <1>6, <2>1, PeopleAreCounted
    <2>3. /\ Cardinality(Inside \cup {v}) \in Nat /\ Cardinality(Inside) \in Nat
          /\ Cardinality(Inside \cup {v}) <= Cardinality(Inside) + 1
        <3>1. v \in Volunteers /\ Inside \in SUBSET Volunteers
            BY <1>2, <1>6
        <3> HIDE DEF v
        <3>2. /\ Cardinality(Inside \cup {v}) \in Nat /\ Cardinality(Inside) \in Nat
              /\ Cardinality(Inside \cup {v}) =
                     IF v \in Inside THEN Cardinality(Inside) ELSE Cardinality(Inside) + 1
            BY <3>1, OneMorePerson
        <3> QED
            BY <3>2
    <2>4. event.capacity \in Nat
        BY <1>4, CapacitiesAreNat DEF TypeOK, Events
    <2>5. Limited(event) => Cardinality(Inside') <= event.capacity
        BY <1>2, <1>3, <2>2, <2>3, <2>4
    <2> QED
        BY <1>3, <2>5 DEF CapacityRespected, Inside, Limited
<1>8. NoRowNoRole' /\ HostVerifiedAttended'
    BY <1>4, <1>5 DEF RowsSound, NoRowNoRole, HostVerifiedAttended
<1>9. \A u \in Sessions \ {t} : Leaves(u)
    BY <1>2, <1>5 DEF Leaves
<1>10. /\ event' \in Events /\ filled' \in [Roles -> 0..MaxFilled]
       /\ outside' \subseteq Volunteers
    BY <1>3, <1>4 DEF TypeOK
<1> QED
    BY <1>3, <1>5, <1>7, <1>8, <1>9, <1>10, EndStep DEF RowsSound

-----------------------------------------------------------------------------
(***************************************************************************)
(* Requests that one step serves.                                          *)
(***************************************************************************)

LEMMA NobodyHoldsEvent ==
    ASSUME NEW u \in Sessions, EventFree
    PROVE  ~HoldsEvent(u)
BY DEF EventFree

LEMMA AdminSignupKeeps ==
    ASSUME IInv, NEW v \in Volunteers, AdminSignup(v)
    PROVE  IInv'
<1>1. /\ EventFree /\ rsvp[v].status = "none"
      /\ rsvp' = [rsvp EXCEPT ![v].status = "accepted"]
      /\ outside' = outside \cup {v} /\ UNCHANGED <<event, filled, tx>>
    BY DEF AdminSignup
<1>2. TypeOK /\ RowsSound /\ rsvp \in [Volunteers -> Rsvps]
    BY DEF IInv, TypeOK
<1>3. /\ rsvp' \in [Volunteers -> Rsvps]
      /\ \A w \in Volunteers \ {v} : rsvp'[w] = rsvp[w]
      /\ rsvp'[v].status = "accepted" /\ rsvp'[v].noShow = rsvp[v].noShow
      /\ rsvp'[v].verification = rsvp[v].verification
    BY <1>1, <1>2 DEF Rsvps, Statuses
<1>4. Inside' \subseteq Inside
    BY <1>1, <1>3 DEF Inside, Seated
<1>5. CapacityRespected'
    BY <1>1, <1>4, NoSeatTakenNorChanged
<1>6. NoRowNoRole' /\ HostVerifiedAttended'
    BY <1>2, <1>3 DEF RowsSound, NoRowNoRole, HostVerifiedAttended
<1>7. ASSUME NEW u \in Sessions PROVE Leaves(u)
    <2>1. \A w \in Volunteers : Verifiable(rsvp[w]) => Verifiable(rsvp'[w])
        BY <1>1, <1>3 DEF Verifiable, SeatTaking
    <2> QED
        BY <1>1, <2>1, NobodyHoldsEvent DEF Leaves
<1>8. TypeOK'
    BY <1>1, <1>2, <1>3 DEF TypeOK
<1> QED
    BY <1>1, <1>5, <1>6, <1>7, <1>8, RequestStep DEF RowsSound

\* An edit of the capacity lets those who are seated keep their seats.
LEMMA CutKeepsCapacity ==
    ASSUME IInv, NEW c \in Capacities, event' \in Events, event'.capacity = c,
           outside' = OutsideAfterCut(c), Seated' = Seated
    PROVE  CapacityRespected' /\ outside' \subseteq Volunteers
<1>1. outside' \subseteq Volunteers
    BY DEF OutsideAfterCut, Seated, IInv, TypeOK
<1>2. c \in Nat /\ event.capacity \in Nat
    BY CapacitiesAreNat DEF IInv, TypeOK, Events
<1>3. CASE outside' = Seated
    <2>1. Inside' = {}
        BY <1>3 DEF Inside
    <2>2. Cardinality(Inside') = 0
        BY <2>1, FS_EmptySet
    <2> QED
        BY <1>1, <1>2, <2>2 DEF CapacityRespected, Inside
<1>4. CASE outside' # Seated
    <2>1. outside' = outside /\ (c > 0 => Limited(event) /\ c >= event.capacity)
        BY <1>2, <1>4 DEF OutsideAfterCut
    <2>2. Inside' \subseteq Inside
        BY <2>1 DEF Inside
    <2>3. Limited(event') => Limited(event) /\ event.capacity <= event'.capacity
        BY <1>2, <2>1 DEF Limited
    <2> QED
        BY <1>1, <2>2, <2>3, NoSeatTaken
<1> QED
    BY <1>3, <1>4

LEMMA UpdateEventKeeps ==
    ASSUME IInv, NEW c \in Capacities, NEW w \in BOOLEAN, UpdateEvent(c, w)
    PROVE  IInv'
<1>1. /\ EventFree
      /\ event' = [event EXCEPT !.capacity = c, !.waitlist = w]
      /\ outside' = OutsideAfterCut(c) /\ UNCHANGED <<filled, tx>>
    BY DEF UpdateEvent
<1>2. TypeOK /\ RowsSound /\ rsvp \in [Volunteers -> Rsvps] /\ event \in Events
    BY DEF IInv, TypeOK
<1>3. event' \in Events /\ event'.capacity = c
    BY <1>1, <1>2 DEF Events
<1>4. PICK S \in Promotions(Sessions, event', rsvp) : rsvp' = Promoted(rsvp, S)
    BY DEF UpdateEvent
<1>5. S \subseteq UnlockedIn(Sessions, rsvp)
    BY <1>2, <1>3, PromotionTakesWaiting
<1>6. S \in SUBSET WaitingIn(rsvp)
    BY <1>5 DEF UnlockedIn
<1>7. /\ rsvp' \in [Volunteers -> Rsvps]
      /\ SeatedIn(rsvp') = SeatedIn(rsvp)
      /\ \A v \in Volunteers :
            /\ v \notin S => rsvp'[v] = rsvp[v]
            /\ v \in S => rsvp'[v].status = "pending" /\ rsvp[v].status = "waitlisted"
            /\ rsvp'[v].role = rsvp[v].role
            /\ rsvp'[v].noShow = rsvp[v].noShow
            /\ rsvp'[v].verification = rsvp[v].verification
    BY <1>2, <1>4, <1>6, PromotedRows
<1>8. Seated' = Seated
    BY <1>7 DEF Seated, SeatedIn
<1>9. CapacityRespected' /\ outside' \subseteq Volunteers
    BY <1>1, <1>3, <1>8, CutKeepsCapacity
<1>10. NoRowNoRole' /\ HostVerifiedAttended'
    BY <1>2, <1>7 DEF RowsSound, NoRowNoRole, HostVerifiedAttended
<1>11. ASSUME NEW u \in Sessions PROVE Leaves(u)
    <2>1. \A v \in Volunteers : Verifiable(rsvp[v]) => Verifiable(rsvp'[v])
        BY <1>7 DEF Verifiable, SeatTaking
    <2> QED
        BY <1>1, <2>1, NobodyHoldsEvent DEF Leaves
<1>12. TypeOK'
    BY <1>1, <1>2, <1>3, <1>7, <1>9 DEF TypeOK
<1> QED
    BY <1>1, <1>9, <1>10, <1>11, <1>12, RequestStep DEF RowsSound

LEMMA AdminPatchEventKeeps ==
    ASSUME IInv, NEW c \in Capacities, NEW s \in EventStatuses, AdminPatchEvent(c, s)
    PROVE  IInv'
<1>1. /\ EventFree
      /\ event' = [event EXCEPT !.capacity = c, !.status = s]
      /\ outside' = OutsideAfterCut(c) /\ UNCHANGED <<rsvp, filled, tx>>
    BY DEF AdminPatchEvent
<1>2. TypeOK /\ RowsSound /\ event \in Events
    BY DEF IInv, TypeOK
<1>3. event' \in Events /\ event'.capacity = c
    BY <1>1, <1>2 DEF Events
<1>4. Seated' = Seated
    BY <1>1 DEF Seated
<1>5. CapacityRespected' /\ outside' \subseteq Volunteers
    BY <1>1, <1>3, <1>4, CutKeepsCapacity
<1>6. NoRowNoRole' /\ HostVerifiedAttended'
    BY <1>1, <1>2 DEF RowsSound, NoRowNoRole, HostVerifiedAttended
<1>7. ASSUME NEW u \in Sessions PROVE Leaves(u)
    BY <1>1, NobodyHoldsEvent DEF Leaves
<1>8. TypeOK'
    BY <1>1, <1>2, <1>3, <1>5 DEF TypeOK
<1> QED
    BY <1>1, <1>5, <1>6, <1>7, <1>8, RequestStep DEF RowsSound

LEMMA RequestKeeps ==
    ASSUME IInv, Request
    PROVE  IInv'
BY AdminSignupKeeps, UpdateEventKeeps, AdminPatchEventKeeps DEF Request

-----------------------------------------------------------------------------
(***************************************************************************)
(* Attendance.                                                             *)
(***************************************************************************)

\* An attendance step writes the RSVP of one volunteer, whose lock it holds or
\* finds free, and leaves him his seat.
AttendanceWrite(t, v) ==
    /\ HoldsRsvp(t, v) \/ RsvpFree(v)
    /\ rsvp' \in [Volunteers -> Rsvps]
    /\ \A w \in Volunteers \ {v} : rsvp'[w] = rsvp[w]
    /\ rsvp[v].status \in SeatTaking => rsvp'[v].status \in SeatTaking
    /\ rsvp'[v].status = "none" =>
          rsvp[v].status = "none" /\ rsvp'[v].role = rsvp[v].role
    /\ rsvp'[v].verification = "verified" => ~rsvp'[v].noShow

LEMMA AttendanceStep ==
    ASSUME IInv, NEW t \in Sessions, NEW v \in Volunteers, End(t), event' = event,
           AttendanceWrite(t, v), filled' \in [Roles -> 0..MaxFilled],
           \A r \in Roles : filled'[r] <= filled[r],
           outside' \subseteq Volunteers, outside \subseteq outside',
           Seated' \ Seated \subseteq outside'
    PROVE  IInv'
<1>1. TypeOK /\ RowsSound /\ \A u \in Sessions \ {t} : ~HoldsRsvp(u, v)
    BY NoOtherHolder DEF IInv, AttendanceWrite
<1>2. Seated \subseteq Seated' /\ Inside' \subseteq Inside
    BY DEF AttendanceWrite, Seated, Inside
<1>3. CapacityRespected'
    BY <1>2, NoSeatTakenNorChanged
<1>4. NoRowNoRole' /\ HostVerifiedAttended'
    BY <1>1 DEF RowsSound, NoRowNoRole, HostVerifiedAttended, AttendanceWrite
<1>5. ASSUME NEW u \in Sessions \ {t} PROVE Leaves(u)
    BY <1>1, <1>2 DEF Leaves, AttendanceWrite
<1> QED
    BY <1>1, <1>3, <1>4, <1>5, EndStep DEF AttendanceWrite, RowsSound, TypeOK

\* What an attendance transaction has.
LEMMA AtAttendance ==
    ASSUME IInv, NEW t \in Sessions,
           tx[t].op \in AttendanceOps \/ (tx[t].op = "portal_verify" /\ tx[t].step = "claim"),
           tx[t].step \in {"write", "claim"}
    PROVE  /\ tx[t].v \in Volunteers /\ HoldsRsvp(t, tx[t].v)
           /\ rsvp[tx[t].v] \in Rsvps /\ rsvp \in [Volunteers -> Rsvps]
<1>1. Relies(t) /\ TypeOK
    BY DEF IInv
<1>2. tx[t].v \in Volunteers
    BY <1>1 DEF Relies, AttendanceOps
<1>3. HoldsRsvp(t, tx[t].v)
    BY DEF HoldsRsvp
<1> QED
    BY <1>1, <1>2, <1>3 DEF TypeOK

\* Counters that are left alone do not grow.
LEMMA CountersKept ==
    ASSUME TypeOK, filled' = filled
    PROVE  filled' \in [Roles -> 0..MaxFilled] /\ \A r \in Roles : filled'[r] <= filled[r]
<1>1. \A r \in Roles : filled[r] \in Int
    BY MaxFilledNat DEF TypeOK
<1> QED
    BY <1>1 DEF TypeOK

LEMMA VerifyKeeps ==
    ASSUME IInv, NEW t \in Sessions, NEW decision \in {"verified", "rejected"},
           Verify(t, decision)
    PROVE  IInv'
<1> DEFINE v == tx[t].v
<1>1. tx[t].op \in AttendanceOps /\ tx[t].step = "write"
    BY DEF Verify, At, AttendanceOps
<1>2. /\ v \in Volunteers /\ HoldsRsvp(t, v)
      /\ rsvp[v] \in Rsvps /\ rsvp \in [Volunteers -> Rsvps]
    BY <1>1, AtAttendance
<1>3. /\ rsvp' = [rsvp EXCEPT ![v].verification = decision]
      /\ rsvp[v].status \in SeatTaking /\ ~rsvp[v].noShow
      /\ End(t) /\ UNCHANGED <<event, filled, outside>>
    BY DEF Verify, Verifiable
<1> HIDE DEF v
<1>4. rsvp'[v] \in Rsvps /\ rsvp'[v].status = rsvp[v].status /\ ~rsvp'[v].noShow
    BY <1>2, <1>3 DEF Rsvps, Verifications
<1>5. AttendanceWrite(t, v) /\ Seated' = Seated
    BY <1>2, <1>3, <1>4 DEF AttendanceWrite, Seated, SeatTaking
<1>6. TypeOK
    BY DEF IInv
<1> QED
    BY <1>2, <1>3, <1>5, <1>6, CountersKept, AttendanceStep DEF TypeOK

LEMMA ClaimKeeps ==
    ASSUME IInv, NEW t \in Sessions, Claim(t)
    PROVE  IInv'
<1> DEFINE v == tx[t].v
           seal == IF tx[t].op = "portal_verify" THEN "portal"
                   ELSE IF AlreadyVerified(rsvp[v]) THEN rsvp[v].verification ELSE "verified"
<1>1. Relies(t) /\ TypeOK /\ RowsSound
    BY DEF IInv
<1>2. tx[t].step = "claim" /\ tx[t].op \in {"verify", "portal_verify"}
    BY <1>1 DEF Claim, Relies
<1>3. /\ v \in Volunteers /\ HoldsRsvp(t, v)
      /\ rsvp[v] \in Rsvps /\ rsvp \in [Volunteers -> Rsvps]
    BY <1>2, AtAttendance DEF AttendanceOps
<1>4. rsvp' = [rsvp EXCEPT ![v].verification = seal]
      /\ End(t) /\ UNCHANGED <<event, filled, outside>>
    BY DEF Claim
<1>5. seal \in Verifications /\ (seal = "verified" => ~rsvp[v].noShow)
    <2>1. tx[t].op = "verify" => ~rsvp[v].noShow
        BY <1>1, <1>2 DEF Relies, At, Verifiable
    <2> QED
        BY <1>2, <1>3, <2>1 DEF Verifications, AlreadyVerified
<1> HIDE DEF v, seal
<1>6. rsvp'[v] \in Rsvps /\ rsvp'[v].status = rsvp[v].status
      /\ rsvp'[v].role = rsvp[v].role
      /\ rsvp'[v].noShow = rsvp[v].noShow /\ rsvp'[v].verification = seal
    BY <1>3, <1>4, <1>5 DEF Rsvps
<1>7. AttendanceWrite(t, v) /\ Seated' = Seated
    BY <1>3, <1>4, <1>5, <1>6 DEF AttendanceWrite, Seated
<1> QED
    BY <1>1, <1>3, <1>4, <1>7, CountersKept, AttendanceStep DEF TypeOK

LEMMA MarkNoShowKeeps ==
    ASSUME IInv, NEW t \in Sessions, MarkNoShow(t)
    PROVE  IInv'
<1> DEFINE v == tx[t].v
           r == rsvp[v].role
<1>1. tx[t].op \in AttendanceOps /\ tx[t].step = "write"
    BY DEF MarkNoShow, At, AttendanceOps
<1>2. /\ v \in Volunteers /\ HoldsRsvp(t, v)
      /\ rsvp[v] \in Rsvps /\ rsvp \in [Volunteers -> Rsvps]
    BY <1>1, AtAttendance
<1>3. /\ rsvp' = [rsvp EXCEPT ![v].noShow = TRUE, ![v].status = "accepted",
                              ![v].verification = "pending"]
      /\ rsvp[v].status \in SeatTaking
      /\ filled' = IF r \in Roles THEN [filled EXCEPT ![r] = Atleast0(@ - 1)] ELSE filled
      /\ End(t) /\ UNCHANGED <<event, outside>>
    BY DEF MarkNoShow, MayBeNoShow
<1>4. TypeOK /\ filled \in [Roles -> 0..MaxFilled] /\ MaxFilled \in Nat
    BY MaxFilledNat DEF IInv, TypeOK
<1>5. filled' \in [Roles -> 0..MaxFilled] /\ \A q \in Roles : filled'[q] <= filled[q]
    <2>1. \A n \in 0..MaxFilled : Atleast0(n - 1) \in 0..MaxFilled /\ Atleast0(n - 1) <= n
        BY <1>4 DEF Atleast0
    <2> HIDE DEF r
    <2> QED
        BY <1>3, <1>4, <2>1
<1> HIDE DEF v, r
<1>6. rsvp' = [rsvp EXCEPT ![v] = [@ EXCEPT !.noShow = TRUE, !.status = "accepted",
                                            !.verification = "pending"]]
    BY <1>2, <1>3
<1>7. /\ rsvp'[v] \in Rsvps /\ rsvp'[v].status = "accepted"
      /\ rsvp'[v].verification = "pending"
      /\ \A w \in Volunteers \ {v} : rsvp'[w] = rsvp[w]
      /\ rsvp' \in [Volunteers -> Rsvps]
    BY <1>2, <1>6 DEF Rsvps, Statuses, Verifications
<1>8. AttendanceWrite(t, v) /\ Seated' = Seated
    BY <1>2, <1>3, <1>7 DEF AttendanceWrite, Seated, SeatTaking
<1> QED
    BY <1>2, <1>3, <1>4, <1>5, <1>8, AttendanceStep DEF TypeOK

LEMMA CheckInKeeps ==
    ASSUME IInv, NEW t \in Sessions, CheckIn(t)
    PROVE  IInv'
<1> DEFINE v == tx[t].v
<1>1. TypeOK /\ Relies(t) /\ rsvp \in [Volunteers -> Rsvps]
    BY DEF IInv, TypeOK
<1>2. v \in Volunteers
    BY <1>1 DEF Relies, CheckIn, At
<1>3. /\ RsvpFree(v)
      /\ rsvp' = [rsvp EXCEPT ![v].status = "checked_in", ![v].noShow = FALSE]
      /\ outside' = IF v \in Seated THEN outside ELSE outside \cup {v}
      /\ End(t) /\ UNCHANGED <<event, filled>>
    BY DEF CheckIn
<1> HIDE DEF v
<1>4. rsvp' = [rsvp EXCEPT ![v] = [@ EXCEPT !.status = "checked_in", !.noShow = FALSE]]
    BY <1>1, <1>2, <1>3
<1>5. /\ rsvp'[v] \in Rsvps /\ rsvp'[v].status = "checked_in" /\ rsvp'[v].noShow = FALSE
      /\ \A w \in Volunteers \ {v} : rsvp'[w] = rsvp[w]
      /\ rsvp' \in [Volunteers -> Rsvps]
    BY <1>1, <1>2, <1>4 DEF Rsvps, Statuses
<1>6. AttendanceWrite(t, v)
    BY <1>3, <1>5 DEF AttendanceWrite, SeatTaking
<1>7. /\ outside' \subseteq Volunteers /\ outside \subseteq outside'
      /\ Seated' \ Seated \subseteq outside'
    BY <1>1, <1>2, <1>3, <1>5 DEF Seated, TypeOK
<1> QED
    BY <1>1, <1>2, <1>3, <1>6, <1>7, CountersKept, AttendanceStep

\* A cancellation or a completion keeps the capacity and everybody's seat.
LEMMA ChangeStatusKeeps ==
    ASSUME IInv, NEW t \in Sessions, NEW s \in EventStatuses, EventFree, End(t),
           event' = [event EXCEPT !.status = s], UNCHANGED <<rsvp, filled, outside>>
    PROVE  IInv'
<1>1. TypeOK /\ RowsSound /\ event \in Events
    BY DEF IInv, TypeOK
<1>2. event' \in Events /\ event'.capacity = event.capacity
    BY <1>1 DEF Events
<1>3. event.capacity \in Nat
    BY <1>1, CapacitiesAreNat DEF Events
<1>4. Limited(event') => Limited(event) /\ event.capacity <= event'.capacity
    BY <1>2, <1>3 DEF Limited
<1>5. Inside' \subseteq Inside
    BY DEF Inside, Seated
<1>6. CapacityRespected'
    BY <1>2, <1>4, <1>5, NoSeatTaken
<1>7. NoRowNoRole' /\ HostVerifiedAttended'
    BY <1>1 DEF RowsSound, NoRowNoRole, HostVerifiedAttended
<1>8. ASSUME NEW u \in Sessions \ {t} PROVE Leaves(u)
    BY NobodyHoldsEvent DEF Leaves
<1> QED
    BY <1>1, <1>2, <1>6, <1>7, <1>8, EndStep DEF RowsSound, TypeOK

LEMMA ContinueKeeps ==
    ASSUME IInv, NEW t \in Sessions, Continue(t)
    PROVE  IInv'
<1>1. CASE Decline(t) \/ OrgDecline(t)
    <2>1. HoldsEvent(t) /\ tx[t].step = "write" /\ WriteDeclined(t, tx[t].v)
        BY <1>1 DEF Decline, OrgDecline, At, HoldsEvent, SignupOps
    <2> QED
        BY <2>1, WriteDeclinedKeeps
<1>2. CASE Refuse(t) \/ RefuseAttendance(t) \/ DeadlockVictim(t)
    BY <1>2, RollbackKeeps DEF Refuse, RefuseAttendance, DeadlockVictim
<1>3. CASE Cancel(t)
    <2>1. "cancelled" \in EventStatuses
        BY DEF EventStatuses
    <2> QED
        BY <1>3, <2>1, ChangeStatusKeeps DEF Cancel
<1>4. CASE Complete(t)
    <2>1. "completed" \in EventStatuses
        BY DEF EventStatuses
    <2> QED
        BY <1>4, <2>1, ChangeStatusKeeps DEF Complete
<1> QED
    BY <1>1, <1>2, <1>3, <1>4, LockRolesKeeps, LockRsvpKeeps, AcceptKeeps, ApproveKeeps,
       VerifyKeeps, MarkNoShowKeeps, CheckInKeeps, ToClaimKeeps, ClaimKeeps DEF Continue

-----------------------------------------------------------------------------
(***************************************************************************)
(* The invariants.                                                         *)
(***************************************************************************)

LEMMA NextKeeps == IInv /\ [Next]_vars => IInv'
<1> SUFFICES ASSUME IInv, [Next]_vars PROVE IInv'
    OBVIOUS
<1>1. CASE Request
    BY <1>1, RequestKeeps
<1>2. ASSUME NEW t \in Sessions, Arrival(t) \/ Continue(t) \/ Rollback(t)
      PROVE  IInv'
    BY <1>2, ArrivalKeeps, ContinueKeeps, RollbackKeeps
<1>3. CASE UNCHANGED vars
    BY <1>3 DEF vars, IInv, TypeOK, OneEventHolder, OneRsvpHolder, Relies, RowsSound,
          NoRowNoRole, HostVerifiedAttended, CapacityRespected, HoldsEvent, HoldsRsvp,
          At, Seated, Inside
<1> QED
    BY <1>1, <1>2, <1>3 DEF Next

\* In every reachable state one transaction holds the event and one each RSVP,
\* and what they have read under their locks is still so.
THEOREM Invariance == Spec => []IInv
BY InitKeeps, NextKeeps, PTL DEF Spec

\* The variables keep their types, through every step of every handler.
THEOREM TypeCorrect == Spec => []TypeOK
<1>1. IInv => TypeOK
    BY DEF IInv
<1> QED
    BY <1>1, Invariance, PTL

\* orgPortalApi's approve never oversells an event, with any number of
\* sessions, volunteers and seats: nobody is seated past the capacity but those
\* seated by an administrator, by a late check-in or before a cut.
THEOREM NoOversoldEvent == Spec => []CapacityRespected
<1>1. IInv => CapacityRespected
    BY DEF IInv, RowsSound
<1> QED
    BY <1>1, Invariance, PTL

\* A host's verification and a host's no-show exclude each other, whichever of
\* verifyEventRsvp and markEventNoShow comes first.
THEOREM VerifiedAttended == Spec => []HostVerifiedAttended
<1>1. IInv => HostVerifiedAttended
    BY DEF IInv, RowsSound
<1> QED
    BY <1>1, Invariance, PTL

-----------------------------------------------------------------------------
(***************************************************************************)
(* What a step may never do.                                               *)
(***************************************************************************)

\* A sign-up transaction declines v.
Declining(t, v) ==
    /\ HoldsEvent(t) /\ tx[t].step = "write" /\ tx[t].v = v
    /\ WriteDeclined(t, v)

\* The ways the status of v's RSVP can move in one step.
StatusMove(v) ==
    \/ rsvp'[v].status = rsvp[v].status
    \/ rsvp'[v].status = "declined" /\ \E t \in Sessions : Declining(t, v)
    \/ rsvp'[v].status = "checked_in"
    \/ rsvp[v].status = "checked_in" /\ rsvp'[v].status = "accepted" /\ rsvp'[v].noShow
    \/ /\ rsvp[v].status \notin SeatTaking
       /\ event.status # "cancelled"
       /\ \/ rsvp'[v].status \in {"pending", "accepted"}
          \/ /\ rsvp'[v].status = "waitlisted"
             /\ Limited(event) /\ Cardinality(Seated) >= event.capacity

\* A step that writes the RSVP of v alone.
WritesOnly(v) == \A w \in Volunteers \ {v} : rsvp'[w] = rsvp[w]

LEMMA AcceptMoves ==
    ASSUME IInv, NEW t \in Sessions, Accept(t), NEW w \in Volunteers
    PROVE  StatusMove(w)
<1> DEFINE v == tx[t].v
           s == AcceptedStatus(tx[t].role, tx[t].seats)
<1>1. /\ event.status # "cancelled"
      /\ \/ rsvp' = rsvp
         \/ /\ rsvp[v].status \notin SeatTaking
            /\ rsvp' = [rsvp EXCEPT ![v].status = s, ![v].role = tx[t].role]
    BY AcceptWrites
<1>2. /\ v \in Volunteers /\ tx[t].seats <= Cardinality(Seated) /\ tx[t].seats \in Nat
    BY AcceptWrites, AtWrite
<1>3. s = "pending" \/ (s = "waitlisted" /\ Limited(event) /\ tx[t].seats >= event.capacity)
    BY DEF AcceptedStatus
<1>4. event.capacity \in Nat /\ rsvp \in [Volunteers -> Rsvps]
    BY CapacitiesAreNat DEF IInv, TypeOK, Events
<1>5. s = "pending"
      \/ (s = "waitlisted" /\ Limited(event) /\ Cardinality(Seated) >= event.capacity)
    BY <1>2, <1>3, <1>4, SeatsAreCounted
<1> HIDE DEF v, s
<1>6. CASE rsvp' = rsvp
    BY <1>6 DEF StatusMove
<1>7. CASE rsvp' = [rsvp EXCEPT ![v].status = s, ![v].role = tx[t].role]
           /\ rsvp[v].status \notin SeatTaking
    <2>1. rsvp' = [rsvp EXCEPT ![v] = [@ EXCEPT !.status = s, !.role = tx[t].role]]
        BY <1>2, <1>4, <1>7
    <2>2. rsvp'[v].status = s /\ (w # v => rsvp'[w] = rsvp[w])
        BY <1>2, <1>4, <2>1 DEF Rsvps
    <2> QED
        BY <1>1, <1>5, <1>7, <2>2 DEF StatusMove
<1> QED
    BY <1>1, <1>6, <1>7

LEMMA DeclineMoves ==
    ASSUME IInv, NEW t \in Sessions, NEW v \in Volunteers, Declining(t, v),
           NEW w \in Volunteers
    PROVE  StatusMove(w)
<1>1. PICK S \in SUBSET Volunteers :
          Declines(v, S) /\ (event.status = "cancelled" => S = {})
    BY DeclineWrites DEF Declining
<1>2. rsvp[v] \in Rsvps
    BY DEF IInv, TypeOK
<1>3. CASE w = v
    BY <1>1, <1>2, <1>3 DEF StatusMove, Declines, Rsvps
<1>4. CASE w # v
    <2>1. \/ rsvp'[w] = rsvp[w]
          \/ /\ rsvp'[w].status = "pending" /\ rsvp[w].status = "waitlisted"
             /\ event.status # "cancelled"
        BY <1>1, <1>4 DEF Declines
    <2> QED
        BY <2>1 DEF StatusMove, SeatTaking
<1> QED
    BY <1>3, <1>4

LEMMA ApproveMoves ==
    ASSUME IInv, NEW t \in Sessions, Approve(t), NEW w \in Volunteers
    PROVE  StatusMove(w)
<1>1. Relies(t) /\ rsvp \in [Volunteers -> Rsvps]
    BY DEF IInv, TypeOK
<1>2. event.status # "cancelled" /\ tx[t].v \in Volunteers
    BY <1>1 DEF Relies, Approve, At
<1>3. /\ rsvp' = [rsvp EXCEPT ![tx[t].v].status = "accepted"]
      /\ rsvp[tx[t].v].status \notin SeatTaking
    BY DEF Approve
<1>4. w # tx[t].v => rsvp'[w] = rsvp[w]
    BY <1>1, <1>3
<1>5. rsvp'[tx[t].v].status = "accepted"
    BY <1>1, <1>2, <1>3 DEF Rsvps
<1> QED
    BY <1>2, <1>3, <1>4, <1>5 DEF StatusMove

\* What the attendance steps write.
LEMMA AttendanceWrites ==
    ASSUME IInv, NEW t \in Sessions,
           (\E decision \in {"verified", "rejected"} : Verify(t, decision))
           \/ Claim(t) \/ MarkNoShow(t) \/ CheckIn(t)
    PROVE  /\ tx[t].v \in Volunteers /\ tx'[t] = Idle
           /\ WritesOnly(tx[t].v)
           /\ rsvp'[tx[t].v].role = rsvp[tx[t].v].role
           /\ \/ /\ rsvp'[tx[t].v].status = rsvp[tx[t].v].status
                 /\ rsvp'[tx[t].v].noShow = rsvp[tx[t].v].noShow
                 /\ filled' = filled
              \/ CheckIn(t) /\ rsvp'[tx[t].v].status = "checked_in"
                 /\ rsvp'[tx[t].v].noShow = FALSE /\ filled' = filled
              \/ MarkNoShow(t) /\ rsvp[tx[t].v].status \in SeatTaking
                 /\ rsvp'[tx[t].v].status = "accepted" /\ rsvp'[tx[t].v].noShow = TRUE
                 /\ filled' = IF rsvp[tx[t].v].role \in Roles
                              THEN [filled EXCEPT ![rsvp[tx[t].v].role] = Atleast0(@ - 1)]
                              ELSE filled
<1> DEFINE v == tx[t].v
<1>1. Relies(t) /\ rsvp \in [Volunteers -> Rsvps] /\ tx \in [Sessions -> Transactions]
    BY DEF IInv, TypeOK
<1>2. v \in Volunteers
    BY <1>1 DEF Relies, Verify, Claim, MarkNoShow, CheckIn, At
<1>3. rsvp[v] \in Rsvps
    BY <1>1, <1>2
<1>4. CASE \E decision \in {"verified", "rejected"} : Verify(t, decision)
    <2> PICK decision \in {"verified", "rejected"} : Verify(t, decision)
        BY <1>4
    <2>1. rsvp' = [rsvp EXCEPT ![v].verification = decision]
          /\ filled' = filled /\ tx' = [tx EXCEPT ![t] = Idle]
        BY DEF Verify, End
    <2> HIDE DEF v
    <2>2. /\ tx'[t] = Idle /\ WritesOnly(v)
          /\ rsvp'[v] = [rsvp[v] EXCEPT !.verification = decision]
        BY <1>1, <1>2, <2>1 DEF WritesOnly
    <2>3. /\ rsvp'[v].role = rsvp[v].role /\ rsvp'[v].status = rsvp[v].status
          /\ rsvp'[v].noShow = rsvp[v].noShow
        BY <1>3, <2>2 DEF Rsvps
    <2> QED
        BY <1>2, <2>1, <2>2, <2>3 DEF v
<1>5. CASE Claim(t)
    <2>1. /\ rsvp' = [rsvp EXCEPT ![v].verification =
                          IF tx[t].op = "portal_verify" THEN "portal"
                          ELSE IF AlreadyVerified(rsvp[v]) THEN @ ELSE "verified"]
          /\ filled' = filled /\ tx' = [tx EXCEPT ![t] = Idle]
        BY <1>5 DEF Claim, End
    <2> HIDE DEF v
    <2>2. /\ tx'[t] = Idle /\ WritesOnly(v)
          /\ rsvp'[v] = [rsvp[v] EXCEPT !.verification =
                          IF tx[t].op = "portal_verify" THEN "portal"
                          ELSE IF AlreadyVerified(rsvp[v]) THEN @ ELSE "verified"]
        BY <1>1, <1>2, <2>1 DEF WritesOnly
    <2>3. /\ rsvp'[v].role = rsvp[v].role /\ rsvp'[v].status = rsvp[v].status
          /\ rsvp'[v].noShow = rsvp[v].noShow
        BY <1>3, <2>2 DEF Rsvps
    <2> QED
        BY <1>2, <2>1, <2>2, <2>3 DEF v
<1>6. CASE MarkNoShow(t)
    <2>1. /\ rsvp' = [rsvp EXCEPT ![v].noShow = TRUE, ![v].status = "accepted",
                                  ![v].verification = "pending"]
          /\ rsvp[v].status \in SeatTaking
          /\ filled' = IF rsvp[v].role \in Roles
                       THEN [filled EXCEPT ![rsvp[v].role] = Atleast0(@ - 1)] ELSE filled
          /\ tx' = [tx EXCEPT ![t] = Idle]
        BY <1>6 DEF MarkNoShow, MayBeNoShow, End
    <2> HIDE DEF v
    <2>2. /\ tx'[t] = Idle /\ WritesOnly(v)
          /\ rsvp' = [rsvp EXCEPT ![v] = [@ EXCEPT !.noShow = TRUE, !.status = "accepted",
                                                   !.verification = "pending"]]
        BY <1>1, <1>2, <2>1 DEF WritesOnly
    <2>3. /\ rsvp'[v].role = rsvp[v].role /\ rsvp'[v].status = "accepted"
          /\ rsvp'[v].noShow = TRUE
        BY <1>1, <1>2, <1>3, <2>2 DEF Rsvps
    <2> QED
        BY <1>2, <1>6, <2>1, <2>2, <2>3 DEF v
<1>7. CASE CheckIn(t)
    <2>1. /\ rsvp' = [rsvp EXCEPT ![v].status = "checked_in", ![v].noShow = FALSE]
          /\ filled' = filled /\ tx' = [tx EXCEPT ![t] = Idle]
        BY <1>7 DEF CheckIn, End
    <2> HIDE DEF v
    <2>2. /\ tx'[t] = Idle /\ WritesOnly(v)
          /\ rsvp' = [rsvp EXCEPT ![v] = [@ EXCEPT !.status = "checked_in",
                                                   !.noShow = FALSE]]
        BY <1>1, <1>2, <2>1 DEF WritesOnly
    <2>3. /\ rsvp'[v].role = rsvp[v].role /\ rsvp'[v].status = "checked_in"
          /\ rsvp'[v].noShow = FALSE
        BY <1>1, <1>2, <1>3, <2>2 DEF Rsvps
    <2> QED
        BY <1>2, <1>7, <2>1, <2>2, <2>3 DEF v
<1> QED
    BY <1>4, <1>5, <1>6, <1>7

LEMMA AttendanceMoves ==
    ASSUME IInv, NEW t \in Sessions,
           (\E decision \in {"verified", "rejected"} : Verify(t, decision))
           \/ Claim(t) \/ MarkNoShow(t) \/ CheckIn(t),
           NEW w \in Volunteers
    PROVE  StatusMove(w)
<1>1. CASE w = tx[t].v
    BY <1>1, AttendanceWrites DEF StatusMove, SeatTaking
<1>2. CASE w # tx[t].v
    BY <1>2, AttendanceWrites DEF StatusMove, WritesOnly
<1> QED
    BY <1>1, <1>2

\* What the requests of one step write: one row that was not there, or the
\* promotion of people from the waitlist of an event that is on.
LEMMA RequestWrites ==
    ASSUME IInv, Request
    PROVE  /\ UNCHANGED <<filled, tx>>
           /\ \/ rsvp' = rsvp
              \/ event.status # "cancelled" /\
                 \A w \in Volunteers :
                    \/ rsvp'[w] = rsvp[w]
                    \/ /\ rsvp[w].status = "none" /\ rsvp'[w].status = "accepted"
                       /\ rsvp'[w].role = rsvp[w].role
                    \/ /\ rsvp[w].status = "waitlisted" /\ rsvp'[w].status = "pending"
                       /\ rsvp'[w].role = rsvp[w].role
                       /\ rsvp'[w].noShow = rsvp[w].noShow
<1>1. rsvp \in [Volunteers -> Rsvps] /\ event \in Events
    BY DEF IInv, TypeOK
<1>2. ASSUME NEW v \in Volunteers, AdminSignup(v), NEW w \in Volunteers
      PROVE  \/ rsvp'[w] = rsvp[w]
             \/ /\ rsvp[w].status = "none" /\ rsvp'[w].status = "accepted"
                /\ rsvp'[w].role = rsvp[w].role
    <2>1. rsvp' = [rsvp EXCEPT ![v].status = "accepted"] /\ rsvp[v].status = "none"
        BY <1>2 DEF AdminSignup
    <2>2. w # v => rsvp'[w] = rsvp[w]
        BY <1>1, <2>1
    <2>3. rsvp'[v].status = "accepted" /\ rsvp'[v].role = rsvp[v].role
        BY <1>1, <2>1 DEF Rsvps
    <2> QED
        BY <2>1, <2>2, <2>3
<1>3. ASSUME NEW c \in Capacities, NEW b \in BOOLEAN, UpdateEvent(c, b),
             NEW w \in Volunteers
      PROVE  \/ rsvp'[w] = rsvp[w]
             \/ /\ rsvp[w].status = "waitlisted" /\ rsvp'[w].status = "pending"
                /\ rsvp'[w].role = rsvp[w].role
                /\ rsvp'[w].noShow = rsvp[w].noShow
    <2>1. PICK S \in Promotions(Sessions, event', rsvp) : rsvp' = Promoted(rsvp, S)
        BY <1>3 DEF UpdateEvent
    <2>2. event' = [event EXCEPT !.capacity = c, !.waitlist = b]
        BY <1>3 DEF UpdateEvent
    <2>3. event' \in Events
        BY <1>1, <2>2 DEF Events
    <2>4. S \subseteq UnlockedIn(Sessions, rsvp)
        BY <1>1, <2>3, PromotionTakesWaiting
    <2>5. S \in SUBSET WaitingIn(rsvp)
        BY <2>4 DEF UnlockedIn
    <2>6. /\ w \notin S => rsvp'[w] = rsvp[w]
          /\ w \in S => rsvp'[w].status = "pending" /\ rsvp[w].status = "waitlisted"
          /\ rsvp'[w].role = rsvp[w].role
          /\ rsvp'[w].noShow = rsvp[w].noShow
        BY <1>1, <2>1, <2>5, PromotedRows
    <2> QED
        BY <2>6
<1>4. CASE \E v \in Volunteers : AdminSignup(v)
    BY <1>2, <1>4 DEF AdminSignup
<1>5. CASE \E c \in Capacities, b \in BOOLEAN : UpdateEvent(c, b)
    BY <1>3, <1>5 DEF UpdateEvent
<1>6. CASE \E c \in Capacities, s \in EventStatuses : AdminPatchEvent(c, s)
    BY <1>6 DEF AdminPatchEvent
<1> QED
    BY <1>4, <1>5, <1>6 DEF Request

\* The steps that write no RSVP and no counter.
Quiet == UNCHANGED <<rsvp, filled>>

Attends(t) ==
    \/ \E decision \in {"verified", "rejected"} : Verify(t, decision)
    \/ Claim(t) \/ MarkNoShow(t) \/ CheckIn(t)

\* Every step is quiet or one of the writes above.
LEMMA StepsThatWrite ==
    ASSUME [Next]_vars
    PROVE  \/ Quiet
           \/ Request
           \/ \E t \in Sessions :
                 \/ Accept(t) \/ Approve(t) \/ Attends(t)
                 \/ Declining(t, tx[t].v)
<1>1. CASE UNCHANGED vars
    BY <1>1 DEF vars, Quiet
<1>2. ASSUME NEW t \in Sessions, Arrival(t) \/ Rollback(t)
      PROVE  Quiet
    BY <1>2 DEF Arrival, Rollback, Quiet, ReadEvent, BeginAccept, BeginDecline,
          BeginApprove, BeginOrgDecline, BeginSignup, BeginAttendance, ReadCheckIn,
          ReadPortalVerify
<1>3. ASSUME NEW t \in Sessions, Continue(t)
      PROVE  Quiet \/ Accept(t) \/ Approve(t) \/ Attends(t) \/ Declining(t, tx[t].v)
    <2>1. CASE Decline(t) \/ OrgDecline(t)
        BY <2>1 DEF Decline, OrgDecline, Declining, At, HoldsEvent, SignupOps
    <2>2. CASE \/ LockRoles(t) \/ LockRsvp(t) \/ Refuse(t) \/ RefuseAttendance(t)
               \/ StartClaim(t) \/ PortalUpdate(t) \/ Cancel(t) \/ Complete(t)
               \/ DeadlockVictim(t)
        BY <2>2 DEF LockRoles, LockRsvp, Refuse, RefuseAttendance, StartClaim,
              PortalUpdate, Cancel, Complete, DeadlockVictim, Rollback, Quiet
    <2> QED
        BY <1>3, <2>1, <2>2 DEF Continue, Attends
<1> QED
    BY <1>1, <1>2, <1>3 DEF Next

\* The status of an RSVP moves in the ways named above and in no other.
LEMMA StatusesMove ==
    ASSUME IInv, [Next]_vars, NEW w \in Volunteers
    PROVE  StatusMove(w)
<1>1. CASE Quiet
    BY <1>1 DEF Quiet, StatusMove
<1>2. CASE Request
    BY <1>2, RequestWrites DEF StatusMove, SeatTaking
<1>3. ASSUME NEW t \in Sessions, Declining(t, tx[t].v)
      PROVE  StatusMove(w)
    <2>1. tx[t].v \in Volunteers
        BY <1>3, AtWrite DEF Declining
    <2> QED
        BY <1>3, <2>1, DeclineMoves
<1>4. ASSUME NEW t \in Sessions, Accept(t) \/ Approve(t) \/ Attends(t)
      PROVE  StatusMove(w)
    BY <1>4, AcceptMoves, ApproveMoves, AttendanceMoves DEF Attends
<1> QED
    BY <1>1, <1>2, <1>3, <1>4, StepsThatWrite

\* An acceptance puts nobody on the waitlist while a seat is free, although it
\* counted the seats in an earlier statement: the event's lock keeps those who
\* are seated in their seats.
THEOREM WaitlistJoinedOnlyWhenFull == Spec => WaitlistedOnlyWhenFull
<1>1. IInv /\ [Next]_vars =>
          \A v \in Volunteers :
              rsvp[v].status # "waitlisted" /\ rsvp'[v].status = "waitlisted" =>
                  Limited(event) /\ Cardinality(Seated) >= event.capacity
    BY StatusesMove DEF StatusMove, SeatTaking
<1> QED
    BY <1>1, Invariance, PTL DEF Spec, WaitlistedOnlyWhenFull

\* A cancellation that commits leaves no sign-up behind it: no transaction that
\* read the event as published still writes one.
THEOREM CancelledStaysClosed == Spec => CancelledTakesNoSignups
<1>1. IInv /\ [Next]_vars =>
          (event.status = "cancelled" =>
              \A v \in Volunteers :
                  \/ rsvp'[v].status \in {rsvp[v].status, "declined", "checked_in"}
                  \/ rsvp[v].status = "checked_in" /\ rsvp'[v].noShow)
    BY StatusesMove DEF StatusMove
<1> QED
    BY <1>1, Invariance, PTL DEF Spec, CancelledTakesNoSignups

\* Whoever gives a seat up, in an event that is on, the same transaction offers
\* it to the waitlist, unless all who wait are locked or the event is full.
THEOREM SeatsAreOffered == Spec => ReleasedSeatIsOffered
<1> DEFINE Offered ==
        (\E v \in Volunteers : v \in Seated /\ v \notin Seated')
        /\ event.status # "cancelled" =>
        LET left == {v \in Waitlisted' : RsvpFree(v)}
            promoted == Cardinality(Waitlisted \ Waitlisted')
        IN \/ left = {}
           \/ Limited(event) /\ Cardinality(Seated') + promoted >= event.capacity
<1>1. ASSUME IInv, [Next]_vars PROVE Offered
    <2> SUFFICES ASSUME NEW v \in Volunteers, v \in Seated, v \notin Seated',
                        event.status # "cancelled"
                 PROVE  \/ {w \in Waitlisted' : RsvpFree(w)} = {}
                        \/ Limited(event) /\ Cardinality(Seated')
                              + Cardinality(Waitlisted \ Waitlisted') >= event.capacity
        OBVIOUS
    <2>1. StatusMove(v)
        BY <1>1, StatusesMove
    <2>2. PICK t \in Sessions : Declining(t, v)
        BY <2>1 DEF StatusMove, Seated, SeatTaking
    <2>3. PICK S \in SUBSET Volunteers :
              /\ Declines(v, S) /\ v \notin S
              /\ v \notin Seated \/ event.status = "cancelled"
                 \/ (\A w \in Waitlisted : RsvpFree(w) => w \in S)
                 \/ (Limited(event) /\ Cardinality(Seated') + Cardinality(S) >= event.capacity)
        BY <1>1, <2>2, DeclineWrites DEF Declining
    <2>4. v \notin Waitlisted /\ S \subseteq Waitlisted
        BY <2>3 DEF Declines, Seated, Waitlisted, SeatTaking
    <2>5. Waitlisted' = (Waitlisted \ {v}) \ S
        BY <2>3 DEF Declines
    <2>6. Waitlisted' = Waitlisted \ S /\ Waitlisted \ Waitlisted' = S
        BY <2>4, <2>5
    <2> QED
        BY <2>3, <2>6
<1> QED
    BY <1>1, Invariance, PTL DEF Spec, ReleasedSeatIsOffered

-----------------------------------------------------------------------------
(***************************************************************************)
(* The counters of the roles.                                              *)
(***************************************************************************)

\* x is a sign-up that counts for role r.
In(r, x) == x.role = r /\ CountsForRole(x)

\* A counter that is not too low and follows the sign-up of v, while the others
\* stay as they are, drifts in neither direction.
LEMMA CounterFollowsOne ==
    ASSUME TypeOK, NEW r \in Roles, NEW v \in Volunteers, Surplus(r) >= 0,
           \A w \in Volunteers \ {v} : In(r, rsvp'[w]) <=> In(r, rsvp[w]),
           (In(r, rsvp[v]) <=> In(r, rsvp'[v])) => filled'[r] = filled[r],
           In(r, rsvp[v]) /\ ~In(r, rsvp'[v]) => filled'[r] = Atleast0(filled[r] - 1),
           ~In(r, rsvp[v]) /\ In(r, rsvp'[v]) => filled'[r] = filled[r] + 1
    PROVE  Surplus(r)' = Surplus(r)
<1>1. Signups(r) \in SUBSET Volunteers
    BY DEF Signups
<1>2. /\ Cardinality(Signups(r)) \in Nat
      /\ Cardinality(Signups(r) \cup {v}) = IF v \in Signups(r)
             THEN Cardinality(Signups(r)) ELSE Cardinality(Signups(r)) + 1
      /\ Cardinality(Signups(r) \ {v}) = IF v \in Signups(r)
             THEN Cardinality(Signups(r)) - 1 ELSE Cardinality(Signups(r))
    BY <1>1, OneMorePerson
<1>3. filled[r] \in Nat /\ filled[r] >= Cardinality(Signups(r))
    <2>1. filled[r] \in Nat
        BY MaxFilledNat DEF TypeOK
    <2> QED
        BY <1>2, <2>1 DEF Surplus
<1>4. /\ Signups(r) = {w \in Volunteers : In(r, rsvp[w])}
      /\ Signups(r)' = {w \in Volunteers : In(r, rsvp'[w])}
    BY DEF Signups, In
<1>5. CASE In(r, rsvp[v]) <=> In(r, rsvp'[v])
    <2>1. Signups(r)' = Signups(r)
        BY <1>4, <1>5
    <2> QED
        BY <1>5, <2>1 DEF Surplus
<1>6. CASE In(r, rsvp[v]) /\ ~In(r, rsvp'[v])
    <2>1. Signups(r)' = Signups(r) \ {v} /\ v \in Signups(r)
        BY <1>4, <1>6
    <2>2. Cardinality(Signups(r))' = Cardinality(Signups(r)) - 1
        BY <1>2, <2>1
    <2>3. Cardinality(Signups(r)) >= 1
        <3>1. IsFiniteSet(Signups(r))
            BY <1>1, PeopleAreCounted
        <3>2. Cardinality(Signups(r)) # 0
            BY <2>1, <3>1, FS_EmptySet
        <3> QED
            BY <1>2, <3>2
    <2>4. filled'[r] = filled[r] - 1
        BY <1>2, <1>3, <1>6, <2>3 DEF Atleast0
    <2> QED
        BY <1>2, <1>3, <2>2, <2>4 DEF Surplus
<1>7. CASE ~In(r, rsvp[v]) /\ In(r, rsvp'[v])
    <2>1. Signups(r)' = Signups(r) \cup {v} /\ v \notin Signups(r)
        BY <1>4, <1>7
    <2>2. Cardinality(Signups(r))' = Cardinality(Signups(r)) + 1
        BY <1>2, <2>1
    <2>3. filled'[r] = filled[r] + 1
        BY <1>7
    <2> QED
        BY <1>2, <1>3, <2>2, <2>3 DEF Surplus
<1> QED
    BY <1>5, <1>6, <1>7

\* What the counters' theorem says of one role.
Follows(r) ==
    \/ Surplus(r)' = Surplus(r)
    \/ Surplus(r) < 0
    \/ \E v \in Volunteers : Unfollowed(v)

\* It is enough to look at a counter that is not too low and at steps that are
\* known to be followed.
LEMMA EnoughToFollow ==
    ASSUME TypeOK, NEW r \in Roles,
           Surplus(r) >= 0 /\ (\A v \in Volunteers : ~Unfollowed(v)) =>
               Surplus(r)' = Surplus(r)
    PROVE  Follows(r)
<1>1. Signups(r) \in SUBSET Volunteers
    BY DEF Signups
<1>2. Cardinality(Signups(r)) \in Nat
    BY <1>1, PeopleAreCounted
<1>3. Surplus(r) \in Int
    BY <1>2, MaxFilledNat DEF Surplus, TypeOK
<1> QED
    BY <1>3 DEF Follows

\* An RSVP that stays in a status that counts, or moves between two of them,
\* counts as before.
LEMMA AsBefore ==
    ASSUME NEW r \in Roles, NEW v \in Volunteers,
           rsvp'[v].role = rsvp[v].role, rsvp'[v].noShow = rsvp[v].noShow,
           rsvp'[v].status = rsvp[v].status
           \/ (rsvp[v].status \in Counting /\ rsvp'[v].status \in Counting)
    PROVE  In(r, rsvp'[v]) <=> In(r, rsvp[v])
BY DEF In, CountsForRole

LEMMA AcceptFollows ==
    ASSUME IInv, NEW t \in Sessions, Accept(t), NEW r \in Roles
    PROVE  Follows(r)
<1> DEFINE v == tx[t].v
           q == tx[t].role
           s == AcceptedStatus(q, tx[t].seats)
<1>1. TypeOK /\ rsvp \in [Volunteers -> Rsvps] /\ filled \in [Roles -> 0..MaxFilled]
    BY DEF IInv, TypeOK
<1>2. /\ q \in Roles
      /\ \/ rsvp' = rsvp /\ filled' = filled
         \/ /\ rsvp[v].status \notin SeatTaking
            /\ rsvp' = [rsvp EXCEPT ![v].status = s, ![v].role = q]
            /\ filled' = FilledAfterAccept(rsvp[v], q)
    BY AcceptWrites
<1>3. v \in Volunteers
    BY AcceptWrites, AtWrite
<1>4. s \in {"pending", "waitlisted"}
    BY DEF AcceptedStatus
<1>5. ~Unfollowed(v) => ~rsvp[v].noShow
    <2>1. tx'[t] = Idle
        BY <1>1 DEF Accept, End, TypeOK
    <2> QED
        BY <2>1 DEF Unfollowed
<1> HIDE DEF v, q, s
<1>6. CASE rsvp' = rsvp /\ filled' = filled
    <2>1. Surplus(r)' = Surplus(r)
        BY <1>6 DEF Surplus, Signups
    <2> QED
        BY <1>1, <2>1, EnoughToFollow
<1>7. CASE /\ rsvp[v].status \notin SeatTaking
           /\ rsvp' = [rsvp EXCEPT ![v].status = s, ![v].role = q]
           /\ filled' = FilledAfterAccept(rsvp[v], q)
    <2> SUFFICES ASSUME Surplus(r) >= 0, \A w \in Volunteers : ~Unfollowed(w)
                 PROVE  Surplus(r)' = Surplus(r)
        BY <1>1, EnoughToFollow
    <2>1. ~rsvp[v].noShow /\ rsvp[v] \in Rsvps
        BY <1>1, <1>3, <1>5
    <2>2. rsvp' = [rsvp EXCEPT ![v] = [@ EXCEPT !.status = s, !.role = q]]
        BY <1>1, <1>3, <1>7
    <2>3. /\ \A w \in Volunteers \ {v} : rsvp'[w] = rsvp[w]
          /\ rsvp'[v].status = s /\ rsvp'[v].role = q
          /\ rsvp'[v].noShow = rsvp[v].noShow
        BY <1>1, <1>3, <2>1, <2>2 DEF Rsvps
    <2>4. In(r, rsvp'[v]) <=> r = q
        BY <1>4, <2>1, <2>3 DEF In, CountsForRole, Counting
    <2> DEFINE counted == CountsForRole(rsvp[v]) /\ rsvp[v].role \in Roles
               released == IF counted /\ rsvp[v].role # q
                           THEN [filled EXCEPT ![rsvp[v].role] = Atleast0(@ - 1)]
                           ELSE filled
    <2>5. filled' = IF counted /\ rsvp[v].role = q THEN filled
                    ELSE [released EXCEPT ![q] = @ + 1]
        BY <1>7 DEF FilledAfterAccept
    <2>6. released[r] = IF In(r, rsvp[v]) /\ r # q THEN Atleast0(filled[r] - 1)
                        ELSE filled[r]
        BY <1>1 DEF In
    <2>7. DOMAIN released = Roles
        BY <1>1
    <2>8. filled'[r] = IF r = q THEN IF In(r, rsvp[v]) THEN filled[r] ELSE filled[r] + 1
                       ELSE IF In(r, rsvp[v]) THEN Atleast0(filled[r] - 1) ELSE filled[r]
        <3> HIDE DEF released
        <3>1. CASE counted /\ rsvp[v].role = q
            BY <2>5, <3>1 DEF In
        <3>2. CASE ~(counted /\ rsvp[v].role = q) /\ r = q
            BY <1>2, <2>5, <2>6, <2>7, <3>2 DEF In
        <3>3. CASE ~(counted /\ rsvp[v].role = q) /\ r # q
            BY <1>2, <2>5, <2>6, <2>7, <3>3
        <3> QED
            BY <3>1, <3>2, <3>3
    <2> HIDE DEF counted, released
    <2>9. \A w \in Volunteers \ {v} : In(r, rsvp'[w]) <=> In(r, rsvp[w])
        BY <2>3
    <2> QED
        BY <1>1, <1>3, <2>4, <2>8, <2>9, CounterFollowsOne
<1> QED
    BY <1>2, <1>6, <1>7

LEMMA DeclineFollows ==
    ASSUME IInv, NEW t \in Sessions, NEW v \in Volunteers, Declining(t, v), NEW r \in Roles
    PROVE  Follows(r)
<1>1. /\ TypeOK /\ rsvp[v] \in Rsvps /\ filled \in [Roles -> 0..MaxFilled]
      /\ tx \in [Sessions -> Transactions]
    BY DEF IInv, TypeOK
<1>2. tx[t].v = v /\ tx'[t] = Idle /\ filled' = FilledAfterLeaving(rsvp[v])
    BY <1>1 DEF Declining, WriteDeclined, End
<1>3. ~Unfollowed(v) => ~rsvp[v].noShow
    BY <1>2 DEF Unfollowed
<1>4. PICK S \in SUBSET Volunteers : Declines(v, S)
    BY DeclineWrites DEF Declining
<1> SUFFICES ASSUME Surplus(r) >= 0, \A w \in Volunteers : ~Unfollowed(w)
             PROVE  Surplus(r)' = Surplus(r)
    BY <1>1, EnoughToFollow
<1>5. ~In(r, rsvp'[v])
    BY <1>1, <1>4 DEF Declines, In, CountsForRole, Counting, Rsvps
<1>6. \A w \in Volunteers \ {v} : In(r, rsvp'[w]) <=> In(r, rsvp[w])
    <2> SUFFICES ASSUME NEW w \in Volunteers \ {v}
                 PROVE  In(r, rsvp'[w]) <=> In(r, rsvp[w])
        OBVIOUS
    <2>1. /\ rsvp'[w].role = rsvp[w].role /\ rsvp'[w].noShow = rsvp[w].noShow
          /\ rsvp'[w].status = rsvp[w].status
             \/ (rsvp[w].status \in Counting /\ rsvp'[w].status \in Counting)
        BY <1>4 DEF Declines, Counting
    <2> QED
        BY <2>1, AsBefore
<1>7. filled'[r] = IF In(r, rsvp[v]) THEN Atleast0(filled[r] - 1) ELSE filled[r]
    BY <1>1, <1>2 DEF FilledAfterLeaving, In
<1> QED
    BY <1>1, <1>5, <1>6, <1>7, CounterFollowsOne

LEMMA ApproveFollows ==
    ASSUME IInv, NEW t \in Sessions, Approve(t), NEW r \in Roles
    PROVE  Follows(r)
<1> DEFINE v == tx[t].v
<1>1. TypeOK /\ rsvp \in [Volunteers -> Rsvps]
    BY DEF IInv, TypeOK
<1>2. v \in Volunteers
    BY AtWrite DEF Approve, At, HoldsEvent, SignupOps
<1>3. /\ rsvp' = [rsvp EXCEPT ![v].status = "accepted"] /\ filled' = filled
      /\ rsvp[v].status \notin SeatTaking \cup {"none"}
    BY DEF Approve
<1> HIDE DEF v
<1> SUFFICES ASSUME Surplus(r) >= 0, \A w \in Volunteers : ~Unfollowed(w)
             PROVE  Surplus(r)' = Surplus(r)
    BY <1>1, EnoughToFollow
<1>4. /\ \A w \in Volunteers \ {v} : rsvp'[w] = rsvp[w]
      /\ rsvp'[v] = [rsvp[v] EXCEPT !.status = "accepted"] /\ rsvp[v] \in Rsvps
    BY <1>1, <1>2, <1>3
<1>5. rsvp[v].status \in {"pending", "waitlisted"} /\ rsvp'[v].status = "accepted"
      /\ rsvp'[v].role = rsvp[v].role /\ rsvp'[v].noShow = rsvp[v].noShow
    BY <1>2, <1>3, <1>4 DEF Unfollowed, Rsvps, Statuses, SeatTaking
<1>6. In(r, rsvp'[v]) <=> In(r, rsvp[v])
    BY <1>2, <1>5, AsBefore DEF Counting
<1>7. \A w \in Volunteers \ {v} : In(r, rsvp'[w]) <=> In(r, rsvp[w])
    BY <1>4
<1> QED
    BY <1>1, <1>2, <1>3, <1>6, <1>7, CounterFollowsOne

LEMMA AttendanceFollows ==
    ASSUME IInv, NEW t \in Sessions, Attends(t), NEW r \in Roles
    PROVE  Follows(r)
<1> DEFINE v == tx[t].v
<1>1. /\ TypeOK /\ NoRowNoRole /\ rsvp \in [Volunteers -> Rsvps]
      /\ filled \in [Roles -> 0..MaxFilled]
    BY DEF IInv, TypeOK, RowsSound
<1>2. /\ v \in Volunteers /\ tx'[t] = Idle /\ WritesOnly(v)
      /\ rsvp'[v].role = rsvp[v].role
      /\ \/ /\ rsvp'[v].status = rsvp[v].status /\ rsvp'[v].noShow = rsvp[v].noShow
            /\ filled' = filled
         \/ /\ rsvp'[v].status = "checked_in" /\ rsvp'[v].noShow = FALSE
            /\ filled' = filled
         \/ /\ rsvp[v].status \in SeatTaking
            /\ rsvp'[v].status = "accepted" /\ rsvp'[v].noShow = TRUE
            /\ filled' = IF rsvp[v].role \in Roles
                         THEN [filled EXCEPT ![rsvp[v].role] = Atleast0(@ - 1)]
                         ELSE filled
    BY AttendanceWrites DEF Attends
<1>3. ~Unfollowed(v) => ~rsvp[v].noShow
    BY <1>2 DEF Unfollowed
<1> HIDE DEF v
<1> SUFFICES ASSUME Surplus(r) >= 0, \A w \in Volunteers : ~Unfollowed(w)
             PROVE  Surplus(r)' = Surplus(r)
    BY <1>1, EnoughToFollow
<1>4. \A w \in Volunteers \ {v} : In(r, rsvp'[w]) <=> In(r, rsvp[w])
    BY <1>2 DEF WritesOnly
<1>5. rsvp[v].noShow = FALSE /\ rsvp[v] \in Rsvps
    BY <1>1, <1>2, <1>3 DEF Rsvps
<1>6. CASE /\ rsvp'[v].status = rsvp[v].status /\ rsvp'[v].noShow = rsvp[v].noShow
           /\ filled' = filled
    <2>1. In(r, rsvp'[v]) <=> In(r, rsvp[v])
        BY <1>2, <1>6, AsBefore
    <2> QED
        BY <1>1, <1>2, <1>4, <1>6, <2>1, CounterFollowsOne
<1>7. CASE /\ rsvp'[v].status = "checked_in" /\ rsvp'[v].noShow = FALSE
           /\ filled' = filled
    <2>1. rsvp[v].status # "declined"
        BY <1>2, <1>7 DEF Unfollowed, SeatTaking
    <2>2. rsvp[v].status = "none" => rsvp[v].role # r
        BY <1>1, <1>2, NotARole DEF NoRowNoRole
    <2>3. In(r, rsvp'[v]) <=> In(r, rsvp[v])
        BY <1>2, <1>5, <1>7, <2>1, <2>2 DEF In, CountsForRole, Counting, Rsvps, Statuses
    <2> QED
        BY <1>1, <1>2, <1>4, <1>7, <2>3, CounterFollowsOne
<1>8. CASE /\ rsvp[v].status \in SeatTaking
           /\ rsvp'[v].status = "accepted" /\ rsvp'[v].noShow = TRUE
           /\ filled' = IF rsvp[v].role \in Roles
                        THEN [filled EXCEPT ![rsvp[v].role] = Atleast0(@ - 1)]
                        ELSE filled
    <2>1. ~In(r, rsvp'[v])
        BY <1>8 DEF In, CountsForRole
    <2>2. In(r, rsvp[v]) <=> rsvp[v].role = r
        BY <1>5, <1>8 DEF In, CountsForRole, Counting, SeatTaking
    <2>3. filled'[r] = IF rsvp[v].role = r THEN Atleast0(filled[r] - 1) ELSE filled[r]
        BY <1>1, <1>8
    <2> QED
        BY <1>1, <1>2, <1>4, <2>1, <2>2, <2>3, CounterFollowsOne
<1> QED
    BY <1>2, <1>6, <1>7, <1>8

LEMMA RequestFollows ==
    ASSUME IInv, Request, NEW r \in Roles
    PROVE  Follows(r)
<1>1. TypeOK /\ NoRowNoRole /\ filled' = filled
    BY RequestWrites DEF IInv, RowsSound
<1>2. ASSUME NEW w \in Volunteers
      PROVE  In(r, rsvp'[w]) <=> In(r, rsvp[w])
    <2>1. CASE rsvp'[w] = rsvp[w]
        BY <2>1
    <2>2. CASE /\ rsvp[w].status = "none" /\ rsvp'[w].status = "accepted"
               /\ rsvp'[w].role = rsvp[w].role
        BY <1>1, <2>2, NotARole DEF NoRowNoRole, In
    <2>3. CASE /\ rsvp[w].status = "waitlisted" /\ rsvp'[w].status = "pending"
               /\ rsvp'[w].role = rsvp[w].role
               /\ rsvp'[w].noShow = rsvp[w].noShow
        BY <2>3, AsBefore DEF Counting
    <2> QED
        BY <2>1, <2>2, <2>3, RequestWrites
<1>3. Signups(r)' = Signups(r)
    <2>1. /\ Signups(r) = {w \in Volunteers : In(r, rsvp[w])}
          /\ Signups(r)' = {w \in Volunteers : In(r, rsvp'[w])}
        BY DEF Signups, In
    <2> QED
        BY <1>2, <2>1
<1>4. Surplus(r)' = Surplus(r)
    BY <1>1, <1>3 DEF Surplus
<1> QED
    BY <1>4 DEF Follows

\* spots_filled follows the sign-ups of its role through every handler, except
\* in the steps that Unfollowed names: those on an RSVP marked as a no-show and
\* those that seat a declined one.
THEOREM RoleCountersFollow == Spec => RoleCounterFollowsSignups
<1>1. ASSUME IInv, [Next]_vars, NEW r \in Roles PROVE Follows(r)
    <2>1. CASE Quiet
        <3>1. Surplus(r)' = Surplus(r)
            BY <2>1 DEF Quiet, Surplus, Signups
        <3> QED
            BY <3>1 DEF Follows
    <2>2. CASE Request
        BY <1>1, <2>2, RequestFollows
    <2>3. ASSUME NEW t \in Sessions, Declining(t, tx[t].v) PROVE Follows(r)
        <3>1. tx[t].v \in Volunteers
            BY <1>1, <2>3, AtWrite DEF Declining
        <3> QED
            BY <1>1, <2>3, <3>1, DeclineFollows
    <2>4. ASSUME NEW t \in Sessions, Accept(t) \/ Approve(t) \/ Attends(t) PROVE Follows(r)
        BY <1>1, <2>4, AcceptFollows, ApproveFollows, AttendanceFollows
    <2> QED
        BY <1>1, <2>1, <2>2, <2>3, <2>4, StepsThatWrite
<1>2. IInv /\ [Next]_vars =>
          \A r \in Roles :
              \/ Surplus(r)' = Surplus(r)
              \/ Surplus(r) < 0
              \/ \E v \in Volunteers : Unfollowed(v)
    BY <1>1 DEF Follows
<1> QED
    BY <1>2, Invariance, PTL DEF Spec, RoleCounterFollowsSignups

-----------------------------------------------------------------------------
(***************************************************************************)
(* Nobody waits in a circle of more than two.                              *)
(***************************************************************************)

\* Whoever holds the event can go on, or one who holds the RSVP that it waits
\* for can: nobody else holds what that one asks for.
LEMMA SignupGoesOn ==
    ASSUME IInv, NEW t \in Sessions, HoldsEvent(t)
    PROVE  \E u \in Sessions : CanGoOn(u)
<1>1. tx[t] # Idle
    BY DEF HoldsEvent, Idle, SignupOps
<1>2. CASE \A u \in Sessions : ~WaitsFor(t, u)
    BY <1>1, <1>2 DEF CanGoOn
<1>3. CASE \E u \in Sessions : WaitsFor(t, u)
    <2>1. PICK u \in Sessions : WaitsFor(t, u)
        BY <1>3
    <2>2. tx[t].step # "claim"
        BY DEF IInv, Relies, HoldsEvent, SignupOps
    <2>3. tx[t].op \in SignupOps /\ tx[t].step = "rsvp" /\ HoldsRsvp(u, tx[t].v)
        BY <2>1, <2>2 DEF WaitsFor, WaitsForRsvp, WaitsForSignup, HoldsEvent, At, SignupOps
    <2>4. WaitsForRsvp(t, u)
        BY <2>3 DEF WaitsForRsvp
    <2>5. u # t
        BY <2>3 DEF HoldsRsvp
    <2>6. ~HoldsEvent(u)
        BY <2>5 DEF IInv, OneEventHolder
    <2>7. /\ \/ tx[u].op \in AttendanceOps
             \/ tx[u].op = "portal_verify" /\ tx[u].step = "claim"
          /\ tx[u] # Idle
        BY <2>3, <2>6 DEF HoldsRsvp, HoldsEvent, Idle, AttendanceOps
    <2>8. CASE \A x \in Sessions : ~WaitsFor(u, x)
        BY <2>7, <2>8 DEF CanGoOn
    <2>9. CASE \E x \in Sessions : WaitsFor(u, x)
        <3>1. PICK x \in Sessions : WaitsFor(u, x)
            BY <2>9
        <3>2. WaitsForSignup(u, x)
            BY <2>7, <3>1 DEF WaitsFor, WaitsForRsvp, SignupOps, AttendanceOps
        <3>3. HoldsEvent(x)
            BY <3>2 DEF WaitsForSignup, HoldsRoles, HoldsEvent, SignupOps
        <3>4. x = t
            BY <3>3 DEF IInv, OneEventHolder
        <3>5. WaitCrosswise(t, u)
            BY <2>4, <3>2, <3>4 DEF WaitCrosswise
        <3> QED
            BY <1>1, <3>5 DEF CanGoOn
    <2> QED
        BY <2>8, <2>9
<1> QED
    BY <1>2, <1>3

\* So it is with whoever holds an RSVP.
LEMMA AttendanceGoesOn ==
    ASSUME IInv, NEW t \in Sessions, NEW v, HoldsRsvp(t, v)
    PROVE  \E u \in Sessions : CanGoOn(u)
<1>1. CASE HoldsEvent(t)
    BY <1>1, SignupGoesOn
<1>2. CASE ~HoldsEvent(t)
    <2>1. /\ \/ tx[t].op \in AttendanceOps
             \/ tx[t].op = "portal_verify" /\ tx[t].step = "claim"
          /\ tx[t] # Idle
        BY <1>2 DEF HoldsRsvp, HoldsEvent, Idle, AttendanceOps
    <2>2. CASE \A u \in Sessions : ~WaitsFor(t, u)
        BY <2>1, <2>2 DEF CanGoOn
    <2>3. CASE \E u \in Sessions : WaitsFor(t, u)
        <3>1. PICK u \in Sessions : WaitsFor(t, u)
            BY <2>3
        <3>2. WaitsForSignup(t, u)
            BY <2>1, <3>1 DEF WaitsFor, WaitsForRsvp, SignupOps, AttendanceOps
        <3>3. HoldsEvent(u)
            BY <3>2 DEF WaitsForSignup, HoldsRoles, HoldsEvent, SignupOps
        <3> QED
            BY <3>3, SignupGoesOn
    <2> QED
        BY <2>2, <2>3
<1> QED
    BY <1>1, <1>2

\* However many sign-ups, verifications, check-ins, cancellations and edits meet,
\* one of the open transactions does not wait, or is one of two that wait for
\* each other and that the deadlock detector finds.
THEOREM NobodyStandsStill == Spec => []SomeoneCanGoOn
<1>1. IInv => SomeoneCanGoOn
    <2> SUFFICES ASSUME IInv, NEW t \in Sessions, tx[t] # Idle
                 PROVE  \E u \in Sessions : CanGoOn(u)
        BY DEF SomeoneCanGoOn
    <2>1. CASE \A u \in Sessions : ~WaitsFor(t, u)
        BY <2>1 DEF CanGoOn
    <2>2. ASSUME NEW u \in Sessions, WaitsFor(t, u)
          PROVE  HoldsEvent(u) \/ \E v : HoldsRsvp(u, v)
        BY <2>2 DEF WaitsFor, WaitsForRsvp, WaitsForSignup, HoldsRoles, HoldsEvent, SignupOps
    <2> QED
        BY <2>1, <2>2, SignupGoesOn, AttendanceGoesOn
<1> QED
    BY <1>1, Invariance, PTL

-----------------------------------------------------------------------------
(***************************************************************************)
(* Every statement takes its transaction further.                          *)
(***************************************************************************)

StepPlace == [idle |-> 0, roles |-> 1, rsvp |-> 2, write |-> 3, claim |-> 4]

\* The session's transaction ends, begins or goes on to a later statement.
Advances(t) ==
    \/ tx'[t] = tx[t]
    \/ tx'[t] = Idle
    \/ /\ \/ tx[t] = Idle
          \/ tx'[t].op = tx[t].op /\ tx'[t].v = tx[t].v
       /\ StepPlace[tx[t].step] < StepPlace[tx'[t].step]

LEMMA ArrivalAdvances ==
    ASSUME IInv, NEW t \in Sessions, Arrival(t), NEW u \in Sessions
    PROVE  Advances(u)
<1>1. tx \in [Sessions -> Transactions]
    BY DEF IInv, TypeOK
<1>2. ASSUME NEW op, NEW step \in {"roles", "rsvp", "write"}, NEW v, NEW r,
             Start(t, op, step, v, r)
      PROVE  Advances(u)
    <2>1. CASE u = t
        <3>1. tx[t] = Idle /\ tx[t].step = "idle" /\ tx'[t].step = step
            BY <1>1, <1>2 DEF Start, Idle
        <3>2. StepPlace["idle"] < StepPlace[step]
            BY DEF StepPlace
        <3> QED
            BY <2>1, <3>1, <3>2 DEF Advances
    <2>2. CASE u # t
        BY <1>1, <1>2, <2>2 DEF Start, Advances
    <2> QED
        BY <2>1, <2>2
<1> QED
    BY <1>2 DEF Arrival, ReadEvent, BeginAccept, BeginDecline, BeginApprove, BeginOrgDecline,
       BeginSignup, BeginAttendance, ReadCheckIn, ReadPortalVerify

LEMMA ContinueAdvances ==
    ASSUME IInv, NEW t \in Sessions, Continue(t) \/ Rollback(t), NEW u \in Sessions
    PROVE  Advances(u)
<1>1. tx \in [Sessions -> Transactions]
    BY DEF IInv, TypeOK
<1>2. CASE End(t)
    BY <1>1, <1>2 DEF End, Advances
<1>3. ASSUME NEW x, tx' = [tx EXCEPT ![t] = x],
             x.op = tx[t].op, x.v = tx[t].v,
             StepPlace[tx[t].step] < StepPlace[x.step]
      PROVE  Advances(u)
    BY <1>1, <1>3 DEF Advances
<1>4. CASE LockRoles(t)
    <2> DEFINE x == [tx[t] EXCEPT !.step = "rsvp"]
    <2>1. /\ tx' = [tx EXCEPT ![t] = x] /\ tx[t].step = "roles"
          /\ x.op = tx[t].op /\ x.v = tx[t].v /\ x.step = "rsvp"
        BY <1>1, <1>4 DEF LockRoles, At, Transactions
    <2> HIDE DEF x
    <2>2. StepPlace[tx[t].step] < StepPlace[x.step]
        BY <2>1 DEF StepPlace
    <2> QED
        BY <1>3, <2>1, <2>2
<1>5. CASE LockRsvp(t)
    <2> DEFINE x == [tx[t] EXCEPT !.step = "write", !.seats = Cardinality(Seated)]
    <2>1. /\ tx' = [tx EXCEPT ![t] = x] /\ tx[t].step = "rsvp"
          /\ x.op = tx[t].op /\ x.v = tx[t].v /\ x.step = "write"
        BY <1>1, <1>5 DEF LockRsvp, Transactions
    <2> HIDE DEF x
    <2>2. StepPlace[tx[t].step] < StepPlace[x.step]
        BY <2>1 DEF StepPlace
    <2> QED
        BY <1>3, <2>1, <2>2
<1>6. CASE StartClaim(t) \/ PortalUpdate(t)
    <2> DEFINE x == [tx[t] EXCEPT !.step = "claim"]
    <2>1. /\ tx' = [tx EXCEPT ![t] = x] /\ tx[t].step = "write"
          /\ x.op = tx[t].op /\ x.v = tx[t].v /\ x.step = "claim"
        BY <1>1, <1>6 DEF StartClaim, PortalUpdate, At, Transactions
    <2> HIDE DEF x
    <2>2. StepPlace[tx[t].step] < StepPlace[x.step]
        BY <2>1 DEF StepPlace
    <2> QED
        BY <1>3, <2>1, <2>2
<1> QED
    BY <1>2, <1>4, <1>5, <1>6
    DEF Continue, Accept, Decline, OrgDecline, WriteDeclined, Approve, Refuse, Verify,
        MarkNoShow, RefuseAttendance, CheckIn, Claim, Cancel, Complete, DeadlockVictim,
        Rollback

\* No transaction takes more than four statements: each ends it or is followed
\* by a later one of the same request.
THEOREM StepsAdvance == Spec => [][\A t \in Sessions : Advances(t)]_vars
<1>1. IInv /\ [Next]_vars => [\A t \in Sessions : Advances(t)]_vars
    <2> SUFFICES ASSUME IInv, Next, NEW u \in Sessions PROVE Advances(u)
        OBVIOUS
    <2>1. CASE Request
        BY <2>1 DEF Request, AdminSignup, UpdateEvent, AdminPatchEvent, Advances
    <2> QED
        BY <2>1, ArrivalAdvances, ContinueAdvances DEF Next
<1> QED
    BY <1>1, Invariance, PTL DEF Spec

-----------------------------------------------------------------------------
(***************************************************************************)
(* Whoever does not wait has a statement to run.                           *)
(***************************************************************************)

\* Where a transaction can stand, by what it was begun for.
Fits(t) ==
    \/ tx[t] = Idle
    \/ At(t, "accept", "roles")
    \/ tx[t].op \in SignupOps /\ tx[t].step = "rsvp"
    \/ tx[t].op \in SignupOps \cup AttendanceOps \cup UnlockedOps /\ tx[t].step = "write"
    \/ tx[t].op \in {"verify", "portal_verify"} /\ tx[t].step = "claim"

LEMMA ArrivalFits ==
    ASSUME IInv, NEW t \in Sessions, Arrival(t), NEW u \in Sessions, Fits(u)
    PROVE  Fits(u)'
<1>1. tx \in [Sessions -> Transactions]
    BY DEF IInv, TypeOK
<1>2. ASSUME NEW op, NEW step, NEW v, NEW r, Start(t, op, step, v, r),
             \/ op = "accept" /\ step = "roles"
             \/ op \in SignupOps /\ step = "rsvp"
             \/ op \in AttendanceOps \cup UnlockedOps /\ step = "write"
      PROVE  Fits(u)'
    <2>1. CASE u = t
        <3>1. tx'[u].op = op /\ tx'[u].step = step
            BY <1>1, <1>2, <2>1 DEF Start
        <3> QED
            BY <1>2, <3>1 DEF Fits, At
    <2>2. CASE u # t
        <3>1. tx'[u] = tx[u]
            BY <1>1, <1>2, <2>2 DEF Start
        <3> QED
            BY <3>1 DEF Fits, At
    <2> QED
        BY <2>1, <2>2
<1>3. ASSUME NEW op \in {"cancel", "complete"}, ReadEvent(t, op) PROVE Fits(u)'
    BY <1>2, <1>3 DEF ReadEvent, UnlockedOps
<1>4. ASSUME NEW v \in Volunteers, NEW r \in Roles, BeginAccept(t, v, r) PROVE Fits(u)'
    BY <1>2, <1>4 DEF BeginAccept, BeginSignup
<1>5. ASSUME NEW v \in Volunteers,
             BeginDecline(t, v) \/ BeginApprove(t, v) \/ BeginOrgDecline(t, v)
      PROVE  Fits(u)'
    BY <1>2, <1>5 DEF BeginDecline, BeginApprove, BeginOrgDecline, BeginSignup
<1>6. ASSUME NEW v \in Volunteers, NEW op \in AttendanceOps, BeginAttendance(t, op, v)
      PROVE  Fits(u)'
    BY <1>2, <1>6 DEF BeginAttendance
<1>7. ASSUME NEW v \in Volunteers, ReadCheckIn(t, v) \/ ReadPortalVerify(t, v)
      PROVE  Fits(u)'
    BY <1>2, <1>7 DEF ReadCheckIn, ReadPortalVerify, UnlockedOps
<1> QED
    BY <1>3, <1>4, <1>5, <1>6, <1>7 DEF Arrival

LEMMA ContinueFits ==
    ASSUME IInv, NEW t \in Sessions, Continue(t) \/ Rollback(t), NEW u \in Sessions, Fits(u)
    PROVE  Fits(u)'
<1>1. tx \in [Sessions -> Transactions]
    BY DEF IInv, TypeOK
<1>2. CASE End(t)
    <2>1. tx'[u] = Idle \/ tx'[u] = tx[u]
        BY <1>1, <1>2 DEF End
    <2> QED
        BY <2>1 DEF Fits, At
<1>3. ASSUME NEW x, tx' = [tx EXCEPT ![t] = x], x.op = tx[t].op,
             \/ x.op \in SignupOps /\ x.step \in {"rsvp", "write"}
             \/ x.op \in {"verify", "portal_verify"} /\ x.step = "claim"
      PROVE  Fits(u)'
    <2>1. tx'[u] = x \/ tx'[u] = tx[u]
        BY <1>1, <1>3
    <2> QED
        BY <1>3, <2>1 DEF Fits, At
<1>4. CASE LockRoles(t)
    <2> DEFINE x == [tx[t] EXCEPT !.step = "rsvp"]
    <2>1. /\ tx' = [tx EXCEPT ![t] = x] /\ tx[t].op = "accept"
          /\ x.op = tx[t].op /\ x.step = "rsvp"
        BY <1>1, <1>4 DEF LockRoles, At, Transactions
    <2> HIDE DEF x
    <2> QED
        BY <1>3, <2>1 DEF SignupOps
<1>5. CASE LockRsvp(t)
    <2> DEFINE x == [tx[t] EXCEPT !.step = "write", !.seats = Cardinality(Seated)]
    <2>1. /\ tx' = [tx EXCEPT ![t] = x] /\ tx[t].op \in SignupOps
          /\ x.op = tx[t].op /\ x.step = "write"
        BY <1>1, <1>5 DEF LockRsvp, Transactions
    <2> HIDE DEF x
    <2> QED
        BY <1>3, <2>1
<1>6. CASE StartClaim(t) \/ PortalUpdate(t)
    <2> DEFINE x == [tx[t] EXCEPT !.step = "claim"]
    <2>1. /\ tx' = [tx EXCEPT ![t] = x] /\ tx[t].op \in {"verify", "portal_verify"}
          /\ x.op = tx[t].op /\ x.step = "claim"
        BY <1>1, <1>6 DEF StartClaim, PortalUpdate, At, Transactions
    <2> HIDE DEF x
    <2> QED
        BY <1>3, <2>1
<1> QED
    BY <1>2, <1>4, <1>5, <1>6
    DEF Continue, Accept, Decline, OrgDecline, WriteDeclined, Approve, Refuse, Verify,
        MarkNoShow, RefuseAttendance, CheckIn, Claim, Cancel, Complete, DeadlockVictim,
        Rollback

\* A finite set has a part of every size up to its own.
LEMMA PartOfEverySize ==
    ASSUME NEW S, IsFiniteSet(S), NEW n \in Nat, n <= Cardinality(S)
    PROVE  \E T \in SUBSET S : Cardinality(T) = n
<1>1. Cardinality(S) \in Nat /\ ExistsBijection(1..Cardinality(S), S)
    BY FS_CardinalityType
<1>2. PICK f : f \in Bijection(1..Cardinality(S), S)
    BY <1>1 DEF ExistsBijection
<1> DEFINE T == {f[i] : i \in 1..n}
           g == [i \in 1..n |-> f[i]]
<1>3. 1..n \subseteq 1..Cardinality(S)
    BY <1>1
<1>4. /\ f \in [1..Cardinality(S) -> S]
      /\ \A i, j \in 1..Cardinality(S) : f[i] = f[j] => i = j
    BY <1>2 DEF Bijection, Injection, IsInjective
<1>5. T \in SUBSET S
    BY <1>3, <1>4
<1>6. g \in Bijection(1..n, T)
    BY <1>3, <1>4 DEF Bijection, Injection, IsInjective, Surjection
<1>7. Cardinality(T) = n
    BY <1>6, FS_CountingElements DEF ExistsBijection
<1> QED
    BY <1>5, <1>7

\* There is always a promotion, of nobody if need be.
LEMMA PromotionExists ==
    ASSUME NEW others, NEW e \in Events, NEW x \in [Volunteers -> Rsvps]
    PROVE  Promotions(others, e, x) # {}
<1> DEFINE seats == Cardinality(SeatedIn(x))
           limit == IF e.status = "cancelled" THEN 0
                    ELSE IF Limited(e) THEN Atleast0(e.capacity - seats)
                    ELSE Cardinality(WaitingIn(x))
           unlocked == UnlockedIn(others, x)
           n == Lowest(limit, Cardinality(unlocked))
<1>1. SeatedIn(x) \in SUBSET Volunteers /\ WaitingIn(x) \in SUBSET Volunteers
      /\ unlocked \in SUBSET Volunteers
    BY DEF SeatedIn, WaitingIn, UnlockedIn
<1>2. seats \in Nat /\ Cardinality(WaitingIn(x)) \in Nat
      /\ Cardinality(unlocked) \in Nat /\ IsFiniteSet(unlocked)
    BY <1>1, PeopleAreCounted
<1>3. e.capacity \in Nat
    BY CapacitiesAreNat DEF Events
<1>4. n \in Nat /\ n <= Cardinality(unlocked)
    BY <1>2, <1>3 DEF Atleast0, Lowest
<1>5. PICK S \in SUBSET unlocked : Cardinality(S) = n
    BY <1>2, <1>4, PartOfEverySize
<1>6. S \in Promotions(others, e, x)
    BY <1>5 DEF Promotions, SeatedIn, WaitingIn, UnlockedIn
<1> QED
    BY <1>6

LEMMA MoverHasStatement ==
    ASSUME IInv, NEW t \in Sessions, Fits(t), CanGoOn(t)
    PROVE  HasStatement(t)
<1>1. CASE \E u \in Sessions : WaitCrosswise(t, u)
    BY <1>1 DEF HasStatement
<1>2. CASE \A u \in Sessions : ~WaitsFor(t, u)
    <2>1. tx[t] # Idle
        BY DEF CanGoOn
    <2>2. CASE At(t, "accept", "roles")
        BY <2>2 DEF HasStatement
    <2>3. CASE tx[t].op \in SignupOps /\ tx[t].step = "rsvp"
        BY <1>2, <2>3 DEF HasStatement, WaitsFor, WaitsForRsvp, RsvpFree
    <2>4. CASE /\ tx[t].op \in SignupOps \cup AttendanceOps \cup UnlockedOps
               /\ tx[t].step = "write"
        <3> SUFFICES WriteGoesOn(t)
            BY <2>4 DEF HasStatement
        <3>1. CASE tx[t].op \in {"accept", "approve", "verify"}
            BY <3>1 DEF WriteGoesOn
        <3>2. CASE tx[t].op \in {"decline", "org_decline"}
            <4> DEFINE x == [rsvp EXCEPT ![tx[t].v].status = "declined"]
            <4>1. x \in [Volunteers -> Rsvps]
                BY DEF IInv, TypeOK, Rsvps, Statuses
            <4>2. event \in Events
                BY DEF IInv, TypeOK
            <4> HIDE DEF x
            <4>3. Promotions(Sessions \ {t}, event, x) # {}
                BY <4>1, <4>2, PromotionExists
            <4> QED
                BY <3>2, <4>3 DEF WriteGoesOn, x
        <3>3. CASE tx[t].op = "no_show"
            BY <1>2, <2>4, <3>3 DEF WriteGoesOn, WaitsFor, WaitsForSignup, RolesFree, At
        <3>4. CASE tx[t].op \in {"check_in", "portal_verify"}
            BY <1>2, <2>4, <3>4 DEF WriteGoesOn, WaitsFor, RsvpFree
        <3>5. CASE tx[t].op \in {"cancel", "complete"}
            BY <1>2, <3>5 DEF WriteGoesOn, WaitsFor, EventFree
        <3> QED
            BY <2>4, <3>1, <3>2, <3>3, <3>4, <3>5 DEF SignupOps, AttendanceOps, UnlockedOps
    <2>5. CASE tx[t].step = "claim"
        BY <1>2, <2>5 DEF HasStatement, WaitsFor, WaitsForSignup, EventFree
    <2> QED
        BY <2>1, <2>2, <2>3, <2>4, <2>5 DEF Fits
<1> QED
    BY <1>1, <1>2 DEF CanGoOn

\* Wherever a transaction stands its handler has a statement to run, and one
\* that waits for nobody gets the locks that the statement takes: after every
\* read, refusal and promotion there is a way on.
THEOREM NoAnswerLeavesItOpen == Spec => []MoversHaveStatements
<1> DEFINE AllFit == \A t \in Sessions : Fits(t)
<1>1. Init => AllFit
    BY DEF Init, Fits
<1>2. IInv /\ AllFit /\ [Next]_vars => AllFit'
    <2> SUFFICES ASSUME IInv, AllFit, [Next]_vars, NEW u \in Sessions PROVE Fits(u)'
        OBVIOUS
    <2>1. CASE UNCHANGED tx
        BY <2>1 DEF Fits, At
    <2>2. CASE Request
        BY <2>1, <2>2 DEF Request, AdminSignup, UpdateEvent, AdminPatchEvent
    <2>3. CASE UNCHANGED vars
        BY <2>1, <2>3 DEF vars
    <2> QED
        BY <2>2, <2>3, ArrivalFits, ContinueFits DEF Next
<1>3. IInv /\ AllFit => MoversHaveStatements
    BY MoverHasStatement DEF MoversHaveStatements
<1> HIDE DEF AllFit
<1> QED
    BY <1>1, <1>2, <1>3, Invariance, PTL DEF Spec

=============================================================================
