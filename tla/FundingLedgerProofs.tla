------------------------ MODULE FundingLedgerProofs ------------------------
(***************************************************************************)
(* Proofs about FundingLedger, for any finite sets of donations, top-ups,  *)
(* pools, shifts and sessions. First what does not depend on amounts, from *)
(* Inv: which credits are drawn on and when, who decides on a donation,    *)
(* how often a payment is entered and how awards wait for pools. Then the  *)
(* amounts, from Books: no credit is spent twice, plans stay covered, and  *)
(* what can overdraw a pool.                                               *)
(***************************************************************************)
EXTENDS FundingLedger, SumProofs, TLAPS

-----------------------------------------------------------------------------
(***************************************************************************)
(* The inductive invariant.                                                *)
(***************************************************************************)

\* The rows and transactions have their fields; nothing is said of amounts.
CreditShape(x) == DOMAIN x = {"status", "scope", "remaining"}
TxShape(x) ==
    /\ DOMAIN x = {"op", "at", "payment", "found", "shift", "reviews", "plans"}
    /\ DOMAIN x.plans = 1..2
    /\ x.op \in {"none", "intake", "award", "manual", "policy"} /\ x.at \in 0..3
    /\ x.reviews \subseteq Donations

Shapes ==
    /\ payment \in [Donations -> Payments \cup {None}]
    /\ review \in [Donations -> Reviews]
    /\ DOMAIN credit = Credits /\ \A c \in Credits : CreditShape(credit[c])
    /\ DOMAIN award = Shifts
    /\ DOMAIN tx = Sessions /\ \A t \in Sessions : TxShape(tx[t])

\* A status a shift may find when it draws on a credit, or after it has.
Out(s) == s \notin {"none", "held"}

\* A shift may spend a credit c of scope s.
Fits(s, c, w) ==
    LET e == ShiftEvent[w] IN
    \/ s \in {e, OrgOf[e]}
    \/ s = Unrestricted /\ (c \in Grants \/ e \in Subsidised)

\* A donation, its review and its credit are entered together, and the credit
\* is held exactly as long as the review is open.
RowsAgree ==
    \A d \in Donations :
        /\ payment[d] = None <=> review[d] = "none"
        /\ review[d] = "none" <=> credit[d].status = "none"
        /\ review[d] = "pending" <=> credit[d].status = "held"

\* What a shift has drawn on was out; a shift not yet paid has drawn nothing.
DrawnWasOut ==
    \A w \in Shifts : \A c \in Credits :
        /\ award[w].from[c] # 0 => Out(credit[c].status)
        /\ award[w].mode = "none" => award[w].from[c] = 0

OneSessionPerShift ==
    \A t, u \in Sessions : tx[t].shift = tx[u].shift /\ tx[t].shift # None => t = u

\* What the transaction of session t has read and relies on: its shift is
\* unpaid; the credits it plans to draw on are out, and of the shift's scope
\* unless they have been given another target since; its reviews exist.
Sound(t) ==
    /\ tx[t].op = "intake" => tx[t].payment \in Payments
    /\ tx[t].op = "award" => tx[t].shift \in Shifts /\ award[tx[t].shift].mode = "none"
    /\ tx[t].op = "award" => \A i \in 1..2 : \A c \in Credits :
          tx[t].plans[i][c] # 0 =>
              /\ Out(credit[c].status)
              /\ Fits(credit[c].scope, c, tx[t].shift) \/ c \in retargeted
    /\ \A d \in tx[t].reviews : review[d] # "none"

\* The rows of a payment, and the deliveries that have found none.
Rows(p) == {d \in Donations : payment[d] = p}
Unaware(p) ==
    {t \in Sessions : tx[t].op = "intake" /\ tx[t].payment = p /\ tx[t].found = None}

RowsPlusUnaware ==
    \A p \in Payments :
        Cardinality(Rows(p)) + Cardinality(Unaware(p)) <= Cardinality(Sessions)

TablesAgree == RowsAgree /\ DrawnWasOut

Inv ==
    /\ Shapes
    /\ TablesAgree
    /\ OneSessionPerShift
    /\ \A t \in Sessions : Sound(t)
    /\ RowsPlusUnaware

LEMMA InScopeFits ==
    ASSUME NEW c \in Credits, NEW w \in Shifts
    PROVE  InScope(c, w) <=> Fits(credit[c].scope, c, w)
BY DEF InScope, Fits

-----------------------------------------------------------------------------
(***************************************************************************)
(* What a step leaves to the transactions of other sessions.               *)
(***************************************************************************)

\* A credit that is out stays out, and keeps its scope unless it is retargeted;
\* a review is not taken back.
Leaves ==
    /\ \A c \in Credits : Out(credit[c].status) =>
          /\ Out(credit'[c].status)
          /\ credit'[c].scope = credit[c].scope \/ c \in retargeted'
    /\ retargeted \subseteq retargeted'
    /\ \A d \in Donations : review[d] # "none" => review'[d] # "none"

\* The transaction of session u goes on as it was, its shift unpaid.
Undisturbed(u) ==
    tx'[u] = tx[u] /\ (tx[u].op = "award" => award'[tx[u].shift] = award[tx[u].shift])

LEMMA LeftSound ==
    ASSUME Shapes, Leaves, NEW u \in Sessions, Sound(u), Undisturbed(u)
    PROVE  Sound(u)'
<1>1. TxShape(tx[u]) /\ tx'[u] = tx[u]
    BY DEF Shapes, Undisturbed
<1>2. tx[u].op = "award" => tx[u].shift \in Shifts /\ award'[tx[u].shift].mode = "none"
    BY DEF Sound, Undisturbed
<1>3. ASSUME tx[u].op = "award", NEW i \in 1..2, NEW c \in Credits, tx[u].plans[i][c] # 0
      PROVE  /\ Out(credit'[c].status)
             /\ Fits(credit'[c].scope, c, tx[u].shift) \/ c \in retargeted'
    BY <1>3 DEF Sound, Leaves
<1>4. \A d \in tx[u].reviews : review'[d] # "none"
    BY <1>1 DEF Sound, Leaves, TxShape
<1> QED
    BY <1>1, <1>2, <1>3, <1>4 DEF Sound

\* Deliveries that find a payment, or end, leave room for those that do not.
LEMMA NoNewDelivery ==
    ASSUME RowsPlusUnaware, payment' = payment,
           \A p \in Payments : Unaware(p)' \subseteq Unaware(p)
    PROVE  RowsPlusUnaware'
<1> SUFFICES ASSUME NEW p \in Payments
             PROVE  Cardinality(Rows(p))' + Cardinality(Unaware(p))' <= Cardinality(Sessions)
    BY DEF RowsPlusUnaware
<1>1. Rows(p)' = Rows(p)
    BY DEF Rows
<1>2. IsFiniteSet(Unaware(p)) /\ IsFiniteSet(Sessions) /\ IsFiniteSet(Rows(p))
    <2>1. Unaware(p) \in SUBSET Sessions /\ Rows(p) \in SUBSET Donations
        BY DEF Unaware, Rows
    <2> QED
        BY <2>1, FS_Subset, SetsFinite
<1>3. Unaware(p)' \in SUBSET Unaware(p)
    OBVIOUS
<1>4. IsFiniteSet(Unaware(p)') /\ Cardinality(Unaware(p)') <= Cardinality(Unaware(p))
    BY <1>2, <1>3, FS_Subset
<1>5. /\ Cardinality(Unaware(p)') \in Nat /\ Cardinality(Unaware(p)) \in Nat
      /\ Cardinality(Rows(p)) \in Nat /\ Cardinality(Sessions) \in Nat
    BY <1>2, <1>4, FS_CardinalityType
<1>6. Cardinality(Rows(p)) + Cardinality(Unaware(p)) <= Cardinality(Sessions)
    BY DEF RowsPlusUnaware
<1> QED
    BY <1>1, <1>4, <1>5, <1>6

\* A step of session t keeps the invariant when it leaves the others what they
\* rely on, is sound itself and takes up no shift that is taken.
LEMMA SessionStep ==
    ASSUME Inv, NEW t \in Sessions, Shapes', TablesAgree', Leaves, Sound(t)',
           \A u \in Sessions \ {t} : Undisturbed(u),
           tx'[t].shift \in {None, tx[t].shift}
           \/ \A u \in Sessions : tx[u].shift # tx'[t].shift,
           RowsPlusUnaware'
    PROVE  Inv'
<1>1. ASSUME NEW u \in Sessions PROVE Sound(u)'
    <2>1. CASE u = t
        BY <2>1
    <2>2. CASE u # t
        <3>1. Shapes /\ Sound(u) /\ Undisturbed(u)
            BY <2>2 DEF Inv
        <3> QED
            BY <3>1, LeftSound
    <2> QED
        BY <2>1, <2>2
<1>2. OneSessionPerShift'
    <2>1. \A u \in Sessions \ {t} : tx'[u].shift = tx[u].shift
        BY DEF Undisturbed
    <2> QED
        BY <2>1 DEF Inv, OneSessionPerShift
<1> QED
    BY <1>1, <1>2 DEF Inv

\* A transaction that starts: it writes nothing and has no plan yet.
LEMMA StartStep ==
    ASSUME Inv, NEW t \in Sessions, NEW x, Start(t, x), TxShape(x),
           UNCHANGED <<payment, review, credit, award, retargeted>>,
           Sound(t)', x.shift = None \/ \A u \in Sessions : tx[u].shift # x.shift,
           x.op = "intake" /\ x.found = None => Rows(x.payment) = {}
    PROVE  Inv'
<1>1. Shapes /\ TablesAgree /\ RowsPlusUnaware
    BY DEF Inv
<1>2. /\ DOMAIN tx' = Sessions /\ tx'[t] = x /\ tx[t] = Idle
      /\ \A u \in Sessions \ {t} : tx'[u] = tx[u]
    BY <1>1 DEF Start, Shapes
<1>3. Shapes' /\ TablesAgree'
    BY <1>1, <1>2 DEF Shapes, TablesAgree, RowsAgree, DrawnWasOut
<1>4. Leaves /\ \A u \in Sessions \ {t} : Undisturbed(u)
    BY <1>2 DEF Leaves, Undisturbed
<1>5. RowsPlusUnaware'
    <2> SUFFICES ASSUME NEW p \in Payments
                 PROVE  Cardinality(Rows(p))' + Cardinality(Unaware(p))' <= Cardinality(Sessions)
        BY DEF RowsPlusUnaware
    <2>1. Rows(p)' = Rows(p)
        BY DEF Rows
    <2>2. CASE t \in Unaware(p)'
        <3>1. Rows(p) = {}
            BY <1>2, <2>2 DEF Unaware
        <3>2. Unaware(p)' \in SUBSET Sessions
            BY DEF Unaware
        <3>3. IsFiniteSet(Unaware(p)') /\ Cardinality(Unaware(p)') <= Cardinality(Sessions)
            BY <3>2, FS_Subset, SetsFinite
        <3>4. Cardinality(Unaware(p)') \in Nat
            BY <3>3, FS_CardinalityType
        <3>5. Cardinality(Rows(p)) = 0
            BY <3>1, FS_EmptySet
        <3> QED
            BY <2>1, <3>3, <3>4, <3>5
    <2>3. CASE t \notin Unaware(p)'
        <3>1. t \notin Unaware(p)
            BY <1>2 DEF Unaware, Idle
        <3>2. Unaware(p)' = Unaware(p)
            BY <1>2, <2>3, <3>1 DEF Unaware
        <3> QED
            BY <1>1, <2>1, <3>2 DEF RowsPlusUnaware
    <2> QED
        BY <2>2, <2>3
<1> QED
    BY <1>2, <1>3, <1>4, <1>5, SessionStep

\* The end of a transaction that enters no donation.
LEMMA EndStep ==
    ASSUME Inv, NEW t \in Sessions, End(t), payment' = payment,
           review' \in [Donations -> Reviews],
           DOMAIN credit' = Credits, \A c \in Credits : CreditShape(credit'[c]),
           DOMAIN award' = Shifts, TablesAgree', Leaves,
           \A u \in Sessions \ {t} : tx[u].op = "award" =>
               award'[tx[u].shift] = award[tx[u].shift]
    PROVE  Inv'
<1>1. Shapes /\ RowsPlusUnaware
    BY DEF Inv
<1>2. /\ DOMAIN tx' = Sessions /\ tx'[t] = Idle
      /\ \A u \in Sessions \ {t} : tx'[u] = tx[u]
    BY <1>1 DEF End, Shapes
<1>3. TxShape(Idle)
    BY DEF TxShape, Idle
<1>4. Shapes'
    BY <1>1, <1>2, <1>3 DEF Shapes
<1>5. Sound(t)' /\ \A u \in Sessions \ {t} : Undisturbed(u)
    BY <1>2 DEF Sound, Idle, Undisturbed
<1>6. \A p \in Payments : Unaware(p)' \subseteq Unaware(p)
    BY <1>2 DEF Unaware, Idle
<1>7. RowsPlusUnaware'
    BY <1>1, <1>6, NoNewDelivery
<1>8. tx'[t].shift = None
    BY <1>2 DEF Idle
<1> QED
    BY <1>4, <1>5, <1>7, <1>8, SessionStep

\* An end without a write.
LEMMA QuietEnd ==
    ASSUME Inv, NEW t \in Sessions, End(t),
           UNCHANGED <<payment, review, credit, award, retargeted>>
    PROVE  Inv'
<1>1. Shapes /\ TablesAgree
    BY DEF Inv
<1>2. TablesAgree' /\ Leaves
    BY <1>1 DEF TablesAgree, RowsAgree, DrawnWasOut, Leaves
<1> QED
    BY <1>1, <1>2, EndStep DEF Shapes

-----------------------------------------------------------------------------
(***************************************************************************)
(* Money coming in.                                                        *)
(***************************************************************************)

LEMMA InitKeeps == Init => Inv
<1> SUFFICES ASSUME Init PROVE Inv
    OBVIOUS
<1>1. TxShape(Idle)
    BY DEF TxShape, Idle
<1>2. Shapes
    BY <1>1 DEF Init, Shapes, CreditShape, Reviews
<1>3. TablesAgree
    BY DEF Init, TablesAgree, RowsAgree, DrawnWasOut, Credits, Unpaid, NoCredits
<1>4. \A t \in Sessions : tx[t] = Idle
    BY DEF Init
<1>5. OneSessionPerShift /\ \A t \in Sessions : Sound(t)
    BY <1>4 DEF OneSessionPerShift, Sound, Idle
<1>6. RowsPlusUnaware
    <2> SUFFICES ASSUME NEW p \in Payments
                 PROVE  Cardinality(Rows(p)) + Cardinality(Unaware(p)) <= Cardinality(Sessions)
        BY DEF RowsPlusUnaware
    <2>1. Rows(p) = {}
        BY SetsDisjoint DEF Init, Rows
    <2>2. Unaware(p) = {}
        BY <1>4 DEF Unaware, Idle
    <2>3. Cardinality(Rows(p)) = 0 /\ Cardinality(Unaware(p)) = 0
        BY <2>1, <2>2, FS_EmptySet
    <2>4. Cardinality(Sessions) \in Nat
        BY SetsFinite, FS_CardinalityType
    <2> QED
        BY <2>3, <2>4
<1> QED
    BY <1>2, <1>3, <1>5, <1>6 DEF Inv

LEMMA BeginIntakeKeeps ==
    ASSUME Inv, NEW t \in Sessions, NEW p \in Payments, BeginIntake(t, p)
    PROVE  Inv'
<1>1. PICK d \in Donations \cup {None} :
          /\ IF d = None THEN \A e \in Donations : payment[e] # p ELSE payment[d] = p
          /\ Start(t, [Idle EXCEPT !.op = "intake", !.payment = p, !.found = d])
    BY DEF BeginIntake
<1> DEFINE x == [Idle EXCEPT !.op = "intake", !.payment = p, !.found = d]
<1>2. /\ x.op = "intake" /\ x.payment = p /\ x.found = d /\ x.shift = None
      /\ x.reviews = {} /\ TxShape(x)
    BY DEF Idle, TxShape
<1> HIDE DEF x
<1>3. Start(t, x) /\ UNCHANGED <<payment, review, credit, award, retargeted>>
    BY <1>1 DEF BeginIntake, x
<1>4. tx'[t] = x
    BY <1>3 DEF Start, Inv, Shapes
<1>5. Sound(t)'
    BY <1>2, <1>4 DEF Sound
<1>6. x.found = None => Rows(x.payment) = {}
    BY <1>1, <1>2, SetsDisjoint DEF Rows
<1> QED
    BY <1>2, <1>3, <1>5, <1>6, StartStep

\* A new donation adds one row for a delivery that ends.
LEMMA RecordDonationKeeps ==
    ASSUME Inv, NEW t \in Sessions, RecordDonation(t)
    PROVE  Inv'
<1> DEFINE p == tx[t].payment
<1>1. PICK d \in Donations \ Recorded :
          /\ payment' = [payment EXCEPT ![d] = p]
          /\ review' = [review EXCEPT ![d] = "pending"]
          /\ credit' = [credit EXCEPT ![d] = [status |-> "held",
                          scope |-> Unrestricted, remaining |-> PaymentAmount[p]]]
    BY DEF RecordDonation
<1>2. /\ tx[t].op = "intake" /\ tx[t].found = None /\ End(t)
      /\ UNCHANGED <<award, retargeted>>
    BY DEF RecordDonation
<1>3. Shapes /\ TablesAgree /\ Sound(t) /\ RowsPlusUnaware
    BY DEF Inv
<1>4. p \in Payments /\ p # None
    BY <1>2, <1>3, SetsDisjoint DEF Sound
<1>5. payment[d] = None /\ review[d] = "none" /\ credit[d].status = "none" /\ d \in Credits
    BY <1>3 DEF Recorded, TablesAgree, RowsAgree, Credits
<1> HIDE DEF p
<1>6. /\ payment'[d] = p /\ review'[d] = "pending" /\ credit'[d].status = "held"
      /\ CreditShape(credit'[d])
      /\ \A e \in Donations \ {d} : payment'[e] = payment[e] /\ review'[e] = review[e]
      /\ \A c \in Credits \ {d} : credit'[c] = credit[c]
    BY <1>1, <1>3, <1>5 DEF Shapes, CreditShape
<1>7. /\ DOMAIN tx' = Sessions /\ tx'[t] = Idle
      /\ \A u \in Sessions \ {t} : tx'[u] = tx[u]
    BY <1>2, <1>3 DEF End, Shapes
<1>8. Shapes'
    <2>1. payment' \in [Donations -> Payments \cup {None}]
          /\ review' \in [Donations -> Reviews]
        BY <1>1, <1>3, <1>4 DEF Shapes, Reviews
    <2>2. DOMAIN credit' = Credits /\ \A c \in Credits : CreditShape(credit'[c])
        BY <1>1, <1>3, <1>6 DEF Shapes
    <2>3. \A u \in Sessions : TxShape(tx'[u])
        BY <1>3, <1>7 DEF Shapes, TxShape, Idle
    <2> QED
        BY <1>2, <1>3, <1>7, <2>1, <2>2, <2>3 DEF Shapes
<1>9. TablesAgree'
    <2>1. RowsAgree'
        BY <1>3, <1>4, <1>6 DEF TablesAgree, RowsAgree, Credits
    <2>2. DrawnWasOut'
        BY <1>2, <1>3, <1>5, <1>6 DEF TablesAgree, DrawnWasOut, Out
    <2> QED
        BY <2>1, <2>2 DEF TablesAgree
<1>10. Leaves
    <2>1. \A c \in Credits : Out(credit[c].status) => credit'[c] = credit[c]
        BY <1>5, <1>6 DEF Out
    <2>2. \A e \in Donations : review[e] # "none" => review'[e] # "none"
        BY <1>6
    <2> QED
        BY <1>2, <2>1, <2>2 DEF Leaves
<1>11. Sound(t)' /\ \A u \in Sessions \ {t} : Undisturbed(u)
    BY <1>2, <1>7 DEF Sound, Idle, Undisturbed
<1>12. RowsPlusUnaware'
    <2> SUFFICES ASSUME NEW q \in Payments
                 PROVE  Cardinality(Rows(q)') + Cardinality(Unaware(q)') <= Cardinality(Sessions)
        BY DEF RowsPlusUnaware
    <2>1. IsFiniteSet(Rows(q)) /\ IsFiniteSet(Unaware(q))
        <3>1. Unaware(q) \in SUBSET Sessions /\ Rows(q) \in SUBSET Donations
            BY DEF Unaware, Rows
        <3> QED
            BY <3>1, FS_Subset, SetsFinite
    <2>2. Cardinality(Rows(q)) \in Nat /\ Cardinality(Unaware(q)) \in Nat
        BY <2>1, FS_CardinalityType
    <2>3. Cardinality(Rows(q)) + Cardinality(Unaware(q)) <= Cardinality(Sessions)
        BY <1>3 DEF RowsPlusUnaware
    <2>4. CASE q = p
        <3>1. Rows(q)' = Rows(q) \cup {d} /\ d \notin Rows(q)
            BY <1>4, <1>5, <1>6, <2>4 DEF Rows
        <3>2. Unaware(q)' = Unaware(q) \ {t} /\ t \in Unaware(q)
            BY <1>2, <1>7, <2>4 DEF Unaware, Idle, p
        <3>3. Cardinality(Rows(q) \cup {d}) = Cardinality(Rows(q)) + 1
            BY <2>1, <3>1, FS_AddElement
        <3>4. Cardinality(Unaware(q) \ {t}) = Cardinality(Unaware(q)) - 1
            BY <2>1, <3>2, FS_RemoveElement
        <3> QED
            BY <2>2, <2>3, <3>1, <3>2, <3>3, <3>4
    <2>5. CASE q # p
        <3>1. Rows(q)' = Rows(q)
            BY <1>4, <1>5, <1>6, <2>5, SetsDisjoint DEF Rows
        <3>2. Unaware(q)' = Unaware(q)
            BY <1>7, <2>5 DEF Unaware, Idle, p
        <3> QED
            BY <2>3, <3>1, <3>2
    <2> QED
        BY <2>4, <2>5
<1>13. tx'[t].shift = None
    BY <1>7 DEF Idle
<1> QED
    BY <1>8, <1>9, <1>10, <1>11, <1>12, <1>13, SessionStep

LEMMA TopUpKeeps ==
    ASSUME Inv, NEW g \in Grants, TopUp(g)
    PROVE  Inv'
<1>1. /\ credit[g].status = "none"
      /\ credit' = [credit EXCEPT ![g] = [status |-> "available",
                      scope |-> GrantOrg[g], remaining |-> GrantAmount[g]]]
      /\ UNCHANGED <<payment, review, award, tx, retargeted>>
    BY DEF TopUp
<1>2. Shapes /\ TablesAgree /\ RowsPlusUnaware /\ g \in Credits /\ g \notin Donations
    BY SetsDisjoint DEF Inv, Credits
<1>3. /\ credit'[g].status = "available" /\ CreditShape(credit'[g])
      /\ \A c \in Credits \ {g} : credit'[c] = credit[c]
      /\ DOMAIN credit' = Credits
    BY <1>1, <1>2 DEF Shapes, CreditShape
<1>4. Shapes'
    BY <1>1, <1>2, <1>3 DEF Shapes
<1>5. RowsAgree'
    BY <1>1, <1>2, <1>3 DEF TablesAgree, RowsAgree, Credits
<1>6. DrawnWasOut'
    BY <1>1, <1>2, <1>3 DEF TablesAgree, DrawnWasOut, Out
<1>7. Leaves
    <2>1. \A c \in Credits : Out(credit[c].status) => credit'[c] = credit[c]
        BY <1>1, <1>3 DEF Out
    <2> QED
        BY <1>1, <2>1 DEF Leaves
<1>8. ASSUME NEW u \in Sessions PROVE Sound(u)'
    <2>1. Shapes /\ Sound(u) /\ Undisturbed(u)
        BY <1>1 DEF Inv, Undisturbed
    <2> QED
        BY <1>7, <2>1, LeftSound
<1>9. OneSessionPerShift' /\ RowsPlusUnaware'
    BY <1>1 DEF Inv, OneSessionPerShift, RowsPlusUnaware, Rows, Unaware
<1> QED
    BY <1>4, <1>5, <1>6, <1>8, <1>9 DEF Inv, TablesAgree

-----------------------------------------------------------------------------
(***************************************************************************)
(* Decisions on a donation.                                                *)
(***************************************************************************)

LEMMA BeginManualKeeps ==
    ASSUME Inv, NEW t \in Sessions, NEW d \in Donations, BeginManual(t, d)
    PROVE  Inv'
<1> DEFINE x == [Idle EXCEPT !.op = "manual", !.reviews = {d}]
<1>1. /\ Start(t, x) /\ UNCHANGED <<payment, review, credit, award, retargeted>>
      /\ review[d] # "none"
    BY DEF BeginManual
<1>2. /\ x.op = "manual" /\ x.shift = None /\ x.reviews = {d} /\ TxShape(x)
    BY DEF Idle, TxShape
<1> HIDE DEF x
<1>3. tx'[t] = x
    BY <1>1 DEF Start, Inv, Shapes
<1>4. Sound(t)'
    BY <1>1, <1>2, <1>3 DEF Sound
<1> QED
    BY <1>1, <1>2, <1>4, StartStep

LEMMA BeginPolicyKeeps ==
    ASSUME Inv, NEW t \in Sessions, NEW due \in SUBSET Donations, BeginPolicy(t, due)
    PROVE  Inv'
<1> DEFINE x == [Idle EXCEPT !.op = "policy", !.reviews = due]
<1>1. /\ Start(t, x) /\ UNCHANGED <<payment, review, credit, award, retargeted>>
      /\ \A d \in due : review[d] # "none"
    BY DEF BeginPolicy, AwaitsReview
<1>2. /\ x.op = "policy" /\ x.shift = None /\ x.reviews = due /\ TxShape(x)
    BY DEF Idle, TxShape
<1> HIDE DEF x
<1>3. tx'[t] = x
    BY <1>1 DEF Start, Inv, Shapes
<1>4. Sound(t)'
    BY <1>1, <1>2, <1>3 DEF Sound
<1> QED
    BY <1>1, <1>2, <1>4, StartStep

\* A decision on existing reviews ends their holds and moves no credit that is
\* out to another target without counting it as retargeted.
LEMMA DecideKeeps ==
    ASSUME Inv, NEW t \in Sessions, NEW D \in SUBSET Donations, NEW target,
           NEW status \in {"manual", "policy"}, \A d \in D : review[d] # "none",
           Decide(D, target, status), End(t), UNCHANGED <<payment, award>>
    PROVE  Inv'
<1>1. Shapes /\ TablesAgree
    BY DEF Inv
<1>2. /\ \A c \in Credits \ D : credit'[c] = credit[c]
      /\ \A d \in D : credit'[d] = Released(target, d)
      /\ \A d \in Donations : review'[d] = IF d \in D THEN status ELSE review[d]
      /\ DOMAIN credit' = Credits /\ review' \in [Donations -> Reviews]
      /\ retargeted' = retargeted \cup {d \in D : review[d] # "pending"}
    BY <1>1 DEF Decide, Credits, Shapes, Reviews
<1>3. ASSUME NEW d \in D
      PROVE  CreditShape(credit'[d]) /\ credit'[d].status = "available"
    <2>1. CreditShape(credit[d])
        BY <1>1 DEF Shapes, Credits
    <2>2. CreditShape(Released(target, d)) /\ Released(target, d).status = "available"
        BY <2>1 DEF CreditShape, Released
    <2> QED
        BY <1>2, <2>2
<1>4. \A c \in Credits : CreditShape(credit'[c])
    BY <1>1, <1>2, <1>3 DEF Shapes
<1>5. RowsAgree'
    BY <1>1, <1>2, <1>3 DEF TablesAgree, RowsAgree, Credits
<1>6. DrawnWasOut'
    BY <1>1, <1>2, <1>3 DEF TablesAgree, DrawnWasOut, Out
<1>7. Leaves
    <2>1. ASSUME NEW c \in Credits, Out(credit[c].status)
          PROVE  /\ Out(credit'[c].status)
                 /\ credit'[c].scope = credit[c].scope \/ c \in retargeted'
        <3>1. CASE c \in D
            <4>1. review[c] # "pending"
                BY <1>1, <2>1, <3>1 DEF TablesAgree, RowsAgree, Out
            <4> QED
                BY <1>2, <1>3, <3>1, <4>1 DEF Out
        <3>2. CASE c \notin D
            BY <1>2, <2>1, <3>2
        <3> QED
            BY <3>1, <3>2
    <2>2. \A d \in Donations : review[d] # "none" => review'[d] # "none"
        BY <1>2
    <2> QED
        BY <1>2, <2>1, <2>2 DEF Leaves
<1> QED
    BY <1>1, <1>2, <1>4, <1>5, <1>6, <1>7, EndStep DEF TablesAgree, Shapes

LEMMA CommitManualKeeps ==
    ASSUME Inv, NEW t \in Sessions, CommitManual(t)
    PROVE  Inv'
<1>1. PICK s \in Scopes : Decide(tx[t].reviews, [d \in tx[t].reviews |-> s], "manual")
    BY DEF CommitManual
<1>2. End(t) /\ UNCHANGED <<payment, award>>
    BY DEF CommitManual
<1>3. tx[t].reviews \in SUBSET Donations /\ \A d \in tx[t].reviews : review[d] # "none"
    BY DEF Inv, Shapes, TxShape, Sound
<1> QED
    BY <1>1, <1>2, <1>3, DecideKeeps

LEMMA CommitPolicyKeeps ==
    ASSUME Inv, NEW t \in Sessions, CommitPolicy(t)
    PROVE  Inv'
<1> DEFINE due == {d \in tx[t].reviews : AwaitsReview(d)}
<1>1. End(t) /\ UNCHANGED <<payment, award>>
    BY DEF CommitPolicy
<1>2. tx[t].reviews \in SUBSET Donations /\ \A d \in tx[t].reviews : review[d] # "none"
    BY DEF Inv, Shapes, TxShape, Sound
<1>3. due \in SUBSET Donations /\ \A d \in due : review[d] # "none"
    BY <1>2
<1>4. CASE PolicyTargets = {}
    BY <1>1, <1>4, QuietEnd DEF CommitPolicy
<1>5. CASE PolicyTargets # {}
    <2>1. PICK target \in [due -> PolicyTargets] : Decide(due, target, "policy")
        BY <1>5 DEF CommitPolicy
    <2> HIDE DEF due
    <2> QED
        BY <1>1, <1>3, <2>1, DecideKeeps
<1> QED
    BY <1>4, <1>5

-----------------------------------------------------------------------------
(***************************************************************************)
(* Awards.                                                                 *)
(***************************************************************************)

LEMMA BeginAwardKeeps ==
    ASSUME Inv, NEW t \in Sessions, NEW w \in Shifts, BeginAward(t, w)
    PROVE  Inv'
<1> DEFINE x == [Idle EXCEPT !.op = "award", !.at = 1, !.shift = w]
<1>1. /\ Start(t, x) /\ UNCHANGED <<payment, review, credit, award, retargeted>>
      /\ award[w].mode = "none" /\ \A u \in Sessions : tx[u].shift # w
    BY DEF BeginAward
<1>2. /\ x.op = "award" /\ x.shift = w /\ x.reviews = {} /\ TxShape(x)
      /\ \A i \in 1..2 : x.plans[i] = NoCredits
    BY DEF Idle, TxShape
<1> HIDE DEF x
<1>3. tx'[t] = x
    BY <1>1 DEF Start, Inv, Shapes
<1>4. Sound(t)'
    BY <1>1, <1>2, <1>3 DEF Sound, NoCredits
<1> QED
    BY <1>1, <1>2, <1>4, StartStep

\* A plan draws only on credits that are out and of the shift's scope.
LEMMA PlanIsSound ==
    ASSUME NEW p, NEW w \in Shifts, NEW c \in Credits, Plan(p, w)[c] # 0
    PROVE  Out(credit[c].status) /\ Fits(credit[c].scope, c, w)
<1>1. c \in EligibleIn(p, w)
    BY DEF Plan
<1>2. credit[c].status \in {"available", "partially_spent"} /\ InScope(c, w)
    BY <1>1 DEF EligibleIn, Eligible
<1> QED
    BY <1>2, InScopeFits DEF Out

LEMMA ReadPoolKeeps ==
    ASSUME Inv, NEW t \in Sessions, ReadPool(t)
    PROVE  Inv'
<1> DEFINE w == tx[t].shift
           i == tx[t].at
           P == Plan(Candidates(w)[i], w)
<1>1. /\ tx[t].op = "award" /\ i \in 1..2
      /\ tx' = [tx EXCEPT ![t].at = i + 1, ![t].plans[i] = P]
      /\ UNCHANGED <<payment, review, credit, award, retargeted>>
    BY DEF ReadPool
<1>2. Shapes /\ TablesAgree /\ Sound(t) /\ RowsPlusUnaware /\ TxShape(tx[t])
    BY DEF Inv, Shapes
<1>3. w \in Shifts
    BY <1>1, <1>2 DEF Sound
<1>4. \A c \in Credits : P[c] # 0 => Out(credit[c].status) /\ Fits(credit[c].scope, c, w)
    BY <1>3, PlanIsSound
<1> HIDE DEF P, i
<1>5. /\ DOMAIN tx' = Sessions /\ TxShape(tx'[t])
      /\ tx'[t].op = tx[t].op /\ tx'[t].shift = tx[t].shift
      /\ tx'[t].reviews = tx[t].reviews
      /\ tx'[t].plans[i] = P
      /\ \A j \in 1..2 : j # i => tx'[t].plans[j] = tx[t].plans[j]
      /\ \A u \in Sessions \ {t} : tx'[u] = tx[u]
    BY <1>1, <1>2 DEF Shapes, TxShape
<1>6. Shapes' /\ TablesAgree'
    BY <1>1, <1>2, <1>5 DEF Shapes, TablesAgree, RowsAgree, DrawnWasOut
<1>7. Sound(t)'
    <2>1. ASSUME NEW j \in 1..2, NEW c \in Credits, tx'[t].plans[j][c] # 0
          PROVE  /\ Out(credit[c].status)
                 /\ Fits(credit[c].scope, c, w) \/ c \in retargeted
        <3>1. CASE j = i
            BY <1>4, <1>5, <2>1, <3>1
        <3>2. CASE j # i
            BY <1>1, <1>2, <1>5, <2>1, <3>2 DEF Sound
        <3> QED
            BY <3>1, <3>2
    <2> QED
        BY <1>1, <1>2, <1>5, <2>1 DEF Sound
<1>8. Leaves /\ \A u \in Sessions \ {t} : Undisturbed(u)
    BY <1>1, <1>5 DEF Leaves, Undisturbed
<1>9. RowsPlusUnaware'
    <2>1. \A p \in Payments : Unaware(p)' \subseteq Unaware(p)
        BY <1>1, <1>5 DEF Unaware
    <2> QED
        BY <1>1, <1>2, <2>1, NoNewDelivery
<1> QED
    BY <1>5, <1>6, <1>7, <1>8, <1>9, SessionStep

\* What both ways of paying a shift write of the award.
LEMMA PaysItsShift ==
    ASSUME Inv, NEW t \in Sessions, tx[t].op = "award", NEW x,
           award' = [award EXCEPT ![tx[t].shift] = x]
    PROVE  /\ tx[t].shift \in Shifts /\ DOMAIN award' = Shifts
           /\ award'[tx[t].shift] = x
           /\ \A w \in Shifts \ {tx[t].shift} : award'[w] = award[w]
           /\ \A c \in Credits : award[tx[t].shift].from[c] = 0
           /\ \A u \in Sessions \ {t} : tx[u].op = "award" =>
                  award'[tx[u].shift] = award[tx[u].shift]
<1>1. Shapes /\ OneSessionPerShift /\ DrawnWasOut /\ \A u \in Sessions : Sound(u)
    BY DEF Inv, TablesAgree
<1>2. tx[t].shift \in Shifts /\ award[tx[t].shift].mode = "none"
    BY <1>1 DEF Sound
<1>3. /\ DOMAIN award' = Shifts /\ award'[tx[t].shift] = x
      /\ \A w \in Shifts \ {tx[t].shift} : award'[w] = award[w]
    BY <1>1, <1>2 DEF Shapes
<1>4. \A c \in Credits : award[tx[t].shift].from[c] = 0
    BY <1>1, <1>2 DEF DrawnWasOut
<1>5. ASSUME NEW u \in Sessions \ {t}, tx[u].op = "award"
      PROVE  award'[tx[u].shift] = award[tx[u].shift]
    <2>1. tx[u].shift \in Shifts /\ tx[u].shift # None
        BY <1>1, <1>5, SetsDisjoint DEF Sound
    <2>2. tx[u].shift # tx[t].shift
        BY <1>1, <2>1 DEF OneSessionPerShift
    <2> QED
        BY <1>3, <2>1, <2>2
<1> QED
    BY <1>2, <1>3, <1>4, <1>5

\* What a draw does to a credit that is out.
LEMMA DrawnStaysOut ==
    ASSUME NEW c \in Credits, NEW n, CreditShape(credit[c]), Out(credit[c].status)
    PROVE  /\ CreditShape(Drawn(c, n)) /\ Out(Drawn(c, n).status)
           /\ Drawn(c, n).scope = credit[c].scope
BY DEF CreditShape, Out, Drawn

\* What an award from credits writes: the plan of one candidate pool is the
\* award's allocation, and the credits it draws on are drawn.
LEMMA AwardWrites ==
    ASSUME Inv, NEW t \in Sessions, AwardFromCredits(t)
    PROVE  /\ tx[t].op = "award" /\ End(t) /\ UNCHANGED <<payment, review, retargeted>>
           /\ \E i, x :
                 /\ i \in 1..2
                 /\ x.mode = "semantic" /\ x.from = tx[t].plans[i]
                 /\ award' = [award EXCEPT ![tx[t].shift] = x]
                 /\ credit' = [c \in Credits |->
                        IF tx[t].plans[i][c] > 0 THEN Drawn(c, tx[t].plans[i][c])
                                                 ELSE credit[c]]
<1> DEFINE w == tx[t].shift
           funded == [i \in 1..2 |-> Planned(tx[t].plans[i])]
           i == Selected(funded, ShiftAmount[w])
           plan == tx[t].plans[i]
           donors == {d \in Donations : plan[d] > 0}
           x == [mode |-> "semantic", pool |-> Candidates(w)[i], debit |-> funded[i],
                 donation |-> IF Cardinality(donors) = 1
                              THEN CHOOSE d \in donors : TRUE ELSE None,
                 from |-> plan]
<1>1. i \in 1..2
    BY DEF Selected
<1>2. x.mode = "semantic" /\ x.from = plan
    OBVIOUS
<1>3. /\ award' = [award EXCEPT ![w] = x]
      /\ credit' = [c \in Credits |-> IF plan[c] > 0 THEN Drawn(c, plan[c]) ELSE credit[c]]
      /\ tx[t].op = "award" /\ End(t) /\ UNCHANGED <<payment, review, retargeted>>
    BY DEF AwardFromCredits
<1> HIDE DEF i, x
<1> QED
    BY <1>1, <1>2, <1>3

LEMMA AwardFromCreditsKeeps ==
    ASSUME Inv, NEW t \in Sessions, AwardFromCredits(t)
    PROVE  Inv'
<1> DEFINE w == tx[t].shift
<1>1. tx[t].op = "award" /\ End(t) /\ UNCHANGED <<payment, review, retargeted>>
    BY AwardWrites
<1>2. PICK i, x :
          /\ i \in 1..2
          /\ x.mode = "semantic" /\ x.from = tx[t].plans[i]
          /\ award' = [award EXCEPT ![w] = x]
          /\ credit' = [c \in Credits |->
                 IF tx[t].plans[i][c] > 0 THEN Drawn(c, tx[t].plans[i][c])
                                          ELSE credit[c]]
    BY AwardWrites
<1> DEFINE plan == tx[t].plans[i]
<1>3. Shapes /\ TablesAgree /\ Sound(t)
    BY DEF Inv
<1>4. /\ w \in Shifts /\ DOMAIN award' = Shifts /\ award'[w] = x
      /\ \A v \in Shifts \ {w} : award'[v] = award[v]
      /\ \A u \in Sessions \ {t} : tx[u].op = "award" =>
             award'[tx[u].shift] = award[tx[u].shift]
    BY <1>1, <1>2, PaysItsShift
<1>5. \A c \in Credits : plan[c] # 0 => Out(credit[c].status)
    <2>1. i \in 1..2
        BY <1>2
    <2> QED
        BY <1>1, <1>3, <2>1 DEF Sound
<1>6. ASSUME NEW c \in Credits
      PROVE  /\ CreditShape(credit'[c]) /\ credit'[c].scope = credit[c].scope
             /\ Out(credit[c].status) => Out(credit'[c].status)
             /\ ~Out(credit[c].status) => credit'[c] = credit[c]
    <2>1. CreditShape(credit[c])
        BY <1>3 DEF Shapes
    <2>2. CASE plan[c] > 0
        <3>1. plan[c] # 0
            BY <2>2
        <3>2. Out(credit[c].status) /\ credit'[c] = Drawn(c, plan[c])
            BY <1>2, <1>5, <2>2, <3>1
        <3> HIDE DEF plan
        <3> QED
            BY <2>1, <3>2, DrawnStaysOut
    <2>3. CASE ~(plan[c] > 0)
        BY <1>2, <2>1, <2>3
    <2> QED
        BY <2>2, <2>3
<1> HIDE DEF w, plan
<1>7. DOMAIN credit' = Credits
    BY <1>2
<1>8. RowsAgree'
    BY <1>1, <1>3, <1>6 DEF TablesAgree, RowsAgree, Out, Credits
<1>9. DrawnWasOut'
    <2> SUFFICES ASSUME NEW v \in Shifts, NEW c \in Credits
                 PROVE  /\ award'[v].from[c] # 0 => Out(credit'[c].status)
                        /\ award'[v].mode = "none" => award'[v].from[c] = 0
        BY DEF DrawnWasOut
    <2>1. CASE v = w
        BY <1>2, <1>4, <1>5, <1>6, <2>1 DEF plan
    <2>2. CASE v # w
        BY <1>3, <1>4, <1>6, <2>2 DEF TablesAgree, DrawnWasOut
    <2> QED
        BY <2>1, <2>2
<1>10. Leaves
    BY <1>1, <1>6 DEF Leaves
<1> QED
    BY <1>1, <1>3, <1>4, <1>6, <1>7, <1>8, <1>9, <1>10, EndStep DEF TablesAgree, Shapes

\* What an award from a pool's balance writes: no allocation.
LEMMA LegacyWrites ==
    ASSUME NEW t \in Sessions, AwardFromBalance(t)
    PROVE  /\ tx[t].op = "award" /\ End(t) /\ UNCHANGED <<payment, review, credit, retargeted>>
           /\ \E x : /\ x.mode = "legacy" /\ x.from = NoCredits
                     /\ award' = [award EXCEPT ![tx[t].shift] = x]
<1> DEFINE w == tx[t].shift
           i == Selected([j \in 1..2 |-> Balance(Candidates(w)[j])], ShiftAmount[w])
           p == Candidates(w)[i]
           debit == Least(ShiftAmount[w], AtLeast0(Balance(p)))
           oldest == {d \in WithRemaining(p) : \A e \in WithRemaining(p) : Age[d] <= Age[e]}
           x == [mode |-> "legacy", pool |-> p, debit |-> debit,
                 donation |-> IF debit > 0 /\ oldest # {}
                              THEN CHOOSE d \in oldest : TRUE ELSE None,
                 from |-> NoCredits]
<1>1. x.mode = "legacy" /\ x.from = NoCredits
    OBVIOUS
<1>2. /\ award' = [award EXCEPT ![w] = x]
      /\ tx[t].op = "award" /\ End(t) /\ UNCHANGED <<payment, review, credit, retargeted>>
    BY DEF AwardFromBalance
<1> HIDE DEF x
<1> QED
    BY <1>1, <1>2

LEMMA AwardFromBalanceKeeps ==
    ASSUME Inv, NEW t \in Sessions, AwardFromBalance(t)
    PROVE  Inv'
<1> DEFINE w == tx[t].shift
<1>1. tx[t].op = "award" /\ End(t) /\ UNCHANGED <<payment, review, credit, retargeted>>
    BY LegacyWrites
<1>2. PICK x : /\ x.mode = "legacy" /\ x.from = NoCredits
               /\ award' = [award EXCEPT ![w] = x]
    BY LegacyWrites
<1>3. Shapes /\ TablesAgree
    BY DEF Inv
<1>4. /\ w \in Shifts /\ DOMAIN award' = Shifts /\ award'[w] = x
      /\ \A v \in Shifts \ {w} : award'[v] = award[v]
      /\ \A u \in Sessions \ {t} : tx[u].op = "award" =>
             award'[tx[u].shift] = award[tx[u].shift]
    BY <1>1, <1>2, PaysItsShift
<1> HIDE DEF w
<1>5. RowsAgree' /\ Leaves
    BY <1>1, <1>3 DEF TablesAgree, RowsAgree, Leaves
<1>6. DrawnWasOut'
    BY <1>1, <1>2, <1>3, <1>4 DEF TablesAgree, DrawnWasOut, NoCredits
<1> QED
    BY <1>1, <1>3, <1>4, <1>5, <1>6, EndStep DEF TablesAgree, Shapes

-----------------------------------------------------------------------------
(***************************************************************************)
(* The theorems.                                                           *)
(***************************************************************************)

LEMMA NextKeeps == Inv /\ [Next]_vars => Inv'
<1> SUFFICES ASSUME Inv, [Next]_vars PROVE Inv'
    OBVIOUS
<1>1. ASSUME NEW t \in Sessions, Arrival(t) PROVE Inv'
    BY <1>1, BeginIntakeKeeps, BeginManualKeeps, BeginPolicyKeeps, BeginAwardKeeps
       DEF Arrival
<1>2. ASSUME NEW t \in Sessions, RecognisePayment(t) \/ Rollback(t) PROVE Inv'
    BY <1>2, QuietEnd DEF RecognisePayment, Rollback
<1>3. ASSUME NEW t \in Sessions, Continue(t) PROVE Inv'
    BY <1>2, <1>3, RecordDonationKeeps, CommitManualKeeps, CommitPolicyKeeps,
       ReadPoolKeeps, AwardFromCreditsKeeps, AwardFromBalanceKeeps DEF Continue
<1>4. CASE \E g \in Grants : TopUp(g)
    BY <1>4, TopUpKeeps
<1>5. CASE UNCHANGED vars
    BY <1>5 DEF vars, Inv, Shapes, TablesAgree, RowsAgree, DrawnWasOut,
          OneSessionPerShift, Sound, RowsPlusUnaware, Rows, Unaware
<1> QED
    BY <1>1, <1>2, <1>3, <1>4, <1>5 DEF Next

\* In every reachable state donations, reviews and credits agree, and the plans
\* of the awards under way draw on credits that are out.
THEOREM Invariance == Spec => []Inv
BY InitKeeps, NextKeeps, PTL DEF Spec

\* A donation under review is held and whole, whatever awards, deliveries and
\* decisions meet: no credit leaves its hold but by a decision.
THEOREM HoldIsKept == Spec => []HeldUntilReviewed
<1>1. Inv => HeldUntilReviewed
    <2> SUFFICES ASSUME Inv, NEW d \in Donations
                 PROVE  /\ review[d] = "none" <=> credit[d].status = "none"
                        /\ review[d] = "pending" <=> credit[d].status = "held"
                        /\ review[d] = "pending" => \A w \in Shifts : award[w].from[d] = 0
        BY DEF HeldUntilReviewed
    <2>1. d \in Credits
        BY DEF Credits
    <2> QED
        BY <2>1 DEF Inv, TablesAgree, RowsAgree, DrawnWasOut, Out
<1> QED
    BY <1>1, Invariance, PTL

\* Any number of deliveries of a payment enter it at most once for each that
\* overlaps another.
THEOREM DeliveriesBound == Spec => []DuplicatesNeedOverlap
<1>1. Inv => DuplicatesNeedOverlap
    <2> SUFFICES ASSUME Inv, NEW p \in Payments
                 PROVE  Cardinality(Rows(p)) <= Cardinality(Sessions)
        BY DEF DuplicatesNeedOverlap, Rows
    <2>1. Unaware(p) \in SUBSET Sessions /\ Rows(p) \in SUBSET Donations
        BY DEF Unaware, Rows
    <2>2. IsFiniteSet(Unaware(p)) /\ IsFiniteSet(Rows(p))
        BY <2>1, FS_Subset, SetsFinite
    <2>3. /\ Cardinality(Unaware(p)) \in Nat /\ Cardinality(Rows(p)) \in Nat
          /\ Cardinality(Sessions) \in Nat
        BY <2>2, SetsFinite, FS_CardinalityType
    <2>4. Cardinality(Rows(p)) + Cardinality(Unaware(p)) <= Cardinality(Sessions)
        BY DEF Inv, RowsPlusUnaware
    <2> QED
        BY <2>3, <2>4
<1> QED
    BY <1>1, Invariance, PTL

\* Awards lock the pool of the organisation and then the shared one, so that no
\* set of them, however large, waits in a circle.
THEOREM AwardsNeverDeadlock == Spec => []NoCircularWait
<1>1. Inv => NoCircularWait
    <2> SUFFICES ASSUME Inv, NEW S \in (SUBSET Sessions) \ {{}}
                 PROVE  \E t \in S : \A u \in S : ~WaitsFor(t, u)
        BY DEF NoCircularWait
    <2> DEFINE Waiting(t) == tx[t].op = "award" /\ tx[t].at \in 1..2
    <2>1. ASSUME NEW t \in S, tx[t].op = "award"
          PROVE  /\ Candidates(tx[t].shift)[1] \in Orgs
                 /\ Candidates(tx[t].shift)[2] = Base
                 /\ Base \notin Orgs
        <3>1. t \in Sessions /\ tx[t].shift \in Shifts
            BY <2>1 DEF Inv, Sound
        <3> QED
            BY <3>1, EventTypes, SetsDisjoint DEF Candidates
    <2>2. CASE \E t \in S : ~Waiting(t)
        BY <2>2 DEF WaitsFor
    <2>3. CASE (\A t \in S : Waiting(t)) /\ \E t \in S : tx[t].at = 2
        <3>1. PICK t \in S : tx[t].at = 2
            BY <2>3
        <3>2. tx[t].op = "award"
            BY <2>3
        <3>3. Candidates(tx[t].shift)[tx[t].at] = Base
            BY <2>1, <3>1, <3>2
        <3>4. ASSUME NEW u \in S, HoldsPool(u, Base) PROVE FALSE
            <4>1. tx[u].op = "award" /\ tx[u].at \in 1..2
                BY <2>3
            <4>2. PICK i \in 1..2 : i < tx[u].at /\ Candidates(tx[u].shift)[i] = Base
                BY <3>4 DEF HoldsPool
            <4>3. i = 1
                BY <4>1, <4>2
            <4>4. Candidates(tx[u].shift)[1] \in Orgs /\ Base \notin Orgs
                BY <2>1, <4>1
            <4> QED
                BY <4>2, <4>3, <4>4
        <3> QED
            BY <3>3, <3>4 DEF WaitsFor
    <2>4. CASE (\A t \in S : Waiting(t)) /\ \A t \in S : tx[t].at # 2
        <3>1. \A u \in S : tx[u].at = 1
            BY <2>4
        <3>2. \A u \in S : \A p : ~HoldsPool(u, p)
            BY <3>1 DEF HoldsPool
        <3> QED
            BY <3>2 DEF WaitsFor
    <2> QED
        BY <2>2, <2>3, <2>4
<1> QED
    BY <1>1, Invariance, PTL

\* The steps that write a review, and those that write an award.
LEMMA StepsThatWrite ==
    ASSUME [Next]_vars
    PROVE  /\ \/ review' = review
              \/ \E t \in Sessions : RecordDonation(t) \/ CommitManual(t) \/ CommitPolicy(t)
           /\ \/ award' = award
              \/ \E t \in Sessions : AwardFromCredits(t) \/ AwardFromBalance(t)
<1>1. ASSUME NEW t \in Sessions, Arrival(t) \/ Rollback(t)
      PROVE  review' = review /\ award' = award
    BY <1>1 DEF Arrival, Rollback, BeginIntake, BeginManual, BeginPolicy, BeginAward
<1>2. ASSUME NEW t \in Sessions, Continue(t)
      PROVE  /\ \/ review' = review
                \/ RecordDonation(t) \/ CommitManual(t) \/ CommitPolicy(t)
             /\ \/ award' = award
                \/ AwardFromCredits(t) \/ AwardFromBalance(t)
    <2>1. CASE RecordDonation(t) \/ CommitManual(t) \/ CommitPolicy(t)
        BY <2>1 DEF RecordDonation, CommitManual, CommitPolicy
    <2>2. CASE RecognisePayment(t) \/ ReadPool(t)
        BY <2>2 DEF RecognisePayment, ReadPool
    <2>3. CASE AwardFromCredits(t) \/ AwardFromBalance(t)
        BY <2>3 DEF AwardFromCredits, AwardFromBalance
    <2> QED
        BY <1>2, <2>1, <2>2, <2>3 DEF Continue
<1>3. CASE \E g \in Grants : TopUp(g)
    BY <1>3 DEF TopUp
<1>4. CASE UNCHANGED vars
    BY <1>4 DEF vars
<1> QED
    BY <1>1, <1>2, <1>3, <1>4 DEF Next

\* The policy job overrides no administrator: it looks again, under the
\* review's lock, at what it found due.
THEOREM ManualIsFinal == Spec => ManualDecisionStands
<1>1. ASSUME Inv, [Next]_vars, NEW d \in Donations, review[d] = "manual"
      PROVE  review'[d] = "manual"
    <2>1. review \in [Donations -> Reviews]
        BY <1>1 DEF Inv, Shapes
    <2>2. ASSUME NEW t \in Sessions, RecordDonation(t) PROVE review'[d] = "manual"
        <3>1. PICK e \in Donations \ Recorded : review' = [review EXCEPT ![e] = "pending"]
            BY <2>2 DEF RecordDonation
        <3>2. review[e] = "none"
            BY <1>1, <3>1 DEF Recorded, Inv, TablesAgree, RowsAgree
        <3> QED
            BY <1>1, <2>1, <3>1, <3>2
    <2>3. ASSUME NEW t \in Sessions, CommitManual(t) PROVE review'[d] = "manual"
        BY <1>1, <2>3 DEF CommitManual, Decide
    <2>4. ASSUME NEW t \in Sessions, CommitPolicy(t) PROVE review'[d] = "manual"
        BY <1>1, <2>4 DEF CommitPolicy, Decide, AwaitsReview
    <2> QED
        BY <1>1, <2>2, <2>3, <2>4, StepsThatWrite
<1>2. Inv /\ [Next]_vars =>
          \A d \in Donations : review[d] = "manual" => review'[d] = "manual"
    BY <1>1
<1> QED
    BY <1>2, Invariance, PTL DEF Spec, ManualDecisionStands

\* An award draws outside its shift's scope only on a donation that was given
\* another target after its first decision.
THEOREM DrawsWithinScope == Spec => OutOfScopeOnlyIfRetargeted
<1>1. ASSUME Inv, [Next]_vars, NEW w \in Shifts, NEW c \in Credits,
             award'[w].from[c] # award[w].from[c]
      PROVE  InScope(c, w) \/ c \in retargeted
    <2>1. award' # award
        BY <1>1
    <2>2. ASSUME NEW t \in Sessions, AwardFromCredits(t)
          PROVE  InScope(c, w) \/ c \in retargeted
        <3>1. PICK i, x :
                  /\ i \in 1..2
                  /\ x.from = tx[t].plans[i]
                  /\ award' = [award EXCEPT ![tx[t].shift] = x]
            BY <1>1, <2>2, AwardWrites
        <3>2. tx[t].op = "award" /\ tx[t].at = 3
            BY <2>2 DEF AwardFromCredits
        <3>3. /\ award'[tx[t].shift] = x /\ award[tx[t].shift].from[c] = 0
              /\ \A v \in Shifts \ {tx[t].shift} : award'[v] = award[v]
            BY <1>1, <3>1, <3>2, PaysItsShift
        <3>4. w = tx[t].shift
            BY <1>1, <3>3
        <3>5. tx[t].plans[i][c] # 0
            BY <1>1, <3>1, <3>3, <3>4
        <3>6. Fits(credit[c].scope, c, w) \/ c \in retargeted
            BY <1>1, <3>1, <3>2, <3>4, <3>5 DEF Inv, Sound
        <3> QED
            BY <3>6, InScopeFits
    <2>3. ASSUME NEW t \in Sessions, AwardFromBalance(t)
          PROVE  FALSE
        <3>1. PICK x : /\ x.from = NoCredits
                       /\ award' = [award EXCEPT ![tx[t].shift] = x]
            BY <2>3, LegacyWrites
        <3>2. tx[t].op = "award"
            BY <2>3, LegacyWrites
        <3>3. /\ award'[tx[t].shift] = x /\ award[tx[t].shift].from[c] = 0
              /\ \A v \in Shifts \ {tx[t].shift} : award'[v] = award[v]
            BY <1>1, <3>1, <3>2, PaysItsShift
        <3>4. x.from[c] = 0
            BY <3>1 DEF NoCredits
        <3> QED
            BY <1>1, <3>3, <3>4
    <2> QED
        BY <1>1, <2>1, <2>2, <2>3, StepsThatWrite
<1>2. Inv /\ [Next]_vars =>
          \A w \in Shifts : \A c \in Credits :
             award'[w].from[c] # award[w].from[c] => InScope(c, w) \/ c \in retargeted
    BY <1>1
<1> QED
    BY <1>2, Invariance, PTL DEF Spec, OutOfScopeOnlyIfRetargeted

-----------------------------------------------------------------------------
(***************************************************************************)
(* The amounts.  Inv says nothing of them; what follows builds on it.      *)
(***************************************************************************)

PoolsExclude ==
    \A t, u \in Sessions : \A p \in Pools : HoldsPool(t, p) /\ HoldsPool(u, p) => t = u

\* An award plans on credits of pools that it has read, and still holds.
PlansOfHeldPools ==
    \A t \in Sessions : tx[t].op = "award" =>
        \A i \in 1..2 : \A c \in Credits : tx[t].plans[i][c] # 0 =>
            i < tx[t].at /\ PoolOf(c) = Candidates(tx[t].shift)[i]

UnpaidOwesNothing == \A w \in Shifts : award[w].mode = "none" => award[w] = Unpaid

\* What has come into a pool, what its credits have left, and what shifts were
\* paid from its credits and from its balance: by credit and by shift.
InPool(c, p) == credit[c].status # "none" /\ PoolOf(c) = p
CameIn(p) == [c \in Credits |-> IF InPool(c, p) THEN Amount(c) ELSE 0]
LeftIn(p) == [c \in Credits |-> IF InPool(c, p) THEN credit[c].remaining ELSE 0]
PaidBy(p, mode) ==
    [w \in Shifts |-> IF award[w].pool = p /\ award[w].mode = mode
                      THEN award[w].debit ELSE 0]

\* Every credit that came into a pool is left in one of its credits or was
\* paid to a shift by a semantic award.
PoolsBalance ==
    \A p \in Pools :
        SumFunctionOnSet(CameIn(p), Credits)
          = SumFunctionOnSet(LeftIn(p), Credits)
              + SumFunctionOnSet(PaidBy(p, "semantic"), Shifts)

Books ==
    /\ TypeOK
    /\ PoolsExclude
    /\ PlansOfHeldPools
    /\ UnpaidOwesNothing
    /\ PlansStayCovered
    /\ RemainingMatchesAllocations
    /\ PoolsBalance

(***************************************************************************)
(* Types.                                                                  *)
(***************************************************************************)

LEMMA TypeFacts ==
    ASSUME TypeOK
    PROVE  /\ \A c \in Credits : /\ credit[c].remaining \in Nat /\ credit[c].scope \in Scopes
                                 /\ credit[c].status \in {"none", "held", "available",
                                                          "partially_spent", "spent"}
           /\ \A w \in Shifts : /\ award[w].debit \in Nat
                                /\ award[w].mode \in {"none", "semantic", "legacy"}
                                /\ \A c \in Credits : award[w].from[c] \in Nat
           /\ \A t \in Sessions : /\ tx[t].at \in 0..3
                                  /\ tx[t].plans \in [1..2 -> [Credits -> Nat]]
BY DEF TypeOK, CreditRows, Awards, Transactions

LEMMA NoCreditsType == NoCredits \in [Credits -> Nat]
BY DEF NoCredits

LEMMA IdleType == Idle \in Transactions
BY NoCreditsType DEF Idle, Transactions

LEMMA CandidateIsPool ==
    ASSUME NEW w \in Shifts, NEW i \in 1..2
    PROVE  Candidates(w)[i] \in Pools
<1>1. OrgOf[ShiftEvent[w]] \in Orgs
    BY EventTypes
<1> QED
    BY <1>1 DEF Candidates, Pools

\* The amount and the pool of a credit that is in the books.
LEMMA MoneyKnown ==
    ASSUME Inv, NEW c \in Credits, credit[c].status # "none"
    PROVE  Amount(c) \in Nat /\ PoolOf(c) \in Pools
<1>1. CASE c \in Grants
    BY <1>1, MoneyTypes DEF Amount, PoolOf, Pools
<1>2. CASE c \notin Grants
    <2>1. c \in Donations
        BY <1>2 DEF Credits
    <2>2. payment[c] \in Payments
        BY <2>1 DEF Inv, Shapes, TablesAgree, RowsAgree
    <2> QED
        BY <1>2, <2>2, MoneyTypes DEF Amount, PoolOf
<1> QED
    BY <1>1, <1>2

LEMMA SetsOfCredits == IsFiniteSet(Credits) /\ Donations \subseteq Credits /\ Grants \subseteq Credits
BY SetsFinite, FS_Union DEF Credits

LEMMA PlanType ==
    ASSUME TypeOK, NEW p, NEW w \in Shifts
    PROVE  /\ Plan(p, w) \in [Credits -> Nat]
           /\ \A c \in Credits : Plan(p, w)[c] <= credit[c].remaining
<1> DEFINE open == EligibleIn(p, w)
           before(c) == {d \in open : Before(d, c)}
           left(c) == AtLeast0(ShiftAmount[w] - SumFunctionOnSet(Remaining, before(c)))
<1>1. \A c \in Credits : Remaining[c] \in Nat /\ Remaining[c] = credit[c].remaining
    BY TypeFacts DEF Remaining
<1>2. ASSUME NEW c \in Credits PROVE left(c) \in Nat
    <2>1. before(c) \in SUBSET Credits
        BY DEF EligibleIn
    <2>2. IsFiniteSet(before(c)) /\ \A d \in before(c) : Remaining[d] \in Int
        BY <1>1, <2>1, SetsOfCredits, FS_Subset
    <2> HIDE DEF before
    <2>3. SumFunctionOnSet(Remaining, before(c)) \in Int
        BY <2>2, SumInt
    <2>4. ShiftAmount[w] \in Int
        BY MoneyTypes
    <2> QED
        BY <2>3, <2>4 DEF AtLeast0
<1>3. Plan(p, w) = [c \in Credits |-> IF c \in open THEN Least(Remaining[c], left(c)) ELSE 0]
    BY DEF Plan
<1> HIDE DEF open, left
<1>4. ASSUME NEW c \in Credits
      PROVE  /\ Least(Remaining[c], left(c)) \in Nat
             /\ Least(Remaining[c], left(c)) <= Remaining[c]
    BY <1>1, <1>2 DEF Least
<1> QED
    BY <1>1, <1>3, <1>4

LEMMA PlannedType ==
    ASSUME NEW f \in [Credits -> Nat]
    PROVE  Planned(f) \in Nat
BY SumNat, SetsOfCredits DEF Planned

LEMMA BalanceType ==
    ASSUME Inv, TypeOK, NEW p \in Pools
    PROVE  Incoming(p) \in Int /\ Balance(p) \in Int
<1> DEFINE f == [c \in Credits |-> IF credit[c].status = "none" THEN 0 ELSE Amount(c)]
           R == {c \in Credits : credit[c].status # "none" /\ PoolOf(c) = p}
           W == {w \in Shifts : award[w].pool = p}
<1>1. \A c \in Credits : f[c] \in Int
    BY MoneyKnown
<1>2. IsFiniteSet(R) /\ IsFiniteSet(W)
    BY SetsOfCredits, SetsFinite, FS_Subset
<1>3. \A w \in Shifts : Debits[w] \in Int
    BY TypeFacts DEF Debits
<1>4. R \subseteq Credits /\ W \subseteq Shifts
    OBVIOUS
<1>5. Incoming(p) = SumFunctionOnSet(f, R) /\ Balance(p) = Incoming(p) - SumFunctionOnSet(Debits, W)
    BY DEF Incoming, Balance
<1> HIDE DEF f, R, W
<1> QED
    BY <1>1, <1>2, <1>3, <1>4, <1>5, SumInt

(***************************************************************************)
(* What leaves the books as they are.                                      *)
(***************************************************************************)

\* The transaction record of a session that has read no pool.
HasReadNothing(x) ==
    x.op = "award" => x.at = 1 /\ \A i \in 1..2 : x.plans[i] = NoCredits

\* A credit that is in the books keeps its pool and its amount.
PaymentsKept ==
    \A c \in Credits : credit[c].status # "none" =>
        PoolOf(c)' = PoolOf(c) /\ Amount(c)' = Amount(c)

LEMMA SamePayments ==
    ASSUME payment' = payment
    PROVE  PaymentsKept
BY DEF PaymentsKept, PoolOf, Amount

\* Locks and plans after a step of a session that has read no pool.
LEMMA LocksKept ==
    ASSUME Inv, PoolsExclude, PlansOfHeldPools, PaymentsKept,
           NEW t \in Sessions, NEW x, tx' = [tx EXCEPT ![t] = x], HasReadNothing(x)
    PROVE  PoolsExclude' /\ PlansOfHeldPools'
<1>1. /\ tx'[t] = x /\ \A u \in Sessions \ {t} : tx'[u] = tx[u]
    BY DEF Inv, Shapes
<1>2. ASSUME NEW p PROVE ~HoldsPool(t, p)'
    BY <1>1 DEF HoldsPool, HasReadNothing
<1>3. ASSUME NEW p, NEW u \in Sessions, HoldsPool(u, p)' PROVE HoldsPool(u, p)
    <2>1. u # t
        BY <1>2, <1>3
    <2>2. tx'[u] = tx[u]
        BY <1>1, <2>1
    <2> QED
        BY <1>3, <2>2 DEF HoldsPool, Candidates
<1>4. PoolsExclude'
    BY <1>3 DEF PoolsExclude
<1>5. ASSUME NEW u \in Sessions, tx'[u].op = "award", NEW i \in 1..2, NEW c \in Credits,
             tx'[u].plans[i][c] # 0
      PROVE  i < tx'[u].at /\ PoolOf(c)' = Candidates(tx'[u].shift)[i]
    <2>1. u # t
        BY <1>1, <1>5 DEF HasReadNothing, NoCredits
    <2>2. tx'[u] = tx[u]
        BY <1>1, <2>1
    <2>3. i < tx[u].at /\ PoolOf(c) = Candidates(tx[u].shift)[i]
        BY <1>5, <2>2 DEF PlansOfHeldPools
    <2>4. credit[c].status # "none"
        BY <1>5, <2>2 DEF Inv, Sound, Out
    <2>5. PoolOf(c)' = PoolOf(c)
        BY <2>4 DEF PaymentsKept
    <2> QED
        BY <2>2, <2>3, <2>5
<1>6. PlansOfHeldPools'
    BY <1>5 DEF PlansOfHeldPools, Candidates
<1> QED
    BY <1>4, <1>6

\* Plans stay covered if no credit that is out loses anything.
LEMMA CoverKept ==
    ASSUME Inv, TypeOK', PlansStayCovered, NEW t \in Sessions, NEW x,
           tx' = [tx EXCEPT ![t] = x], HasReadNothing(x),
           \A c \in Credits : Out(credit[c].status) =>
               credit'[c].remaining = credit[c].remaining
    PROVE  PlansStayCovered'
<1>1. /\ tx'[t] = x /\ \A u \in Sessions \ {t} : tx'[u] = tx[u]
    BY DEF Inv, Shapes
<1>2. \A c \in Credits : credit'[c].remaining \in Nat
    BY DEF TypeOK, CreditRows
<1>3. ASSUME NEW u \in Sessions, NEW i \in 1..2, tx'[u].op = "award", i < tx'[u].at,
             NEW c \in Credits
      PROVE  tx'[u].plans[i][c] <= credit'[c].remaining
    <2>1. u # t
        BY <1>1, <1>3 DEF HasReadNothing
    <2>2. tx'[u] = tx[u]
        BY <1>1, <2>1
    <2>3. CASE tx[u].plans[i][c] = 0
        BY <1>2, <2>2, <2>3
    <2>4. CASE tx[u].plans[i][c] # 0
        <3>1. Out(credit[c].status)
            BY <1>3, <2>2, <2>4 DEF Inv, Sound
        <3>2. tx[u].plans[i][c] <= credit[c].remaining
            BY <1>3, <2>2 DEF PlansStayCovered
        <3> QED
            BY <2>2, <3>1, <3>2
    <2> QED
        BY <2>3, <2>4
<1> QED
    BY <1>3 DEF PlansStayCovered

\* The sums do not change if no credit enters the books, none loses anything
\* and no shift is paid.
LEMMA SumsKept ==
    ASSUME UnpaidOwesNothing, RemainingMatchesAllocations, PoolsBalance, PaymentsKept,
           award' = award,
           \A c \in Credits : /\ credit'[c].remaining = credit[c].remaining
                              /\ credit'[c].status = "none" <=> credit[c].status = "none"
    PROVE  UnpaidOwesNothing' /\ RemainingMatchesAllocations' /\ PoolsBalance'
<1>1. UnpaidOwesNothing'
    BY DEF UnpaidOwesNothing, Unpaid, NoCredits
<1>2. RemainingMatchesAllocations'
    BY DEF RemainingMatchesAllocations, PaymentsKept
<1>3. ASSUME NEW p \in Pools
      PROVE  /\ CameIn(p)' = CameIn(p) /\ LeftIn(p)' = LeftIn(p)
             /\ PaidBy(p, "semantic")' = PaidBy(p, "semantic")
    <2>1. \A c \in Credits : InPool(c, p)' <=> InPool(c, p)
        BY DEF InPool, PaymentsKept
    <2>2. CameIn(p)' = CameIn(p)
        BY <2>1 DEF CameIn, InPool, PaymentsKept
    <2>3. LeftIn(p)' = LeftIn(p)
        BY <2>1 DEF LeftIn
    <2> QED
        BY <2>2, <2>3 DEF PaidBy
<1>4. PoolsBalance'
    BY <1>3 DEF PoolsBalance
<1> QED
    BY <1>1, <1>2, <1>4

\* A step that writes only the record of a session that has read no pool.
LEMMA TxOnly ==
    ASSUME Inv, Books, NEW t \in Sessions, NEW x \in Transactions,
           tx' = [tx EXCEPT ![t] = x], HasReadNothing(x),
           UNCHANGED <<payment, review, credit, award, retargeted>>
    PROVE  Books'
<1>1. TypeOK'
    BY DEF Books, TypeOK
<1>2. PaymentsKept
    BY SamePayments
<1>3. PoolsExclude' /\ PlansOfHeldPools'
    BY <1>2, LocksKept DEF Books
<1>4. PlansStayCovered'
    BY <1>1, CoverKept DEF Books
<1>5. UnpaidOwesNothing' /\ RemainingMatchesAllocations' /\ PoolsBalance'
    BY <1>2, SumsKept DEF Books
<1> QED
    BY <1>1, <1>3, <1>4, <1>5 DEF Books

LEMMA PoolsReadType ==
    ASSUME NEW x \in Transactions, NEW n \in 0..3
    PROVE  [x EXCEPT !.at = n] \in Transactions
BY DEF Transactions

LEMMA StartBooks ==
    ASSUME Inv, Books, NEW t \in Sessions, Arrival(t)
    PROVE  Books'
<1>1. ASSUME NEW p \in Payments, BeginIntake(t, p) PROVE Books'
    <2>1. PICK d \in Donations \cup {None} :
              Start(t, [Idle EXCEPT !.op = "intake", !.payment = p, !.found = d])
        BY <1>1 DEF BeginIntake
    <2> DEFINE x == [Idle EXCEPT !.op = "intake", !.payment = p, !.found = d]
    <2>2. x \in Transactions /\ x.op = "intake"
        BY IdleType DEF Transactions
    <2> HIDE DEF x
    <2>3. tx' = [tx EXCEPT ![t] = x] /\ HasReadNothing(x)
        BY <2>1, <2>2 DEF Start, HasReadNothing, x
    <2> QED
        BY <1>1, <2>2, <2>3, TxOnly DEF BeginIntake
<1>2. ASSUME NEW d \in Donations, BeginManual(t, d) PROVE Books'
    <2> DEFINE x == [Idle EXCEPT !.op = "manual", !.reviews = {d}]
    <2>1. x \in Transactions /\ x.op = "manual"
        BY IdleType DEF Transactions
    <2>2. tx' = [tx EXCEPT ![t] = x]
        BY <1>2 DEF Start, BeginManual
    <2> HIDE DEF x
    <2> QED
        BY <1>2, <2>1, <2>2, TxOnly DEF BeginManual, HasReadNothing
<1>3. ASSUME NEW due \in SUBSET Donations, BeginPolicy(t, due) PROVE Books'
    <2> DEFINE x == [Idle EXCEPT !.op = "policy", !.reviews = due]
    <2>1. x \in Transactions /\ x.op = "policy"
        BY IdleType DEF Transactions
    <2>2. tx' = [tx EXCEPT ![t] = x]
        BY <1>3 DEF Start, BeginPolicy
    <2> HIDE DEF x
    <2> QED
        BY <1>3, <2>1, <2>2, TxOnly DEF BeginPolicy, HasReadNothing
<1>4. ASSUME NEW w \in Shifts, BeginAward(t, w) PROVE Books'
    <2> DEFINE x == [Idle EXCEPT !.op = "award", !.at = 1, !.shift = w]
    <2>1. x \in Transactions /\ x.at = 1 /\ \A i \in 1..2 : x.plans[i] = NoCredits
        <3>1. x \in Transactions
            <4> DEFINE y == [Idle EXCEPT !.op = "award", !.shift = w]
            <4>1. y \in Transactions
                BY IdleType DEF Transactions
            <4>2. x = [y EXCEPT !.at = 1]
                BY DEF Idle
            <4>3. 1 \in 0..3
                OBVIOUS
            <4> HIDE DEF x, y
            <4>4. [y EXCEPT !.at = 1] \in Transactions
                BY <4>1, <4>3, PoolsReadType, Zenon
            <4> QED
                BY <4>2, <4>4
        <3>2. x.at = 1 /\ x.plans = [i \in 1..2 |-> NoCredits]
            BY DEF Idle
        <3> HIDE DEF x
        <3> QED
            BY <3>1, <3>2
    <2>2. tx' = [tx EXCEPT ![t] = x]
        BY <1>4 DEF Start, BeginAward
    <2> HIDE DEF x
    <2> QED
        BY <1>4, <2>1, <2>2, TxOnly DEF BeginAward, HasReadNothing
<1> QED
    BY <1>1, <1>2, <1>3, <1>4 DEF Arrival

LEMMA IdleReadsNothing == HasReadNothing(Idle)
BY DEF HasReadNothing, Idle

LEMMA QuietEndBooks ==
    ASSUME Inv, Books, NEW t \in Sessions, End(t),
           UNCHANGED <<payment, review, credit, award, retargeted>>
    PROVE  Books'
BY IdleType, IdleReadsNothing, TxOnly DEF End

(***************************************************************************)
(* A credit that enters the books.                                         *)
(***************************************************************************)

LEMMA SumZero ==
    ASSUME NEW f, NEW S, IsFiniteSet(S), \A x \in S : f[x] = 0
    PROVE  SumFunctionOnSet(f, S) = 0
<1>1. SumFunctionOnSet(f, S) = SumFunctionOnSet(f, {})
    <2>1. {} \in SUBSET S /\ (\A x \in S : f[x] \in Int) /\ \A x \in S \ {} : f[x] = 0
        OBVIOUS
    <2> QED
        BY <2>1, SumOfSupport
<1> QED
    BY <1>1, SumEmpty

LEMMA PoolSumTypes ==
    ASSUME Inv, TypeOK, NEW p \in Pools
    PROVE  /\ \A c \in Credits : CameIn(p)[c] \in Nat /\ LeftIn(p)[c] \in Nat
           /\ \A w \in Shifts : \A m \in {"semantic", "legacy"} : PaidBy(p, m)[w] \in Nat
BY MoneyKnown, TypeFacts DEF CameIn, LeftIn, PaidBy, InPool

\* It is whole, nothing has been drawn on it, and its pool gains what it has.
LEMMA NewCreditBooks ==
    ASSUME Inv, TypeOK, TypeOK', UnpaidOwesNothing, RemainingMatchesAllocations,
           PoolsBalance, PaymentsKept, award' = award,
           NEW d \in Credits, credit[d].status = "none", credit'[d].status # "none",
           credit'[d].remaining = Amount(d)',
           \A c \in Credits \ {d} : credit'[c] = credit[c]
    PROVE  UnpaidOwesNothing' /\ RemainingMatchesAllocations' /\ PoolsBalance'
<1>1. UnpaidOwesNothing'
    BY DEF UnpaidOwesNothing, Unpaid, NoCredits
<1>2. RemainingMatchesAllocations'
    <2> SUFFICES ASSUME NEW c \in Credits, credit'[c].status # "none"
                 PROVE  credit'[c].remaining
                          = Amount(c)' - SumFunction([w \in Shifts |-> award'[w].from[c]])
        BY DEF RemainingMatchesAllocations
    <2>1. CASE c = d
        <3> DEFINE f == [w \in Shifts |-> award'[w].from[c]]
        <3>1. \A w \in Shifts : f[w] = 0
            BY <2>1 DEF Inv, TablesAgree, DrawnWasOut, Out
        <3>2. DOMAIN f = Shifts
            OBVIOUS
        <3> HIDE DEF f
        <3>3. SumFunction(f) = 0
            BY <3>1, <3>2, SetsFinite, SumZero DEF SumFunction
        <3>4. Amount(c)' \in Nat
            BY <2>1 DEF TypeOK, CreditRows
        <3> QED
            BY <2>1, <3>3, <3>4 DEF f
    <2>2. CASE c # d
        <3>1. credit'[c] = credit[c] /\ credit[c].status # "none"
            BY <2>2
        <3>2. Amount(c)' = Amount(c)
            BY <3>1 DEF PaymentsKept
        <3> QED
            BY <3>1, <3>2 DEF RemainingMatchesAllocations
    <2> QED
        BY <2>1, <2>2
<1>3. PoolsBalance'
    <2> SUFFICES ASSUME NEW p \in Pools
                 PROVE  SumFunctionOnSet(CameIn(p)', Credits)
                          = SumFunctionOnSet(LeftIn(p)', Credits)
                              + SumFunctionOnSet(PaidBy(p, "semantic")', Shifts)
        BY DEF PoolsBalance
    <2> DEFINE C == CameIn(p)
               L == LeftIn(p)
               D == CameIn(p)'
               M == LeftIn(p)'
    <2>1. ASSUME NEW c \in Credits \ {d}
          PROVE  D[c] = C[c] /\ M[c] = L[c]
        <3>1. credit'[c] = credit[c]
            OBVIOUS
        <3>2. InPool(c, p)' <=> InPool(c, p)
            BY <3>1 DEF InPool, PaymentsKept
        <3>3. InPool(c, p) => Amount(c)' = Amount(c)
            BY DEF InPool, PaymentsKept
        <3> QED
            BY <3>1, <3>2, <3>3 DEF CameIn, LeftIn
    <2>2. C[d] = 0 /\ L[d] = 0
        BY DEF CameIn, LeftIn, InPool
    <2>3. D[d] = M[d] /\ D[d] \in Nat
        <3>1. credit'[d].remaining \in Nat
            BY DEF TypeOK, CreditRows
        <3> QED
            BY <3>1 DEF CameIn, LeftIn
    <2>4. \A c \in Credits : C[c] \in Int /\ L[c] \in Int /\ D[c] \in Int /\ M[c] \in Int
        BY <2>1, <2>2, <2>3, PoolSumTypes
    <2>5. PaidBy(p, "semantic")' = PaidBy(p, "semantic")
        BY DEF PaidBy
    <2>6. \A w \in Shifts : PaidBy(p, "semantic")[w] \in Int
        BY PoolSumTypes
    <2> DEFINE Q == PaidBy(p, "semantic")
    <2>7. SumFunctionOnSet(C, Credits) = SumFunctionOnSet(L, Credits) + SumFunctionOnSet(Q, Shifts)
        BY DEF PoolsBalance
    <2> HIDE DEF C, L, D, M, Q
    <2>8. SumFunctionOnSet(D, Credits) = SumFunctionOnSet(C, Credits) + (D[d] - C[d])
        BY <2>1, <2>4, SetsOfCredits, SumChangedAt
    <2>9. SumFunctionOnSet(M, Credits) = SumFunctionOnSet(L, Credits) + (M[d] - L[d])
        BY <2>1, <2>4, SetsOfCredits, SumChangedAt
    <2>10. /\ SumFunctionOnSet(L, Credits) \in Int /\ SumFunctionOnSet(C, Credits) \in Int
           /\ SumFunctionOnSet(Q, Shifts) \in Int
        BY <2>4, <2>6, SetsOfCredits, SetsFinite, SumInt DEF Q
    <2>11. SumFunctionOnSet(D, Credits)
             = SumFunctionOnSet(M, Credits) + SumFunctionOnSet(Q, Shifts)
        BY <2>2, <2>3, <2>7, <2>8, <2>9, <2>10
    <2> QED
        BY <2>5, <2>11 DEF D, M, Q
<1> QED
    BY <1>1, <1>2, <1>3

LEMMA RecordDonationBooks ==
    ASSUME Inv, Books, NEW t \in Sessions, RecordDonation(t)
    PROVE  Books'
<1> DEFINE p == tx[t].payment
           row == [status |-> "held", scope |-> Unrestricted, remaining |-> PaymentAmount[p]]
<1>1. PICK d \in Donations \ Recorded :
          /\ payment' = [payment EXCEPT ![d] = p]
          /\ review' = [review EXCEPT ![d] = "pending"]
          /\ credit' = [credit EXCEPT ![d] = row]
    BY DEF RecordDonation
<1>2. tx[t].op = "intake" /\ tx' = [tx EXCEPT ![t] = Idle] /\ UNCHANGED <<award, retargeted>>
    BY DEF RecordDonation, End
<1>3. TypeOK /\ p \in Payments /\ PaymentAmount[p] \in Nat
    BY <1>2, MoneyTypes DEF Inv, Sound, Books
<1>4. d \in Credits /\ d \notin Grants /\ credit[d].status = "none"
    BY SetsDisjoint DEF Inv, TablesAgree, RowsAgree, Recorded, Credits
<1>5. row \in CreditRows /\ row.status = "held" /\ row.remaining = PaymentAmount[p]
    BY <1>3 DEF CreditRows, Scopes
<1> HIDE DEF p, row
<1>6. TypeOK'
    BY <1>1, <1>2, <1>3, <1>4, <1>5, IdleType DEF TypeOK, Reviews
<1>7. /\ credit'[d] = row /\ payment'[d] = p
      /\ \A c \in Credits \ {d} : credit'[c] = credit[c]
      /\ \A e \in Donations \ {d} : payment'[e] = payment[e]
    BY <1>1, <1>3, <1>4 DEF TypeOK
<1>8. PaymentsKept
    <2> SUFFICES ASSUME NEW c \in Credits, credit[c].status # "none"
                 PROVE  PoolOf(c)' = PoolOf(c) /\ Amount(c)' = Amount(c)
        BY DEF PaymentsKept
    <2>1. c \notin Grants => c \in Donations \ {d}
        BY <1>4 DEF Credits
    <2> QED
        BY <1>7, <2>1 DEF PoolOf, Amount
<1>9. PoolsExclude' /\ PlansOfHeldPools'
    BY <1>2, <1>8, IdleReadsNothing, LocksKept DEF Books
<1>10. PlansStayCovered'
    <2>1. \A c \in Credits : Out(credit[c].status) => credit'[c].remaining = credit[c].remaining
        BY <1>4, <1>7 DEF Out
    <2> QED
        BY <1>2, <1>6, <2>1, IdleReadsNothing, CoverKept DEF Books
<1>11. UnpaidOwesNothing' /\ RemainingMatchesAllocations' /\ PoolsBalance'
    <2>1. credit'[d].remaining = Amount(d)' /\ credit'[d].status # "none"
        BY <1>4, <1>5, <1>7 DEF Amount
    <2> QED
        BY <1>2, <1>4, <1>6, <1>7, <1>8, <2>1, NewCreditBooks DEF Books
<1> QED
    BY <1>6, <1>9, <1>10, <1>11 DEF Books

LEMMA TopUpBooks ==
    ASSUME Inv, Books, NEW g \in Grants, TopUp(g)
    PROVE  Books'
<1> DEFINE row == [status |-> "available", scope |-> GrantOrg[g], remaining |-> GrantAmount[g]]
<1>1. /\ credit[g].status = "none" /\ credit' = [credit EXCEPT ![g] = row]
      /\ UNCHANGED <<payment, review, award, tx, retargeted>>
    BY DEF TopUp
<1>2. TypeOK /\ g \in Credits
    BY DEF Books, Credits
<1>3. row \in CreditRows /\ row.status = "available" /\ row.remaining = Amount(g)'
    BY MoneyTypes DEF CreditRows, Scopes, Amount
<1> HIDE DEF row
<1>4. TypeOK'
    BY <1>1, <1>2, <1>3 DEF TypeOK
<1>5. credit'[g] = row /\ \A c \in Credits \ {g} : credit'[c] = credit[c]
    BY <1>1, <1>2 DEF TypeOK
<1>6. PaymentsKept
    BY <1>1, SamePayments
<1>7. PoolsExclude'
    BY <1>1 DEF Books, PoolsExclude, HoldsPool, Candidates
<1>8. PlansOfHeldPools'
    BY <1>1 DEF Books, PlansOfHeldPools, Candidates, PoolOf
<1>9. PlansStayCovered'
    <2> SUFFICES ASSUME NEW u \in Sessions, NEW i \in 1..2, tx[u].op = "award",
                        i < tx[u].at, NEW c \in Credits
                 PROVE  tx[u].plans[i][c] <= credit'[c].remaining
        BY <1>1 DEF PlansStayCovered
    <2>1. CASE c = g
        <3>1. tx[u].plans[i][c] = 0
            BY <1>1, <2>1 DEF Inv, Sound, Out
        <3>2. credit'[c].remaining \in Nat
            BY <1>4 DEF TypeOK, CreditRows
        <3> QED
            BY <3>1, <3>2
    <2>2. CASE c # g
        BY <1>5, <2>2 DEF Books, PlansStayCovered
    <2> QED
        BY <2>1, <2>2
<1>10. UnpaidOwesNothing' /\ RemainingMatchesAllocations' /\ PoolsBalance'
    <2>1. credit'[g].remaining = Amount(g)' /\ credit'[g].status # "none"
        BY <1>3, <1>5
    <2> QED
        BY <1>1, <1>2, <1>4, <1>5, <1>6, <2>1, NewCreditBooks DEF Books
<1> QED
    BY <1>4, <1>7, <1>8, <1>9, <1>10 DEF Books

\* A decision moves no money.
LEMMA DecideBooks ==
    ASSUME Inv, Books, NEW t \in Sessions, NEW D \in SUBSET Donations,
           NEW target \in [D -> Scopes], NEW status \in {"manual", "policy"},
           \A d \in D : review[d] # "none",
           Decide(D, target, status), End(t), UNCHANGED <<payment, award>>
    PROVE  Books'
<1>1. TypeOK /\ D \subseteq Credits
    BY DEF Books, Credits
<1>2. /\ credit' = [c \in Credits |-> IF c \in D THEN Released(target, c) ELSE credit[c]]
      /\ review' = [d \in Donations |-> IF d \in D THEN status ELSE review[d]]
      /\ retargeted' = retargeted \cup {d \in D : review[d] # "pending"}
    BY DEF Decide
<1>3. \A d \in D : /\ Released(target, d) \in CreditRows
                   /\ Released(target, d).status = "available"
                   /\ Released(target, d).remaining = credit[d].remaining
    <2> SUFFICES ASSUME NEW d \in D
                 PROVE  /\ Released(target, d) \in CreditRows
                        /\ Released(target, d).status = "available"
                        /\ Released(target, d).remaining = credit[d].remaining
        OBVIOUS
    <2>1. credit[d] \in CreditRows /\ target[d] \in Scopes
        BY <1>1 DEF TypeOK
    <2> QED
        BY <2>1 DEF Released, CreditRows
<1>4. TypeOK'
    <2>1. tx' \in [Sessions -> Transactions]
        BY <1>1, IdleType DEF TypeOK, End
    <2>2. credit' \in [Credits -> CreditRows]
        BY <1>1, <1>2, <1>3 DEF TypeOK
    <2>3. review' \in [Donations -> Reviews] /\ retargeted' \subseteq Donations
        BY <1>1, <1>2 DEF TypeOK, Reviews
    <2> QED
        BY <1>1, <2>1, <2>2, <2>3 DEF TypeOK
<1>5. \A c \in Credits : /\ credit'[c].remaining = credit[c].remaining
                         /\ credit'[c].status = "none" <=> credit[c].status = "none"
    <2> SUFFICES ASSUME NEW c \in Credits
                 PROVE  /\ credit'[c].remaining = credit[c].remaining
                        /\ credit'[c].status = "none" <=> credit[c].status = "none"
        OBVIOUS
    <2>1. c \in D => credit[c].status # "none"
        BY DEF Inv, TablesAgree, RowsAgree
    <2> QED
        BY <1>2, <1>3, <2>1
<1>6. PaymentsKept
    BY SamePayments
<1>7. tx' = [tx EXCEPT ![t] = Idle] /\ HasReadNothing(Idle)
    BY IdleReadsNothing DEF End
<1>8. PoolsExclude' /\ PlansOfHeldPools'
    BY <1>6, <1>7, LocksKept DEF Books
<1>9. PlansStayCovered'
    BY <1>4, <1>5, <1>7, CoverKept DEF Books
<1>10. UnpaidOwesNothing' /\ RemainingMatchesAllocations' /\ PoolsBalance'
    BY <1>5, <1>6, SumsKept DEF Books
<1> QED
    BY <1>4, <1>8, <1>9, <1>10 DEF Books

LEMMA CommitManualBooks ==
    ASSUME Inv, Books, NEW t \in Sessions, CommitManual(t)
    PROVE  Books'
<1> DEFINE D == tx[t].reviews
<1>1. PICK s \in Scopes : Decide(D, [d \in D |-> s], "manual")
    BY DEF CommitManual
<1>2. End(t) /\ UNCHANGED <<payment, award>>
    BY DEF CommitManual
<1>3. D \in SUBSET Donations /\ \A d \in D : review[d] # "none"
    BY DEF Inv, Shapes, TxShape, Sound
<1>4. [d \in D |-> s] \in [D -> Scopes]
    OBVIOUS
<1> HIDE DEF D
<1> QED
    BY <1>1, <1>2, <1>3, <1>4, DecideBooks

LEMMA CommitPolicyBooks ==
    ASSUME Inv, Books, NEW t \in Sessions, CommitPolicy(t)
    PROVE  Books'
<1> DEFINE due == {d \in tx[t].reviews : AwaitsReview(d)}
<1>1. End(t) /\ UNCHANGED <<payment, award>>
    BY DEF CommitPolicy
<1>2. tx[t].reviews \in SUBSET Donations /\ \A d \in tx[t].reviews : review[d] # "none"
    BY DEF Inv, Shapes, TxShape, Sound
<1>3. due \in SUBSET Donations /\ \A d \in due : review[d] # "none"
    BY <1>2
<1>4. CASE PolicyTargets = {}
    BY <1>1, <1>4, QuietEndBooks DEF CommitPolicy
<1>5. CASE PolicyTargets # {}
    <2>1. PICK target \in [due -> PolicyTargets] : Decide(due, target, "policy")
        BY <1>5 DEF CommitPolicy
    <2> HIDE DEF due
    <2>2. target \in [due -> Scopes]
        BY EventTypes DEF Scopes
    <2> QED
        BY <1>1, <1>3, <2>1, <2>2, DecideBooks
<1> QED
    BY <1>4, <1>5

(***************************************************************************)
(* An award reads a pool: it has waited until no other award holds it, and *)
(* its plan is covered by what it reads.                                   *)
(***************************************************************************)

LEMMA ReadPoolBooks ==
    ASSUME Inv, Books, NEW t \in Sessions, ReadPool(t)
    PROVE  Books'
<1> DEFINE w == tx[t].shift
           i == tx[t].at
           p == Candidates(w)[i]
           P == Plan(p, w)
           Q == [tx[t].plans EXCEPT ![i] = P]
           x == [[tx[t] EXCEPT !.plans = Q] EXCEPT !.at = i + 1]
<1>1. /\ tx[t].op = "award" /\ i \in 1..2 /\ PoolFree(p)
      /\ tx' = [tx EXCEPT ![t].at = i + 1, ![t].plans[i] = P]
      /\ UNCHANGED <<payment, review, credit, award, retargeted>>
    BY DEF ReadPool
<1>2. TypeOK /\ tx[t] \in Transactions /\ tx[t].plans \in [1..2 -> [Credits -> Nat]]
    BY DEF Books, TypeOK, Transactions
<1>3. w \in Shifts
    BY <1>1 DEF Inv, Sound
<1>4. /\ P \in [Credits -> Nat] /\ \A c \in Credits : P[c] <= credit[c].remaining
      /\ \A c \in Credits : P[c] # 0 => PoolOf(c) = p
    <2>1. \A c \in Credits : P[c] # 0 => PoolOf(c) = p
        BY DEF Plan, EligibleIn
    <2> QED
        BY <1>2, <1>3, <2>1, PlanType
<1> HIDE DEF P
<1>5. Q \in [1..2 -> [Credits -> Nat]]
    BY <1>1, <1>2, <1>4
<1>6. /\ Q[i] = P /\ \A j \in 1..2 : j # i => Q[j] = tx[t].plans[j]
    BY <1>1, <1>2
<1>7. /\ x.op = "award" /\ x.at = i + 1 /\ x.shift = w /\ x.plans = Q
      /\ tx' = [tx EXCEPT ![t] = x]
    BY <1>1, <1>2 DEF TypeOK, Transactions
<1>8. x \in Transactions
    <2> HIDE DEF Q
    <2>1. [tx[t] EXCEPT !.plans = Q] \in Transactions
        BY <1>2, <1>5 DEF Transactions
    <2>2. i + 1 \in 0..3
        BY <1>1
    <2> QED
        BY <2>1, <2>2, PoolsReadType
<1> HIDE DEF x, Q, i, w
<1>9. tx'[t] = x /\ \A u \in Sessions \ {t} : tx'[u] = tx[u]
    BY <1>2, <1>7 DEF TypeOK
<1>10. TypeOK'
    BY <1>1, <1>2, <1>7, <1>8 DEF TypeOK
<1>11. PoolsExclude'
    <2>1. ASSUME NEW q, HoldsPool(t, q)' PROVE HoldsPool(t, q) \/ q = p
        <3>1. PICK j \in 1..2 : j < i + 1 /\ Candidates(w)[j] = q
            BY <1>7, <1>9, <2>1 DEF HoldsPool, Candidates
        <3>2. j = i \/ j < i
            BY <1>1, <3>1
        <3>3. CASE j = i
            BY <3>1, <3>3
        <3>4. CASE j < i
            BY <1>1, <3>1, <3>4 DEF HoldsPool, i, w
        <3> QED
            BY <3>2, <3>3, <3>4
    <2>2. ASSUME NEW q, NEW u \in Sessions \ {t}, HoldsPool(u, q)' PROVE HoldsPool(u, q)
        BY <1>9, <2>2 DEF HoldsPool, Candidates
    <2>3. ASSUME NEW u \in Sessions, NEW v \in Sessions, NEW q \in Pools,
                 HoldsPool(u, q)', HoldsPool(v, q)'
          PROVE  u = v
        <3>1. CASE u # t /\ v # t
            BY <2>2, <2>3, <3>1 DEF Books, PoolsExclude
        <3>2. CASE u = t /\ v # t
            BY <1>1, <2>1, <2>2, <2>3, <3>2 DEF Books, PoolsExclude, PoolFree
        <3>3. CASE u # t /\ v = t
            BY <1>1, <2>1, <2>2, <2>3, <3>3 DEF Books, PoolsExclude, PoolFree
        <3> QED
            BY <3>1, <3>2, <3>3
    <2> QED
        BY <2>3 DEF PoolsExclude
<1>12. PlansOfHeldPools'
    <2> SUFFICES ASSUME NEW u \in Sessions, tx'[u].op = "award", NEW j \in 1..2,
                        NEW c \in Credits, tx'[u].plans[j][c] # 0
                 PROVE  j < tx'[u].at /\ PoolOf(c) = Candidates(tx'[u].shift)[j]
        BY <1>1 DEF PlansOfHeldPools, Candidates, PoolOf
    <2>1. CASE u # t
        BY <1>9, <2>1 DEF Books, PlansOfHeldPools
    <2>2. CASE u = t /\ j = i
        <3>1. P[c] # 0 /\ i < i + 1
            <4>1. x.plans[i] = P /\ x.plans[i][c] # 0
                BY <1>6, <1>7, <1>9, <2>2
            <4>2. i < i + 1
                BY <1>1
            <4> QED
                BY <4>1, <4>2
        <3>2. PoolOf(c) = Candidates(w)[i]
            BY <1>4, <3>1
        <3> HIDE DEF p
        <3> QED
            BY <1>7, <1>9, <2>2, <3>1, <3>2
    <2>3. CASE u = t /\ j # i
        <3>1. tx[t].plans[j][c] # 0
            BY <1>6, <1>7, <1>9, <2>3
        <3>2. j < i /\ PoolOf(c) = Candidates(w)[j]
            BY <1>1, <3>1 DEF Books, PlansOfHeldPools, i, w
        <3>3. j < i + 1
            BY <1>1, <3>2
        <3> HIDE DEF p
        <3> QED
            BY <1>7, <1>9, <2>3, <3>2, <3>3
    <2> QED
        BY <2>1, <2>2, <2>3
<1>13. PlansStayCovered'
    <2> SUFFICES ASSUME NEW u \in Sessions, NEW j \in 1..2, tx'[u].op = "award",
                        j < tx'[u].at, NEW c \in Credits
                 PROVE  tx'[u].plans[j][c] <= credit[c].remaining
        BY <1>1 DEF PlansStayCovered
    <2>1. CASE u # t
        BY <1>9, <2>1 DEF Books, PlansStayCovered
    <2>2. CASE u = t /\ j = i
        BY <1>4, <1>6, <1>7, <1>9, <2>2
    <2>3. CASE u = t /\ j # i
        <3>1. j < i
            BY <1>1, <1>7, <1>9, <2>3
        <3>2. tx[t].plans[j][c] <= credit[c].remaining
            BY <1>1, <3>1 DEF Books, PlansStayCovered, i
        <3> QED
            BY <1>6, <1>7, <1>9, <2>3, <3>2
    <2> QED
        BY <2>1, <2>2, <2>3
<1>14. UnpaidOwesNothing' /\ RemainingMatchesAllocations' /\ PoolsBalance'
    BY <1>1, SamePayments, SumsKept DEF Books
<1> QED
    BY <1>10, <1>11, <1>12, <1>13, <1>14 DEF Books

(***************************************************************************)
(* Payments to shifts.                                                     *)
(***************************************************************************)

\* The whole of what an award from credits writes.
LEMMA CreditsPay ==
    ASSUME Inv, Books, NEW t \in Sessions, AwardFromCredits(t)
    PROVE  /\ tx[t].op = "award" /\ tx[t].at = 3
           /\ \E i \in 1..2 : \E x \in Awards :
                 /\ x.mode = "semantic" /\ x.pool = Candidates(tx[t].shift)[i]
                 /\ x.debit = Planned(tx[t].plans[i]) /\ x.from = tx[t].plans[i]
                 /\ award' = [award EXCEPT ![tx[t].shift] = x]
                 /\ credit' = [c \in Credits |->
                        IF tx[t].plans[i][c] > 0 THEN Drawn(c, tx[t].plans[i][c])
                                                 ELSE credit[c]]
<1> DEFINE w == tx[t].shift
           funded == [i \in 1..2 |-> Planned(tx[t].plans[i])]
           i == Selected(funded, ShiftAmount[w])
           plan == tx[t].plans[i]
           donors == {d \in Donations : plan[d] > 0}
           n == IF Cardinality(donors) = 1 THEN CHOOSE d \in donors : TRUE ELSE None
           x == [mode |-> "semantic", pool |-> Candidates(w)[i], debit |-> funded[i],
                 donation |-> n, from |-> plan]
<1>1. /\ award' = [award EXCEPT ![w] = x]
      /\ credit' = [c \in Credits |-> IF plan[c] > 0 THEN Drawn(c, plan[c]) ELSE credit[c]]
      /\ tx[t].op = "award" /\ tx[t].at = 3
    BY DEF AwardFromCredits
<1>2. i \in 1..2
    BY DEF Selected
<1>3. w \in Shifts
    BY <1>1 DEF Inv, Sound
<1> HIDE DEF i
<1>4. plan \in [Credits -> Nat] /\ funded[i] = Planned(plan)
    BY <1>2, TypeFacts DEF Books
<1>5. n \in Donations \cup {None}
    <2>1. CASE Cardinality(donors) = 1
        <3>1. donors # {}
            BY <2>1, FS_EmptySet
        <3>2. (CHOOSE d \in donors : TRUE) \in donors
            BY <3>1
        <3> QED
            BY <2>1, <3>2
    <2>2. CASE Cardinality(donors) # 1
        BY <2>2
    <2> QED
        BY <2>1, <2>2
<1> HIDE DEF n, plan, funded
<1>6. funded[i] \in Nat
    BY <1>4, PlannedType
<1>7. Candidates(w)[i] \in Pools
    BY <1>2, <1>3, CandidateIsPool
<1>8. x \in Awards
    BY <1>4, <1>5, <1>6, <1>7 DEF Awards
<1>9. /\ x.mode = "semantic" /\ x.pool = Candidates(w)[i]
      /\ x.debit = Planned(plan) /\ x.from = plan
    BY <1>4
<1> HIDE DEF x
<1> QED
    BY <1>1, <1>2, <1>8, <1>9 DEF plan

\* A draw takes from a credit what it is meant to take, if that is there.
LEMMA DrawnTakes ==
    ASSUME NEW c \in Credits, credit[c] \in CreditRows, NEW n \in Nat,
           n <= credit[c].remaining
    PROVE  /\ Drawn(c, n) \in CreditRows
           /\ Drawn(c, n).remaining = credit[c].remaining - n
<1> DEFINE left == AtLeast0(credit[c].remaining - n)
           s == IF left = 0 THEN "spent"
                ELSE IF left < Amount(c) THEN "partially_spent" ELSE credit[c].status
<1>1. credit[c].remaining \in Nat
    BY DEF CreditRows
<1>2. left \in Nat /\ left = credit[c].remaining - n
    BY <1>1 DEF AtLeast0
<1>3. s \in {"none", "held", "available", "partially_spent", "spent"}
    BY DEF CreditRows
<1>4. Drawn(c, n) = [[credit[c] EXCEPT !.remaining = left] EXCEPT !.status = s]
    BY DEF Drawn, CreditRows
<1> HIDE DEF left, s
<1>5. [credit[c] EXCEPT !.remaining = left] \in CreditRows
    BY <1>2 DEF CreditRows
<1>6. Drawn(c, n) \in CreditRows
    BY <1>3, <1>4, <1>5 DEF CreditRows
<1>7. Drawn(c, n).remaining = left
    BY <1>4 DEF CreditRows
<1> QED
    BY <1>2, <1>6, <1>7

LEMMA AwardFromCreditsBooks ==
    ASSUME Inv, Books, NEW t \in Sessions, AwardFromCredits(t)
    PROVE  Books'
<1> DEFINE w == tx[t].shift
<1>1. PICK i \in 1..2, x \in Awards :
          /\ x.mode = "semantic" /\ x.pool = Candidates(w)[i]
          /\ x.debit = Planned(tx[t].plans[i]) /\ x.from = tx[t].plans[i]
          /\ award' = [award EXCEPT ![w] = x]
          /\ credit' = [c \in Credits |->
                 IF tx[t].plans[i][c] > 0 THEN Drawn(c, tx[t].plans[i][c])
                                          ELSE credit[c]]
    BY CreditsPay
<1> DEFINE plan == tx[t].plans[i]
           p0 == Candidates(w)[i]
<1>2. /\ tx[t].op = "award" /\ tx[t].at = 3 /\ tx' = [tx EXCEPT ![t] = Idle]
      /\ UNCHANGED <<payment, review, retargeted>>
    BY CreditsPay DEF AwardFromCredits, End
<1>3. TypeOK /\ plan \in [Credits -> Nat]
    BY TypeFacts DEF Books
<1>4. /\ w \in Shifts /\ award'[w] = x
      /\ \A v \in Shifts \ {w} : award'[v] = award[v]
    BY <1>1, <1>2, PaysItsShift
<1>5. award[w] = Unpaid
    BY <1>2, <1>4 DEF Inv, Sound, Books, UnpaidOwesNothing
<1>6. \A c \in Credits : plan[c] <= credit[c].remaining
    <2>1. i < tx[t].at
        BY <1>2
    <2> QED
        BY <1>2, <2>1 DEF Books, PlansStayCovered
<1>7. \A c \in Credits : plan[c] # 0 => Out(credit[c].status) /\ PoolOf(c) = p0
    BY <1>2 DEF Inv, Sound, Books, PlansOfHeldPools
<1>8. ASSUME NEW c \in Credits
      PROVE  /\ credit'[c] \in CreditRows
             /\ credit'[c].remaining = credit[c].remaining - plan[c]
             /\ credit'[c].status = "none" <=> credit[c].status = "none"
    <2>1. credit[c] \in CreditRows /\ credit[c].remaining \in Nat
        BY <1>3 DEF TypeOK, CreditRows
    <2>2. CASE plan[c] > 0
        <3>1. credit'[c] = Drawn(c, plan[c]) /\ plan[c] # 0
            BY <1>1, <2>2
        <3>2. plan[c] \in Nat /\ plan[c] <= credit[c].remaining
            BY <1>3, <1>6
        <3>3. Drawn(c, plan[c]) \in CreditRows
              /\ Drawn(c, plan[c]).remaining = credit[c].remaining - plan[c]
            BY <2>1, <3>2, DrawnTakes
        <3>4. CreditShape(credit[c]) /\ Out(credit[c].status)
            BY <1>7, <3>1 DEF Inv, Shapes
        <3> HIDE DEF plan
        <3>5. Out(Drawn(c, plan[c]).status)
            BY <3>4, DrawnStaysOut
        <3> QED
            BY <3>1, <3>3, <3>4, <3>5 DEF Out
    <2>3. CASE ~(plan[c] > 0)
        <3>1. credit'[c] = credit[c]
            BY <1>1, <2>3
        <3>2. plan[c] = 0
            BY <1>3, <2>3
        <3> QED
            BY <2>1, <3>1, <3>2
    <2> QED
        BY <2>2, <2>3
<1> HIDE DEF w, plan, p0
<1>9. TypeOK'
    <2>1. credit' \in [Credits -> CreditRows]
        BY <1>1, <1>8
    <2>2. award' \in [Shifts -> Awards]
        BY <1>1, <1>3, <1>4 DEF TypeOK
    <2>3. tx' \in [Sessions -> Transactions]
        BY <1>2, <1>3, IdleType DEF TypeOK
    <2> QED
        BY <1>2, <1>3, <2>1, <2>2, <2>3 DEF TypeOK
<1>10. PaymentsKept
    BY <1>2, SamePayments
<1>11. PoolsExclude' /\ PlansOfHeldPools'
    BY <1>2, <1>10, IdleReadsNothing, LocksKept DEF Books
<1>12. PlansStayCovered'
    <2> SUFFICES ASSUME NEW u \in Sessions, NEW j \in 1..2, tx'[u].op = "award",
                        j < tx'[u].at, NEW c \in Credits
                 PROVE  tx'[u].plans[j][c] <= credit'[c].remaining
        BY DEF PlansStayCovered
    <2>1. u # t /\ tx'[u] = tx[u]
        <3>1. tx'[t] = Idle
            BY <1>2, <1>3 DEF TypeOK
        <3>2. u # t
            BY <3>1 DEF Idle
        <3> QED
            BY <1>2, <1>3, <3>2 DEF TypeOK
    <2>2. tx[u].plans[j][c] \in Nat /\ credit[c].remaining \in Nat /\ plan[c] \in Nat
          /\ credit'[c].remaining \in Nat
        BY <1>3, <1>8, TypeFacts DEF CreditRows
    <2>3. CASE plan[c] = 0
        <3>1. tx[u].plans[j][c] <= credit[c].remaining
            BY <2>1 DEF Books, PlansStayCovered
        <3> QED
            BY <1>8, <2>1, <2>2, <2>3, <3>1
    <2>4. CASE plan[c] # 0
        <3>1. HoldsPool(t, p0)
            BY <1>2 DEF HoldsPool, p0, w
        <3>2. ASSUME tx[u].plans[j][c] # 0 PROVE FALSE
            <4>1. PoolOf(c) = Candidates(tx[u].shift)[j]
                BY <2>1, <3>2 DEF Books, PlansOfHeldPools
            <4>2. HoldsPool(u, p0)
                BY <1>7, <2>1, <2>4, <4>1 DEF HoldsPool
            <4>3. p0 \in Pools
                BY <1>4, CandidateIsPool DEF p0
            <4> QED
                BY <2>1, <3>1, <4>2, <4>3 DEF Books, PoolsExclude
        <3> QED
            BY <2>1, <2>2, <3>2
    <2> QED
        BY <2>3, <2>4
<1>13. UnpaidOwesNothing'
    <2>1. \A v \in Shifts : award'[v].mode = "none" => award'[v] = Unpaid
        BY <1>1, <1>4 DEF Books, UnpaidOwesNothing
    <2> QED
        BY <2>1 DEF UnpaidOwesNothing, Unpaid, NoCredits
<1>14. RemainingMatchesAllocations'
    <2> SUFFICES ASSUME NEW c \in Credits, credit'[c].status # "none"
                 PROVE  credit'[c].remaining
                          = Amount(c)' - SumFunction([v \in Shifts |-> award'[v].from[c]])
        BY DEF RemainingMatchesAllocations
    <2> DEFINE f == [v \in Shifts |-> award[v].from[c]]
               g == [v \in Shifts |-> award'[v].from[c]]
    <2>1. credit[c].status # "none"
        BY <1>8
    <2>2. credit[c].remaining = Amount(c) - SumFunction(f)
        BY <2>1 DEF Books, RemainingMatchesAllocations
    <2>3. \A v \in Shifts : f[v] \in Int /\ g[v] \in Int
        <3>1. \A v \in Shifts : award'[v] \in Awards
            BY <1>9 DEF TypeOK
        <3> QED
            BY <1>3, <3>1, TypeFacts DEF Awards
    <2>4. \A v \in Shifts \ {w} : g[v] = f[v]
        BY <1>4
    <2>5. f[w] = 0 /\ g[w] = plan[c]
        BY <1>1, <1>4, <1>5 DEF Unpaid, NoCredits, plan
    <2>6. SumFunction(f) = SumFunctionOnSet(f, Shifts)
          /\ SumFunction(g) = SumFunctionOnSet(g, Shifts)
        BY DEF SumFunction
    <2> HIDE DEF f, g
    <2>7. SumFunctionOnSet(g, Shifts) = SumFunctionOnSet(f, Shifts) + (g[w] - f[w])
        BY <1>4, <2>3, <2>4, SetsFinite, SumChangedAt
    <2>8. SumFunctionOnSet(f, Shifts) \in Int
        BY <2>3, SetsFinite, SumInt
    <2>9. Amount(c) \in Nat /\ Amount(c)' = Amount(c) /\ plan[c] \in Nat
        BY <1>3, <1>10, <2>1, MoneyKnown DEF PaymentsKept
    <2>10. credit'[c].remaining = credit[c].remaining - plan[c]
        BY <1>8
    <2>11. credit'[c].remaining = Amount(c)' - SumFunction(g)
        BY <2>2, <2>5, <2>6, <2>7, <2>8, <2>9, <2>10
    <2> QED
        BY <2>11 DEF g
<1>15. PoolsBalance'
    <2> SUFFICES ASSUME NEW p \in Pools
                 PROVE  SumFunctionOnSet(CameIn(p)', Credits)
                          = SumFunctionOnSet(LeftIn(p)', Credits)
                              + SumFunctionOnSet(PaidBy(p, "semantic")', Shifts)
        BY DEF PoolsBalance
    <2> DEFINE C == CameIn(p)
               L == LeftIn(p)
               M == LeftIn(p)'
               Q == PaidBy(p, "semantic")
               R == PaidBy(p, "semantic")'
    <2>1. \A c \in Credits : InPool(c, p)' <=> InPool(c, p)
        BY <1>8, <1>10 DEF InPool, PaymentsKept
    <2>2. CameIn(p)' = C
        BY <1>10, <2>1 DEF CameIn, InPool, PaymentsKept
    <2>3. \A c \in Credits : M[c] = IF InPool(c, p) THEN credit[c].remaining - plan[c] ELSE 0
        BY <1>8, <2>1 DEF LeftIn
    <2>4. \A c \in Credits : L[c] = IF InPool(c, p) THEN credit[c].remaining ELSE 0
        BY DEF LeftIn
    <2>5. \A c \in Credits : plan[c] # 0 => (InPool(c, p) <=> p = p0)
        BY <1>7 DEF InPool, Out
    <2>6. \A v \in Shifts \ {w} : R[v] = Q[v]
        BY <1>4 DEF PaidBy
    <2>7. Q[w] = 0 /\ R[w] = IF p = p0 THEN Planned(plan) ELSE 0
        <3>1. Q[w] = 0
            BY <1>4, <1>5, SetsDisjoint DEF PaidBy, Unpaid
        <3> QED
            BY <1>1, <1>4, <3>1 DEF PaidBy, p0, plan
    <2>8. \A c \in Credits : credit[c].remaining \in Nat /\ plan[c] \in Nat
        BY <1>3, TypeFacts
    <2>9. \A c \in Credits : C[c] \in Int /\ L[c] \in Int
        BY <1>3, PoolSumTypes
    <2>10. \A c \in Credits : M[c] \in Int
        BY <2>3, <2>8
    <2>11. Planned(plan) = SumFunctionOnSet(plan, Credits) /\ Planned(plan) \in Int
        BY <1>3, PlannedType DEF Planned
    <2>12. \A v \in Shifts : Q[v] \in Int /\ R[v] \in Int
        BY <1>3, <2>6, <2>7, <2>11, PoolSumTypes
    <2>13. SumFunctionOnSet(C, Credits) = SumFunctionOnSet(L, Credits) + SumFunctionOnSet(Q, Shifts)
        BY DEF Books, PoolsBalance
    <2> HIDE DEF C, L, M, Q, R
    <2>14. SumFunctionOnSet(R, Shifts) = SumFunctionOnSet(Q, Shifts) + (R[w] - Q[w])
        BY <1>4, <2>6, <2>12, SetsFinite, SumChangedAt
    <2>15. /\ SumFunctionOnSet(Q, Shifts) \in Int /\ SumFunctionOnSet(L, Credits) \in Int
           /\ SumFunctionOnSet(M, Credits) \in Int
        BY <2>9, <2>10, <2>12, SetsFinite, SetsOfCredits, SumInt
    <2>16. CASE p = p0
        <3>1. \A c \in Credits : L[c] = M[c] + plan[c]
            BY <2>3, <2>4, <2>5, <2>8, <2>16
        <3>2. \A c \in Credits : M[c] \in Int /\ plan[c] \in Int /\ L[c] = M[c] + plan[c]
            BY <2>8, <2>10, <3>1
        <3>3. SumFunctionOnSet(L, Credits)
                = SumFunctionOnSet(M, Credits) + SumFunctionOnSet(plan, Credits)
            BY <3>2, SetsOfCredits, SumPlus
        <3>4. SumFunctionOnSet(C, Credits)
                = SumFunctionOnSet(M, Credits) + SumFunctionOnSet(R, Shifts)
            BY <2>7, <2>11, <2>13, <2>14, <2>15, <2>16, <3>3
        <3> QED
            BY <2>2, <3>4 DEF M, R
    <2>17. CASE p # p0
        <3>1. \A c \in Credits : M[c] = L[c]
            BY <2>3, <2>4, <2>5, <2>8, <2>17
        <3>2. SumFunctionOnSet(M, Credits) = SumFunctionOnSet(L, Credits)
            BY <3>1, SetsOfCredits, SumSame
        <3>3. SumFunctionOnSet(C, Credits)
                = SumFunctionOnSet(M, Credits) + SumFunctionOnSet(R, Shifts)
            BY <2>7, <2>13, <2>14, <2>15, <2>17, <3>2
        <3> QED
            BY <2>2, <3>3 DEF M, R
    <2> QED
        BY <2>16, <2>17
<1> QED
    BY <1>9, <1>11, <1>12, <1>13, <1>14, <1>15 DEF Books

\* The whole of what an award from a pool's balance writes.
LEMMA BalancePays ==
    ASSUME Inv, Books, NEW t \in Sessions, AwardFromBalance(t)
    PROVE  \E x \in Awards :
              /\ x.mode = "legacy" /\ x.from = NoCredits
              /\ award' = [award EXCEPT ![tx[t].shift] = x]
<1> DEFINE w == tx[t].shift
           i == Selected([j \in 1..2 |-> Balance(Candidates(w)[j])], ShiftAmount[w])
           p == Candidates(w)[i]
           debit == Least(ShiftAmount[w], AtLeast0(Balance(p)))
           oldest == {d \in WithRemaining(p) : \A e \in WithRemaining(p) : Age[d] <= Age[e]}
           n == IF debit > 0 /\ oldest # {} THEN CHOOSE d \in oldest : TRUE ELSE None
           x == [mode |-> "legacy", pool |-> p, debit |-> debit, donation |-> n,
                 from |-> NoCredits]
<1>1. award' = [award EXCEPT ![w] = x] /\ tx[t].op = "award"
    BY DEF AwardFromBalance
<1>2. i \in 1..2 /\ w \in Shifts
    <2>1. i \in 1..2
        BY DEF Selected
    <2>2. w \in Shifts
        BY <1>1 DEF Inv, Sound
    <2> QED
        BY <2>1, <2>2
<1> HIDE DEF i, w
<1>3. p \in Pools
    BY <1>2, CandidateIsPool
<1> HIDE DEF p
<1>4. debit \in Nat
    <2>1. Balance(p) \in Int /\ ShiftAmount[w] \in Nat
        BY <1>2, <1>3, BalanceType, MoneyTypes DEF Books
    <2> QED
        BY <2>1 DEF Least, AtLeast0
<1>5. n \in Donations \cup {None}
    <2>1. oldest \subseteq Donations
        BY DEF WithRemaining, Recorded
    <2> HIDE DEF oldest
    <2>2. oldest # {} => (CHOOSE d \in oldest : TRUE) \in oldest
        OBVIOUS
    <2> QED
        BY <2>1, <2>2
<1> HIDE DEF debit, n
<1>6. x \in Awards /\ x.mode = "legacy" /\ x.from = NoCredits
    BY <1>3, <1>4, <1>5, NoCreditsType DEF Awards
<1> HIDE DEF x
<1> QED
    BY <1>1, <1>6 DEF w

\* It touches no credit.
LEMMA AwardFromBalanceBooks ==
    ASSUME Inv, Books, NEW t \in Sessions, AwardFromBalance(t)
    PROVE  Books'
<1> DEFINE w == tx[t].shift
<1>1. PICK x \in Awards : /\ x.mode = "legacy" /\ x.from = NoCredits
                          /\ award' = [award EXCEPT ![w] = x]
    BY BalancePays
<1>2. /\ tx[t].op = "award" /\ tx' = [tx EXCEPT ![t] = Idle]
      /\ UNCHANGED <<payment, review, credit, retargeted>>
    BY DEF AwardFromBalance, End
<1>3. w \in Shifts /\ award'[w] = x /\ \A v \in Shifts \ {w} : award'[v] = award[v]
    BY <1>1, <1>2, PaysItsShift
<1>4. TypeOK /\ award[w] = Unpaid
    BY <1>2, <1>3 DEF Inv, Sound, Books, UnpaidOwesNothing
<1> HIDE DEF w
<1>5. TypeOK'
    <2>1. award' \in [Shifts -> Awards] /\ tx' \in [Sessions -> Transactions]
        BY <1>1, <1>2, <1>3, <1>4, IdleType DEF TypeOK
    <2> QED
        BY <1>2, <1>4, <2>1 DEF TypeOK
<1>6. PaymentsKept
    BY <1>2, SamePayments
<1>7. PoolsExclude' /\ PlansOfHeldPools'
    BY <1>2, <1>6, IdleReadsNothing, LocksKept DEF Books
<1>8. PlansStayCovered'
    BY <1>2, <1>5, IdleReadsNothing, CoverKept DEF Books
<1>9. UnpaidOwesNothing'
    <2>1. \A v \in Shifts : award'[v].mode = "none" => award'[v] = Unpaid
        BY <1>1, <1>3 DEF Books, UnpaidOwesNothing
    <2> QED
        BY <2>1 DEF UnpaidOwesNothing, Unpaid, NoCredits
<1>10. \A v \in Shifts : award'[v].from = award[v].from
    BY <1>1, <1>3, <1>4 DEF Unpaid
<1>11. RemainingMatchesAllocations'
    BY <1>2, <1>6, <1>10 DEF Books, RemainingMatchesAllocations, PaymentsKept
<1>12. ASSUME NEW p \in Pools
       PROVE  /\ CameIn(p)' = CameIn(p) /\ LeftIn(p)' = LeftIn(p)
              /\ PaidBy(p, "semantic")' = PaidBy(p, "semantic")
    <2>1. CameIn(p)' = CameIn(p) /\ LeftIn(p)' = LeftIn(p)
        BY <1>2 DEF CameIn, LeftIn, InPool, PoolOf, Amount
    <2>2. PaidBy(p, "semantic")' = PaidBy(p, "semantic")
        BY <1>1, <1>3, <1>4 DEF PaidBy, Unpaid
    <2> QED
        BY <2>1, <2>2
<1>13. PoolsBalance'
    BY <1>12 DEF Books, PoolsBalance
<1> QED
    BY <1>5, <1>7, <1>8, <1>9, <1>11, <1>13 DEF Books

(***************************************************************************)
(* The books in every state, and what they say.                            *)
(***************************************************************************)

LEMMA InitBooks == Init => Books
<1> SUFFICES ASSUME Init PROVE Books
    OBVIOUS
<1>1. TypeOK
    BY NoCreditsType, IdleType DEF Init, TypeOK, Reviews, CreditRows, Scopes, Awards, Unpaid
<1>2. PoolsExclude
    BY DEF Init, PoolsExclude, HoldsPool, Idle
<1>3. \A t \in Sessions : tx[t].op # "award"
    BY DEF Init, Idle
<1>4. PlansOfHeldPools /\ PlansStayCovered
    BY <1>3 DEF PlansOfHeldPools, PlansStayCovered
<1>5. UnpaidOwesNothing /\ RemainingMatchesAllocations
    BY DEF Init, UnpaidOwesNothing, RemainingMatchesAllocations
<1>6. PoolsBalance
    <2> SUFFICES ASSUME NEW p \in Pools
                 PROVE  SumFunctionOnSet(CameIn(p), Credits)
                          = SumFunctionOnSet(LeftIn(p), Credits)
                              + SumFunctionOnSet(PaidBy(p, "semantic"), Shifts)
        BY DEF PoolsBalance
    <2>1. \A c \in Credits : CameIn(p)[c] = 0 /\ LeftIn(p)[c] = 0
        BY DEF Init, CameIn, LeftIn, InPool
    <2>2. \A w \in Shifts : PaidBy(p, "semantic")[w] = 0
        BY DEF Init, PaidBy, Unpaid
    <2>3. /\ SumFunctionOnSet(CameIn(p), Credits) = 0
          /\ SumFunctionOnSet(LeftIn(p), Credits) = 0
          /\ SumFunctionOnSet(PaidBy(p, "semantic"), Shifts) = 0
        BY <2>1, <2>2, SetsOfCredits, SetsFinite, SumZero
    <2> QED
        BY <2>3
<1> QED
    BY <1>1, <1>2, <1>4, <1>5, <1>6 DEF Books

LEMMA NextBooks == Inv /\ Books /\ [Next]_vars => Books'
<1> SUFFICES ASSUME Inv, Books, [Next]_vars PROVE Books'
    OBVIOUS
<1>1. ASSUME NEW t \in Sessions, RecognisePayment(t) \/ Rollback(t) PROVE Books'
    BY <1>1, QuietEndBooks DEF RecognisePayment, Rollback
<1>2. ASSUME NEW t \in Sessions, Arrival(t) \/ Continue(t) \/ Rollback(t) PROVE Books'
    BY <1>1, <1>2, StartBooks, RecordDonationBooks, CommitManualBooks, CommitPolicyBooks,
       ReadPoolBooks, AwardFromCreditsBooks, AwardFromBalanceBooks DEF Continue
<1>3. CASE \E g \in Grants : TopUp(g)
    BY <1>3, TopUpBooks
<1>4. CASE UNCHANGED vars
    <2>1. UNCHANGED <<payment, review, credit, award, tx, retargeted>>
        BY <1>4 DEF vars
    <2>2. TypeOK'
        BY <2>1 DEF Books, TypeOK
    <2>3. PoolsExclude' /\ PlansOfHeldPools' /\ PlansStayCovered'
        BY <2>1 DEF Books, PoolsExclude, PlansOfHeldPools, PlansStayCovered, HoldsPool,
              Candidates, PoolOf
    <2>4. UnpaidOwesNothing' /\ RemainingMatchesAllocations' /\ PoolsBalance'
        BY <2>1, SamePayments, SumsKept DEF Books
    <2> QED
        BY <2>2, <2>3, <2>4 DEF Books
<1> QED
    BY <1>2, <1>3, <1>4 DEF Next

\* In every reachable state the books are in order: rows have their types, each
\* pool is held by one award, and its money is in its credits or was paid out.
THEOREM BooksInvariant == Spec => []Books
BY Invariance, InitBooks, NextBooks, PTL DEF Spec

\* Money is never negative and every row keeps its type.
THEOREM LedgerTypes == Spec => []TypeOK
<1>1. Books => TypeOK
    BY DEF Books
<1> QED
    BY <1>1, BooksInvariant, PTL

\* No credit is spent twice, however many awards read it before one writes.
THEOREM SpentOnce == Spec => []RemainingMatchesAllocations
<1>1. Books => RemainingMatchesAllocations
    BY DEF Books
<1> QED
    BY <1>1, BooksInvariant, PTL

\* Whatever happens between the reads of an award and its writes, what it plans
\* to take is still there.
THEOREM PlansCovered == Spec => []PlansStayCovered
<1>1. Books => PlansStayCovered
    BY DEF Books
<1> QED
    BY <1>1, BooksInvariant, PTL

\* The balance of a pool is what its credits have left less what the legacy path
\* has taken.
LEMMA BalanceIsLeftLessLegacy ==
    ASSUME Inv, Books, NEW p \in Pools
    PROVE  Balance(p) = SumFunctionOnSet(LeftIn(p), Credits)
                          - SumFunctionOnSet(PaidBy(p, "legacy"), Shifts)
<1> DEFINE f == [c \in Credits |-> IF credit[c].status = "none" THEN 0 ELSE Amount(c)]
           R == {c \in Credits : credit[c].status # "none" /\ PoolOf(c) = p}
           W == {w \in Shifts : award[w].pool = p}
           g == [w \in Shifts |-> IF w \in W THEN Debits[w] ELSE 0]
           S == PaidBy(p, "semantic")
           L == PaidBy(p, "legacy")
           C == CameIn(p)
<1>1. TypeOK
    BY DEF Books
<1>2. \A c \in Credits : f[c] \in Int
    BY MoneyKnown
<1>3. \A w \in Shifts : Debits[w] \in Int
    BY <1>1, TypeFacts DEF Debits
<1>4. SumFunctionOnSet(f, R) = SumFunctionOnSet(C, Credits)
    <2>1. C = [c \in Credits |-> IF c \in R THEN f[c] ELSE 0]
        BY DEF CameIn, InPool
    <2>2. R \in SUBSET Credits
        OBVIOUS
    <2> HIDE DEF f, R, C
    <2>3. \A c \in R : f[c] \in Int
        BY <1>2, <2>2
    <2> QED
        BY <2>1, <2>2, <2>3, SetsOfCredits, SumOfPart
<1>5. SumFunctionOnSet(Debits, W) = SumFunctionOnSet(g, Shifts)
    <2>1. W \in SUBSET Shifts
        OBVIOUS
    <2> HIDE DEF W
    <2>2. \A w \in W : Debits[w] \in Int
        BY <1>3, <2>1
    <2> QED
        BY <2>1, <2>2, SetsFinite, SumOfPart
<1>6. \A w \in Shifts : S[w] \in Int /\ L[w] \in Int /\ g[w] = S[w] + L[w]
    <2> SUFFICES ASSUME NEW w \in Shifts
                 PROVE  S[w] \in Int /\ L[w] \in Int /\ g[w] = S[w] + L[w]
        OBVIOUS
    <2>1. S[w] \in Int /\ L[w] \in Int
        BY <1>1, PoolSumTypes
    <2>2. award[w].mode \in {"none", "semantic", "legacy"} /\ award[w].debit \in Nat
        BY <1>1, TypeFacts
    <2>3. award[w].mode = "none" => award[w].pool # p
        BY SetsDisjoint DEF Books, UnpaidOwesNothing, Unpaid
    <2>4. g[w] = IF award[w].pool = p THEN award[w].debit ELSE 0
        BY DEF Debits
    <2>5. /\ S[w] = IF award[w].pool = p /\ award[w].mode = "semantic" THEN award[w].debit ELSE 0
          /\ L[w] = IF award[w].pool = p /\ award[w].mode = "legacy" THEN award[w].debit ELSE 0
        BY DEF PaidBy
    <2> HIDE DEF g, S, L
    <2> QED
        BY <2>1, <2>2, <2>3, <2>4, <2>5
<1>7. Balance(p) = SumFunctionOnSet(f, R) - SumFunctionOnSet(Debits, W)
    BY DEF Balance, Incoming
<1>8. SumFunctionOnSet(C, Credits)
        = SumFunctionOnSet(LeftIn(p), Credits) + SumFunctionOnSet(S, Shifts)
    BY DEF Books, PoolsBalance
<1>9. \A c \in Credits : LeftIn(p)[c] \in Int
    BY <1>1, PoolSumTypes
<1> HIDE DEF f, g, R, W, S, L, C
<1>10. SumFunctionOnSet(g, Shifts) = SumFunctionOnSet(S, Shifts) + SumFunctionOnSet(L, Shifts)
    BY <1>6, SetsFinite, SumPlus
<1>11. /\ SumFunctionOnSet(S, Shifts) \in Int /\ SumFunctionOnSet(L, Shifts) \in Int
       /\ SumFunctionOnSet(LeftIn(p), Credits) \in Int
    BY <1>6, <1>9, SetsFinite, SetsOfCredits, SumInt
<1>12. Balance(p) = SumFunctionOnSet(LeftIn(p), Credits) - SumFunctionOnSet(L, Shifts)
    BY <1>4, <1>5, <1>7, <1>8, <1>10, <1>11
<1> QED
    BY <1>12 DEF L

\* A pool is never overdrawn by more than what the legacy path has taken from its
\* balance: awards from credits alone never spend what is not there.
THEOREM OverdraftBound == Spec => []OverdraftIsLegacySpending
<1>1. Inv /\ Books => OverdraftIsLegacySpending
    <2> SUFFICES ASSUME Inv, Books, NEW p \in Pools
                 PROVE  -Balance(p) <=
                          SumFunctionOnSet(Debits, {w \in Shifts : /\ award[w].pool = p
                                                                   /\ award[w].mode = "legacy"})
        BY DEF OverdraftIsLegacySpending
    <2> DEFINE W == {w \in Shifts : award[w].pool = p /\ award[w].mode = "legacy"}
               L == PaidBy(p, "legacy")
    <2>1. L = [w \in Shifts |-> IF w \in W THEN Debits[w] ELSE 0]
        BY DEF PaidBy, Debits
    <2>2. W \in SUBSET Shifts /\ \A w \in W : Debits[w] \in Int
        BY TypeFacts DEF Books, Debits
    <2>3. Balance(p) = SumFunctionOnSet(LeftIn(p), Credits) - SumFunctionOnSet(L, Shifts)
        BY BalanceIsLeftLessLegacy
    <2>4. (\A c \in Credits : LeftIn(p)[c] \in Nat) /\ \A w \in Shifts : L[w] \in Nat
        BY PoolSumTypes DEF Books
    <2> HIDE DEF W, L
    <2>5. SumFunctionOnSet(Debits, W) = SumFunctionOnSet(L, Shifts)
        BY <2>1, <2>2, SetsFinite, SumOfPart
    <2>6. SumFunctionOnSet(LeftIn(p), Credits) \in Nat /\ SumFunctionOnSet(L, Shifts) \in Nat
        BY <2>4, SetsFinite, SetsOfCredits, SumNat
    <2>7. -Balance(p) <= SumFunctionOnSet(Debits, W)
        BY <2>3, <2>5, <2>6
    <2> QED
        BY <2>7 DEF W
<1> QED
    BY <1>1, Invariance, BooksInvariant, PTL

=============================================================================
