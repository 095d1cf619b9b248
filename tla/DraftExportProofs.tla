-------------------------- MODULE DraftExportProofs --------------------------
(***************************************************************************)
(* The safety of DraftExport, and that it implements ExportContract, for   *)
(* every number of sessions, snapshots and candidates.                     *)
(***************************************************************************)
EXTENDS DraftExport, TLAPS

USE SentinelsAreFresh
USE DEF Statuses, Evaluations, Steps

\* The draft and its two reviews, one after the other.
ReviewsOK ==
    /\ draft = NoRequest <=> review = "none"
    /\ exportReview # "none" => review = "resolved"

\* What a transaction x in progress has seen and can still rely on.
Relies(x) ==
    /\ x.step = "generate" => draft = NoRequest /\ x.request \in Requests
    /\ x.step = "open_export_review" => review = "resolved"
    /\ x.step = "insert" => review = "resolved" /\ exportReview = "resolved"
    /\ x.step \in {"lock", "insert"} => x.snapshot \in Snapshots /\ Used(x.snapshot)
    /\ x.step \in {"lock", "append"} => draft # NoRequest /\ x.posture \in Postures
    /\ x.step = "append" =>
          \/ x.snapshot = NoSnapshot
          \/ /\ x.snapshot \in Snapshots /\ Used(x.snapshot)
             /\ posture[x.snapshot] # x.posture

GenerateAlone ==
    \A s, t \in Sessions : HoldsReservation(s) /\ HoldsReservation(t) => s = t

\* The snapshots are one chain: what is superseded exists, one is current.
ChainOK ==
    /\ \A n \in Snapshots :
          Used(n) => supersedes[n] = NoSnapshot \/ Used(supersedes[n])
    /\ \A m, n \in Snapshots : IsCurrent(m) /\ IsCurrent(n) => m = n
    /\ (\E n \in Snapshots : Used(n)) => Superseded(NoSnapshot)

\* A candidate has a snapshot, and its fingerprint is its own.
CandidatesOK ==
    /\ \A c \in Candidates : Created(c) => Used(candidate[c])
    /\ \A c, d \in Candidates :
          Created(c) /\ Created(d) /\ Fingerprint(c) = Fingerprint(d) => c = d

IInv ==
    /\ TypeOK
    /\ ReviewsOK
    /\ \A s \in Sessions : Relies(tx[s])
    /\ GenerateAlone
    /\ ChainOK
    /\ CandidatesOK

-----------------------------------------------------------------------------
(***************************************************************************)
(* What one transaction relies on, the steps of the others preserve.       *)
(***************************************************************************)

Keeps ==
    /\ \A n \in Snapshots : Used(n) => posture'[n] = posture[n]
    /\ draft # NoRequest => draft' # NoRequest
    /\ review = "resolved" => review' = "resolved"
    /\ exportReview = "resolved" => exportReview' = "resolved"

LEMMA StillRelies ==
    ASSUME Keeps, NEW x \in Transactions, Relies(x),
           x.step = "generate" => draft' = draft
    PROVE  Relies(x)'
BY DEF Keeps, Relies, Used

\* s goes on as x; tables change, if at all, as Keeps says.
LEMMA SessionsStep ==
    ASSUME IInv, Keeps, NEW s \in Sessions, NEW x \in Transactions,
           tx' = [tx EXCEPT ![s] = x], Relies(x)',
           x.step = "generate" => \A t \in Sessions \ {s} : ~HoldsReservation(t),
           draft' = draft \/ HoldsReservation(s)
    PROVE  /\ tx' \in [Sessions -> Transactions]
           /\ \A t \in Sessions : tx'[t].step \in {"lock", "insert"} => tx'[t].snapshot # NoSnapshot
           /\ \A t \in Sessions : Relies(tx[t])'
           /\ GenerateAlone'
<1>1. tx'[s] = x /\ \A t \in Sessions \ {s} : tx'[t] = tx[t]
  BY DEF IInv, TypeOK
<1>2. ASSUME NEW t \in Sessions PROVE Relies(tx[t])'
  <2>1. CASE t = s
    BY <2>1, <1>1
  <2>2. CASE t # s
    <3>1. tx[t] \in Transactions /\ Relies(tx[t]) /\ tx'[t] = tx[t]
      BY <2>2, <1>1 DEF IInv, TypeOK
    <3>2. tx[t].step = "generate" => draft' = draft
      BY <2>2 DEF IInv, GenerateAlone, HoldsReservation
    <3> DEFINE y == tx[t]
    <3>3. Relies(y)'
      <4> PICK z \in Transactions : z = tx[t]
        BY <3>1
      <4>1. Relies(z)'
        BY <3>1, <3>2, StillRelies
      <4> QED
        BY <4>1, <3>1 DEF Relies, Used
    <3> QED
      BY <3>3
  <2> QED
    BY <2>1, <2>2
<1>3. tx' \in [Sessions -> Transactions]
  BY DEF IInv, TypeOK
<1>4. \A t \in Sessions : tx'[t].step \in {"lock", "insert"} => tx'[t].snapshot # NoSnapshot
  BY <1>2, <1>3 DEF Relies
<1>5. GenerateAlone'
  BY <1>1 DEF IInv, GenerateAlone, HoldsReservation
<1> QED
  BY <1>2, <1>3, <1>4, <1>5

LEMMA IdleRelies == Idle \in Transactions /\ Relies(Idle) /\ Relies(Idle)'
BY DEF Idle, Transactions, Relies

\* s goes on as x and no table changes.
LEMMA QuietStep ==
    ASSUME IInv, NEW s \in Sessions, NEW x \in Transactions,
           tx' = [tx EXCEPT ![s] = x], Relies(x),
           x.step = "generate" => \A t \in Sessions : ~HoldsReservation(t),
           UNCHANGED <<reviewVars, claims, snapshotVars, candidate>>
    PROVE  IInv'
<1> USE DEF reviewVars, snapshotVars
<1>1. Keeps
  BY DEF Keeps, Used
<1>2. Relies(x)'
  BY DEF Relies, Used
<1>3. /\ tx' \in [Sessions -> Transactions]
      /\ \A t \in Sessions : tx'[t].step \in {"lock", "insert"} => tx'[t].snapshot # NoSnapshot
      /\ \A t \in Sessions : Relies(tx[t])'
      /\ GenerateAlone'
  <2> HIDE DEF reviewVars, snapshotVars
  <2>1. draft' = draft
    BY DEF reviewVars
  <2> QED
    BY <1>1, <1>2, <2>1, SessionsStep
<1>4. TypeOK'
  BY <1>3 DEF IInv, TypeOK
<1>5. ReviewsOK'
  BY DEF IInv, ReviewsOK
<1>6. ChainOK'
  BY DEF IInv, ChainOK, Used, Superseded, IsCurrent
<1>7. CandidatesOK'
  BY DEF IInv, CandidatesOK, Used, Created, Fingerprint
<1> QED
  BY <1>3, <1>4, <1>5, <1>6, <1>7 DEF IInv

\* A review goes on; no transaction and no other table changes.
LEMMA ReviewStep ==
    ASSUME IInv,
           draft' = draft, review' \in Statuses, exportReview' \in Statuses,
           ReviewsOK', Keeps,
           UNCHANGED <<claims, snapshotVars, candidate, tx>>
    PROVE  IInv'
<1> USE DEF snapshotVars
<1>1. TypeOK'
  BY DEF IInv, TypeOK
<1>2. ASSUME NEW s \in Sessions PROVE Relies(tx[s])'
  <2>1. PICK x \in Transactions : x = tx[s]
    BY DEF IInv, TypeOK
  <2>2. Relies(x)
    BY <2>1 DEF IInv
  <2>3. Relies(x)'
    BY <2>2, StillRelies
  <2> QED
    BY <2>1, <2>3
<1>3. GenerateAlone'
  BY DEF IInv, GenerateAlone, HoldsReservation
<1>4. ChainOK'
  BY DEF IInv, ChainOK, Used, Superseded, IsCurrent
<1>5. CandidatesOK'
  BY DEF IInv, CandidatesOK, Used, Created, Fingerprint
<1> QED
  BY <1>1, <1>2, <1>3, <1>4, <1>5 DEF IInv

-----------------------------------------------------------------------------
(***************************************************************************)
(* The draft and the two reviews.                                          *)
(***************************************************************************)

LEMMA InitInvariant == Init => IInv
BY IdleRelies DEF Init, IInv, TypeOK, ReviewsOK, GenerateAlone, HoldsReservation, ChainOK,
                  CandidatesOK, Used, Created, Superseded, IsCurrent, Idle

LEMMA ReserveDraftInvariant ==
    ASSUME IInv, NEW s \in Sessions, NEW q \in Requests, ReserveDraft(s, q) PROVE IInv'
<1> DEFINE x == [tx[s] EXCEPT !.step = "generate", !.request = q]
<1>1. x \in Transactions /\ tx' = [tx EXCEPT ![s] = x]
  BY DEF IInv, TypeOK, Transactions, ReserveDraft
<1>2. Relies(x) /\ x.step = "generate"
  BY DEF IInv, TypeOK, Transactions, ReserveDraft, Relies
<1>3. \A t \in Sessions : ~HoldsReservation(t)
  BY DEF ReserveDraft
<1>4. UNCHANGED <<reviewVars, claims, snapshotVars, candidate>>
  BY DEF ReserveDraft
<1> HIDE DEF x
<1> QED
  BY <1>1, <1>2, <1>3, <1>4, QuietStep

LEMMA PersistDraftInvariant ==
    ASSUME IInv, NEW s \in Sessions, PersistDraft(s) PROVE IInv'
<1> USE DEF snapshotVars
<1>1. draft = NoRequest /\ draft' \in Requests /\ review' = "open" /\ exportReview = "none"
      /\ review = "none" /\ UNCHANGED <<exportReview, claims, snapshotVars, candidate>>
  BY DEF IInv, Relies, PersistDraft, ReviewsOK, TypeOK
<1>2. Keeps
  BY <1>1 DEF Keeps
<1>3. /\ tx' \in [Sessions -> Transactions]
      /\ \A t \in Sessions : tx'[t].step \in {"lock", "insert"} => tx'[t].snapshot # NoSnapshot
      /\ \A t \in Sessions : Relies(tx[t])'
      /\ GenerateAlone'
  <2>1. tx' = [tx EXCEPT ![s] = Idle] /\ HoldsReservation(s) /\ Idle.step # "generate"
    BY DEF PersistDraft, End, HoldsReservation, Idle
  <2> QED
    BY <1>2, <2>1, IdleRelies, SessionsStep
<1>4. TypeOK'
  BY <1>1, <1>3 DEF IInv, TypeOK
<1>5. ReviewsOK'
  BY <1>1 DEF ReviewsOK
<1>6. ChainOK'
  BY <1>1 DEF IInv, ChainOK, Used, Superseded, IsCurrent
<1>7. CandidatesOK'
  BY <1>1 DEF IInv, CandidatesOK, Used, Created, Fingerprint
<1> QED
  BY <1>3, <1>4, <1>5, <1>6, <1>7 DEF IInv

LEMMA StartReviewInvariant ==
    ASSUME IInv, StartReview PROVE IInv'
<1>1. ReviewsOK' /\ Keeps
  BY DEF IInv, ReviewsOK, Keeps, StartReview, snapshotVars
<1> QED
  BY <1>1, ReviewStep DEF IInv, TypeOK, StartReview

LEMMA CompleteReviewInvariant ==
    ASSUME IInv, CompleteReview PROVE IInv'
<1>1. ReviewsOK' /\ Keeps
  BY DEF IInv, ReviewsOK, Keeps, CompleteReview, snapshotVars
<1> QED
  BY <1>1, ReviewStep DEF IInv, TypeOK, CompleteReview

LEMMA StartExportReviewInvariant ==
    ASSUME IInv, StartExportReview PROVE IInv'
<1>1. ReviewsOK' /\ Keeps
  BY DEF IInv, ReviewsOK, Keeps, StartExportReview, snapshotVars
<1> QED
  BY <1>1, ReviewStep DEF IInv, TypeOK, StartExportReview

LEMMA CompleteExportReviewInvariant ==
    ASSUME IInv, CompleteExportReview PROVE IInv'
<1>1. ReviewsOK' /\ Keeps
  BY DEF IInv, ReviewsOK, Keeps, CompleteExportReview, snapshotVars
<1> QED
  BY <1>1, ReviewStep DEF IInv, TypeOK, CompleteExportReview

LEMMA RequestExportReviewInvariant ==
    ASSUME IInv, NEW s \in Sessions, RequestExportReview(s) PROVE IInv'
<1> DEFINE x == [tx[s] EXCEPT !.step = "open_export_review"]
<1>1. x \in Transactions /\ tx' = [tx EXCEPT ![s] = x] /\ x.step = "open_export_review"
  BY DEF IInv, TypeOK, Transactions, RequestExportReview, Goto
<1>2. Relies(x)
  BY <1>1 DEF RequestExportReview, Relies
<1>3. UNCHANGED <<reviewVars, claims, snapshotVars, candidate>>
  BY DEF RequestExportReview
<1> HIDE DEF x
<1> QED
  BY <1>1, <1>2, <1>3, QuietStep

LEMMA OpenExportReviewInvariant ==
    ASSUME IInv, NEW s \in Sessions, OpenExportReview(s) PROVE IInv'
<1> USE DEF snapshotVars
<1>1. /\ review = "resolved" /\ exportReview' \in Statuses \ {"none"}
      /\ exportReview = "resolved" => exportReview' = "resolved"
      /\ UNCHANGED <<draft, review, claims, snapshotVars, candidate>>
  BY DEF IInv, TypeOK, Relies, OpenExportReview
<1>2. Keeps
  BY <1>1 DEF Keeps
<1>3. /\ tx' \in [Sessions -> Transactions]
      /\ \A t \in Sessions : tx'[t].step \in {"lock", "insert"} => tx'[t].snapshot # NoSnapshot
      /\ \A t \in Sessions : Relies(tx[t])'
      /\ GenerateAlone'
  <2>1. tx' = [tx EXCEPT ![s] = Idle] /\ Idle.step # "generate"
    BY DEF OpenExportReview, End, Idle
  <2> QED
    BY <1>1, <1>2, <2>1, IdleRelies, SessionsStep
<1>4. TypeOK'
  BY <1>1, <1>3 DEF IInv, TypeOK
<1>5. ReviewsOK'
  BY <1>1 DEF IInv, ReviewsOK
<1>6. ChainOK'
  BY <1>1 DEF IInv, ChainOK, Used, Superseded, IsCurrent
<1>7. CandidatesOK'
  BY <1>1 DEF IInv, CandidatesOK, Used, Created, Fingerprint
<1> QED
  BY <1>3, <1>4, <1>5, <1>6, <1>7 DEF IInv

LEMMA RollbackInvariant ==
    ASSUME IInv, NEW s \in Sessions, Rollback(s) PROVE IInv'
<1>1. tx' = [tx EXCEPT ![s] = Idle] /\ Idle.step # "generate"
      /\ UNCHANGED <<reviewVars, claims, snapshotVars, candidate>>
  BY DEF Rollback, End, Idle
<1> QED
  BY <1>1, IdleRelies, QuietStep

LEMMA EligibilityInvariant ==
    ASSUME IInv, EligibilityChanges PROVE IInv'
<1> USE DEF reviewVars, snapshotVars, EligibilityChanges
<1>1. TypeOK'
  BY DEF IInv, TypeOK
<1>2. ReviewsOK' /\ GenerateAlone' /\ ChainOK' /\ CandidatesOK'
  BY DEF IInv, ReviewsOK, GenerateAlone, HoldsReservation, ChainOK, CandidatesOK,
         Used, Superseded, IsCurrent, Created, Fingerprint
<1>3. \A s \in Sessions : Relies(tx[s])'
  BY DEF IInv, Relies, Used
<1> QED
  BY <1>1, <1>2, <1>3 DEF IInv

-----------------------------------------------------------------------------
(***************************************************************************)
(* Confirmations.                                                          *)
(***************************************************************************)

LEMMA BeginConfirmInvariant ==
    ASSUME IInv, NEW s \in Sessions, NEW p \in Postures, BeginConfirm(s, p) PROVE IInv'
<1>1. PICK n \in Snapshots \cup {NoSnapshot} :
         /\ Found(n)
         /\ tx' = [tx EXCEPT ![s] =
                     [Idle EXCEPT !.step = IF n = NoSnapshot THEN "append" ELSE "lock",
                                  !.posture = p, !.snapshot = n]]
  BY DEF BeginConfirm
<1> DEFINE x == [Idle EXCEPT !.step = IF n = NoSnapshot THEN "append" ELSE "lock",
                             !.posture = p, !.snapshot = n]
<1>2. x \in Transactions /\ x.step \in {"lock", "append"} /\ x.posture = p /\ x.snapshot = n
      /\ (x.step = "append" <=> n = NoSnapshot)
  BY DEF Idle, Transactions
<1>3. n # NoSnapshot => n \in Snapshots /\ Used(n)
  BY <1>1 DEF Found, IsCurrent
<1>4. Relies(x)
  BY <1>2, <1>3 DEF Relies, BeginConfirm
<1>5. UNCHANGED <<reviewVars, claims, snapshotVars, candidate>>
  BY DEF BeginConfirm
<1>6. tx' = [tx EXCEPT ![s] = x]
  BY <1>1
<1> HIDE DEF x
<1> QED
  BY <1>2, <1>4, <1>5, <1>6, QuietStep

LEMMA LockSnapshotInvariant ==
    ASSUME IInv, NEW s \in Sessions, LockSnapshot(s) PROVE IInv'
<1>1. UNCHANGED <<reviewVars, claims, snapshotVars, candidate>>
  BY DEF LockSnapshot
<1>2. CASE posture[tx[s].snapshot] = tx[s].posture
  <2>1. tx' = [tx EXCEPT ![s] = Idle] /\ Idle.step # "generate"
    BY <1>2 DEF LockSnapshot, End, Idle
  <2> QED
    BY <1>1, <2>1, IdleRelies, QuietStep
<1>3. CASE posture[tx[s].snapshot] # tx[s].posture
  <2> DEFINE x == [tx[s] EXCEPT !.step = "append"]
  <2>1. x \in Transactions /\ tx' = [tx EXCEPT ![s] = x] /\ x.step = "append"
        /\ x.posture = tx[s].posture /\ x.snapshot = tx[s].snapshot
    BY <1>3 DEF IInv, TypeOK, Transactions, LockSnapshot, Goto
  <2>2. Relies(tx[s]) /\ tx[s].step = "lock"
    BY DEF IInv, LockSnapshot
  <2>3. Relies(x)
    BY <1>3, <2>1, <2>2 DEF Relies
  <2> HIDE DEF x
  <2> QED
    BY <1>1, <2>1, <2>3, QuietStep
<1> QED
  BY <1>2, <1>3

\* n becomes the successor of the snapshot the transaction holds.
Appends(s, n) ==
    /\ tx[s].step = "append" /\ Relies(tx[s])
    /\ ~Superseded(tx[s].snapshot)
    /\ n \in Snapshots /\ ~Used(n)
    /\ posture' = [posture EXCEPT ![n] = tx[s].posture]
    /\ supersedes' = [supersedes EXCEPT ![n] = tx[s].snapshot]

\* The chain is longer by n, which alone is in force.
LEMMA Appended ==
    ASSUME IInv, NEW s \in Sessions, NEW n, Appends(s, n)
    PROVE  /\ posture'[n] = tx[s].posture /\ tx[s].posture \in Postures
           /\ \A m \in Snapshots \ {n} : posture'[m] = posture[m]
           /\ \A m \in Snapshots : Used(m)' <=> Used(m) \/ m = n
           /\ ChainOK'
           /\ \A m \in Snapshots : IsCurrent(m)' <=> m = n
<1> DEFINE k == tx[s].snapshot
<1>1. /\ tx[s].posture \in Postures
      /\ k = NoSnapshot \/ (k \in Snapshots /\ Used(k))
      /\ k # n
  <2>1. tx[s].posture \in Postures /\ (k = NoSnapshot \/ (k \in Snapshots /\ Used(k)))
    BY DEF Appends, Relies
  <2>2. n \in Snapshots /\ ~Used(n)
    BY DEF Appends
  <2> QED
    BY <2>1, <2>2
<1>2. posture'[n] = tx[s].posture /\ \A m \in Snapshots \ {n} : posture'[m] = posture[m]
  BY DEF Appends, IInv, TypeOK
<1>3. supersedes'[n] = k /\ \A m \in Snapshots \ {n} : supersedes'[m] = supersedes[m]
  BY DEF Appends, IInv, TypeOK
<1>4. \A m \in Snapshots : Used(m)' <=> Used(m) \/ m = n
  BY <1>1, <1>2 DEF Used
<1>5. n \in Snapshots /\ ~Used(n) /\ ~Superseded(k)
  BY DEF Appends
<1>6. \A m : Superseded(m)' <=> Superseded(m) \/ m = k
  BY <1>3, <1>4, <1>5 DEF Superseded
<1>7. ~Superseded(n)
  BY <1>5 DEF IInv, ChainOK, Superseded
<1>8. ASSUME NEW m \in Snapshots, IsCurrent(m)' PROVE m = n
  <2>1. Used(m)' /\ ~Superseded(m)'
    BY <1>8 DEF IsCurrent
  <2>2. SUFFICES ASSUME m # n PROVE FALSE
    OBVIOUS
  <2>3. IsCurrent(m) /\ m # k
    BY <2>1, <2>2, <1>4, <1>6 DEF IsCurrent
  <2>4. CASE k = NoSnapshot
    BY <2>3, <2>4, <1>5 DEF IInv, ChainOK, IsCurrent
  <2>5. CASE k # NoSnapshot
    <3>1. IsCurrent(k) /\ k \in Snapshots
      BY <2>5, <1>1, <1>5 DEF IsCurrent
    <3> QED
      BY <2>3, <3>1 DEF IInv, ChainOK
  <2> QED
    BY <2>4, <2>5
<1>9. IsCurrent(n)'
  <2>1. Used(n)' /\ ~Superseded(n)'
    BY <1>1, <1>4, <1>5, <1>6, <1>7
  <2> QED
    BY <2>1 DEF IsCurrent
<1>10. ChainOK'
  <2>1. ASSUME NEW m \in Snapshots, Used(m)'
        PROVE  supersedes'[m] = NoSnapshot \/ Used(supersedes[m])'
    <3>1. CASE m = n
      BY <3>1, <1>1, <1>3, <1>4
    <3>2. CASE m # n
      <4>1. supersedes'[m] = supersedes[m] /\ Used(m)
        BY <3>2, <2>1, <1>3, <1>4
      <4>2. supersedes[m] \in Snapshots \cup {NoSnapshot}
        BY DEF IInv, TypeOK
      <4>3. supersedes[m] = NoSnapshot \/ Used(supersedes[m])
        BY <4>1 DEF IInv, ChainOK
      <4> PICK j : j = supersedes[m]
        OBVIOUS
      <4> QED
        BY <4>1, <4>2, <4>3, <1>4
    <3> QED
      BY <3>1, <3>2
  <2>2. \A m, j \in Snapshots : IsCurrent(m)' /\ IsCurrent(j)' => m = j
    BY <1>8
  <2>3. Superseded(NoSnapshot)'
    <3>1. CASE k = NoSnapshot
      BY <3>1, <1>6
    <3>2. CASE k # NoSnapshot
      BY <3>2, <1>1, <1>6 DEF IInv, ChainOK
    <3> QED
      BY <3>1, <3>2
  <2> QED
    BY <2>1, <2>2, <2>3 DEF ChainOK
<1> QED
  BY <1>1, <1>2, <1>4, <1>8, <1>9, <1>10

LEMMA AppendSnapshotInvariant ==
    ASSUME IInv, NEW s \in Sessions, AppendSnapshot(s) PROVE IInv'
<1> USE DEF reviewVars, snapshotVars
<1>1. tx' = [tx EXCEPT ![s] = Idle] /\ Idle.step # "generate"
      /\ UNCHANGED <<reviewVars, claims, candidate>>
  BY DEF AppendSnapshot, End, Idle
<1>2. CASE UNCHANGED snapshotVars
  <2> HIDE DEF reviewVars, snapshotVars
  <2> QED
    BY <1>1, <1>2, IdleRelies, QuietStep
<1>3. CASE \E n \in Snapshots : Appends(s, n)
  <2> PICK n \in Snapshots : Appends(s, n)
    BY <1>3
  <2>1. /\ posture'[n] = tx[s].posture /\ tx[s].posture \in Postures
        /\ \A m \in Snapshots \ {n} : posture'[m] = posture[m]
        /\ \A m \in Snapshots : Used(m)' <=> Used(m) \/ m = n
        /\ ChainOK'
    BY Appended
  <2>2. ~Used(n)
    BY DEF Appends
  <2>3. Keeps
    BY <1>1, <2>1, <2>2 DEF Keeps
  <2>4. /\ tx' \in [Sessions -> Transactions]
        /\ \A t \in Sessions : tx'[t].step \in {"lock", "insert"} => tx'[t].snapshot # NoSnapshot
        /\ \A t \in Sessions : Relies(tx[t])'
        /\ GenerateAlone'
    BY <1>1, <2>3, IdleRelies, SessionsStep
  <2>5. TypeOK'
    <3>1. tx[s].snapshot \in Snapshots \cup {NoSnapshot}
      BY DEF IInv, TypeOK, Transactions
    <3> QED
      BY <1>1, <2>1, <2>4, <3>1 DEF IInv, TypeOK, Appends
  <2>6. ReviewsOK'
    BY <1>1 DEF IInv, ReviewsOK
  <2>7. CandidatesOK'
    <3>1. ASSUME NEW c \in Candidates, Created(c)'
          PROVE  /\ Created(c) /\ Used(candidate[c])'
                 /\ Fingerprint(c)' = Fingerprint(c)
      <4>1. Created(c) /\ candidate'[c] = candidate[c]
        BY <1>1, <3>1 DEF Created
      <4>2. Used(candidate[c]) /\ candidate[c] \in Snapshots
        BY <4>1 DEF IInv, TypeOK, CandidatesOK, Created
      <4>3. posture'[candidate[c]] = posture[candidate[c]]
        BY <4>2, <2>1, <2>2
      <4> QED
        BY <4>1, <4>2, <4>3 DEF Used, Fingerprint
    <3> QED
      BY <3>1 DEF IInv, CandidatesOK
  <2> QED
    BY <2>1, <2>4, <2>5, <2>6, <2>7 DEF IInv
<1>4. UNCHANGED snapshotVars \/ \E n \in Snapshots : Appends(s, n)
  <2>1. Relies(tx[s])
    BY DEF IInv
  <2> QED
    BY <2>1 DEF AppendSnapshot, Appends
<1> QED
  BY <1>2, <1>3, <1>4

-----------------------------------------------------------------------------
(***************************************************************************)
(* Candidates.                                                             *)
(***************************************************************************)

LEMMA BeginCandidateInvariant ==
    ASSUME IInv, NEW s \in Sessions, BeginCandidate(s) PROVE IInv'
<1>1. PICK n \in Snapshots :
         /\ IsCurrent(n)
         /\ tx' = [tx EXCEPT ![s].step = "insert", ![s].snapshot = n]
  BY DEF BeginCandidate
<1> DEFINE x == [tx[s] EXCEPT !.step = "insert", !.snapshot = n]
<1>2. x \in Transactions /\ tx' = [tx EXCEPT ![s] = x]
  BY <1>1 DEF IInv, TypeOK, Transactions
<1>3. x.step = "insert" /\ x.snapshot = n
  BY DEF IInv, TypeOK, Transactions
<1>4. Relies(x)
  BY <1>1, <1>3 DEF Relies, IsCurrent, BeginCandidate
<1>5. UNCHANGED <<reviewVars, claims, snapshotVars, candidate>>
  BY DEF BeginCandidate
<1> HIDE DEF x
<1> QED
  BY <1>2, <1>3, <1>4, <1>5, QuietStep

\* c is the candidate of the snapshot the transaction has read.
Inserts(s, c) ==
    /\ tx[s].step = "insert" /\ Relies(tx[s])
    /\ c \in Candidates /\ ~Created(c)
    /\ \A d \in Candidates : Created(d) => Fingerprint(d) # posture[tx[s].snapshot]
    /\ candidate' = [candidate EXCEPT ![c] = tx[s].snapshot]
    /\ UNCHANGED <<reviewVars, claims, snapshotVars>>

LEMMA Inserted ==
    ASSUME IInv, NEW s \in Sessions, NEW c, Inserts(s, c)
    PROVE  /\ Fingerprint(c)' = posture[tx[s].snapshot]
           /\ tx[s].snapshot \in Snapshots /\ Used(tx[s].snapshot)
           /\ \A d \in Candidates : Created(d)' <=> Created(d) \/ d = c
           /\ \A d \in Candidates : Created(d) => Fingerprint(d)' = Fingerprint(d)
           /\ CandidatesOK'
<1>1. tx[s].snapshot \in Snapshots /\ Used(tx[s].snapshot)
  BY DEF Inserts, Relies
<1>2. candidate'[c] = tx[s].snapshot /\ \A d \in Candidates \ {c} : candidate'[d] = candidate[d]
  BY DEF Inserts, IInv, TypeOK
<1>3. posture' = posture
  BY DEF Inserts, snapshotVars
<1>4. \A d \in Candidates : Created(d)' <=> Created(d) \/ d = c
  BY <1>1, <1>2 DEF Created
<1>5. Fingerprint(c)' = posture[tx[s].snapshot]
  BY <1>2, <1>3 DEF Fingerprint
<1>6. ~Created(c) /\ \A d \in Candidates : Created(d) => Fingerprint(d) # posture[tx[s].snapshot]
  BY DEF Inserts
<1>7. \A d \in Candidates : Created(d) => Fingerprint(d)' = Fingerprint(d)
  BY <1>2, <1>3, <1>6 DEF Fingerprint
<1>8. CandidatesOK'
  <2>1. ASSUME NEW d \in Candidates, Created(d)' PROVE Used(candidate[d])'
    <3>1. CASE d = c
      BY <3>1, <1>1, <1>2, <1>3 DEF Used
    <3>2. CASE d # c
      BY <3>2, <2>1, <1>2, <1>3, <1>4 DEF IInv, CandidatesOK, Used
    <3> QED
      BY <3>1, <3>2
  <2>2. ASSUME NEW d \in Candidates, NEW e \in Candidates,
               Created(d)', Created(e)', Fingerprint(d)' = Fingerprint(e)'
        PROVE  d = e
    BY <2>2, <1>4, <1>5, <1>6, <1>7 DEF IInv, CandidatesOK
  <2> QED
    BY <2>1, <2>2 DEF CandidatesOK
<1> QED
  BY <1>1, <1>4, <1>5, <1>7, <1>8

LEMMA InsertCandidateCases ==
    ASSUME IInv, NEW s \in Sessions, InsertCandidate(s)
    PROVE  /\ tx' = [tx EXCEPT ![s] = Idle] /\ UNCHANGED <<reviewVars, claims, snapshotVars>>
           /\ UNCHANGED candidate \/ \E c \in Candidates : Inserts(s, c)
<1>1. Relies(tx[s])
  BY DEF IInv
<1> QED
  BY <1>1 DEF InsertCandidate, Inserts, End

LEMMA InsertCandidateInvariant ==
    ASSUME IInv, NEW s \in Sessions, InsertCandidate(s) PROVE IInv'
<1>1. tx' = [tx EXCEPT ![s] = Idle] /\ UNCHANGED <<reviewVars, claims, snapshotVars>>
      /\ Idle.step # "generate"
  BY InsertCandidateCases DEF Idle
<1>2. CASE UNCHANGED candidate
  BY <1>1, <1>2, IdleRelies, QuietStep
<1>3. CASE \E c \in Candidates : Inserts(s, c)
  <2> PICK c \in Candidates : Inserts(s, c)
    BY <1>3
  <2>1. CandidatesOK' /\ tx[s].snapshot \in Snapshots
    BY Inserted
  <2>2. Keeps /\ draft' = draft
    BY <1>1 DEF Keeps, reviewVars, snapshotVars
  <2>3. /\ tx' \in [Sessions -> Transactions]
        /\ \A t \in Sessions : tx'[t].step \in {"lock", "insert"} => tx'[t].snapshot # NoSnapshot
        /\ \A t \in Sessions : Relies(tx[t])'
        /\ GenerateAlone'
    BY <1>1, <2>2, IdleRelies, SessionsStep
  <2>4. TypeOK'
    BY <1>1, <2>1, <2>3 DEF IInv, TypeOK, Inserts, reviewVars, snapshotVars
  <2>5. ReviewsOK' /\ ChainOK'
    BY <1>1 DEF IInv, ReviewsOK, ChainOK, Used, Superseded, IsCurrent, reviewVars, snapshotVars
  <2> QED
    BY <2>1, <2>3, <2>4, <2>5 DEF IInv
<1> QED
  BY <1>2, <1>3, InsertCandidateCases

-----------------------------------------------------------------------------
(***************************************************************************)
(* The theorems.                                                           *)
(***************************************************************************)

LEMMA NextInvariant == IInv /\ [Next]_vars => IInv'
<1> SUFFICES ASSUME IInv, [Next]_vars PROVE IInv'
  OBVIOUS
<1>1. CASE \E s \in Sessions : Session(s)
  <2> PICK s \in Sessions : Session(s)
    BY <1>1
  <2>1. CASE \E q \in Requests : ReserveDraft(s, q)
    BY <2>1, ReserveDraftInvariant
  <2>2. CASE PersistDraft(s)
    BY <2>2, PersistDraftInvariant
  <2>3. CASE RequestExportReview(s)
    BY <2>3, RequestExportReviewInvariant
  <2>4. CASE OpenExportReview(s)
    BY <2>4, OpenExportReviewInvariant
  <2>5. CASE \E p \in Postures : BeginConfirm(s, p)
    BY <2>5, BeginConfirmInvariant
  <2>6. CASE LockSnapshot(s)
    BY <2>6, LockSnapshotInvariant
  <2>7. CASE AppendSnapshot(s)
    BY <2>7, AppendSnapshotInvariant
  <2>8. CASE BeginCandidate(s)
    BY <2>8, BeginCandidateInvariant
  <2>9. CASE InsertCandidate(s)
    BY <2>9, InsertCandidateInvariant
  <2>10. CASE Rollback(s)
    BY <2>10, RollbackInvariant
  <2> QED
    BY <2>1, <2>2, <2>3, <2>4, <2>5, <2>6, <2>7, <2>8, <2>9, <2>10 DEF Session
<1>2. CASE StartReview
  BY <1>2, StartReviewInvariant
<1>3. CASE CompleteReview
  BY <1>3, CompleteReviewInvariant
<1>4. CASE StartExportReview
  BY <1>4, StartExportReviewInvariant
<1>5. CASE CompleteExportReview
  BY <1>5, CompleteExportReviewInvariant
<1>6. CASE EligibilityChanges
  BY <1>6, EligibilityInvariant
<1>7. CASE UNCHANGED vars
  BY <1>7 DEF vars, IInv, TypeOK, ReviewsOK, Relies, GenerateAlone, HoldsReservation, ChainOK,
              CandidatesOK, Used, Superseded, IsCurrent, Created, Fingerprint
<1> QED
  BY <1>1, <1>2, <1>3, <1>4, <1>5, <1>6, <1>7 DEF Next

\* The inductive invariant: what every transaction has seen and relies on still
\* holds, the limitation snapshots form one chain, and every candidate has a
\* fingerprint of its own.
THEOREM Invariance == Spec => []IInv
BY InitInvariant, NextInvariant, PTL DEF Spec

\* Tables and transactions always have their types.
THEOREM TypeCorrect == Spec => []TypeOK
<1>1. IInv => TypeOK
  BY DEF IInv
<1> QED
  BY <1>1, Invariance, PTL

\* At most one candidate is current, for any number of confirmations and
\* creations that overlap (evaluateExportCandidateCurrentnessInTransaction).
THEOREM OneAnswer == Spec => []OneCurrentCandidate
<1>1. IInv => OneCurrentCandidate
  <2> SUFFICES ASSUME IInv, NEW c \in Candidates, NEW d \in Candidates,
                      IsCurrentCandidate(c), IsCurrentCandidate(d)
               PROVE  c = d
    BY DEF OneCurrentCandidate
  <2>1. candidate[c] \in Snapshots /\ candidate[d] \in Snapshots
    BY DEF IInv, TypeOK, IsCurrentCandidate, Created
  <2>2. candidate[c] = candidate[d]
    BY <2>1 DEF IInv, ChainOK, IsCurrentCandidate
  <2> QED
    BY <2>2 DEF IInv, CandidatesOK, IsCurrentCandidate, Fingerprint
<1> QED
  BY <1>1, Invariance, PTL

-----------------------------------------------------------------------------
(***************************************************************************)
(* Every step is one of ExportContract, or none.                           *)
(***************************************************************************)

LEMMA NoneInForce ==
    ASSUME \A m \in Snapshots : ~Used(m)
    PROVE  InForce = NoPosture
BY DEF InForce, IsCurrent

\* Only posture and supersedes matter to what is in force and was confirmed.
LEMMA SnapshotsSame ==
    ASSUME UNCHANGED snapshotVars
    PROVE  InForce' = InForce /\ Confirmed' = Confirmed
BY DEF InForce, Confirmed, IsCurrent, Used, Superseded, snapshotVars

LEMMA CandidatesSame ==
    ASSUME UNCHANGED <<posture, candidate>>
    PROVE  Issued' = Issued
BY DEF Issued, Fingerprint, Created

LEMMA StageSame ==
    ASSUME UNCHANGED <<review, exportReview>>
    PROVE  Stage' = Stage
BY DEF Stage, Rank

\* A step of a review, or of the draft, is one Advance.
LEMMA AdvanceStep ==
    ASSUME Stage' = Stage + 1, Stage \in 0 .. 5, UNCHANGED <<snapshotVars, candidate>>
    PROVE  Contract!Advance
<1>1. InForce' = InForce /\ Confirmed' = Confirmed
  BY SnapshotsSame
<1>2. Issued' = Issued
  BY CandidatesSame DEF snapshotVars
<1> QED
  BY <1>1, <1>2 DEF Contract!Advance, Contract!Cleared

LEMMA AppendStep ==
    ASSUME IInv, NEW s \in Sessions, NEW n, Appends(s, n),
           UNCHANGED <<reviewVars, candidate>>
    PROVE  \E p \in Postures : Contract!Confirm(p)
<1> DEFINE p == tx[s].posture
<1>1. /\ posture'[n] = p /\ p \in Postures /\ n \in Snapshots /\ ~Used(n)
      /\ \A m \in Snapshots \ {n} : posture'[m] = posture[m]
      /\ \A m \in Snapshots : Used(m)' <=> Used(m) \/ m = n
      /\ \A m \in Snapshots : IsCurrent(m)' <=> m = n
  BY Appended DEF Appends
<1>2. InForce' = p
  BY <1>1 DEF InForce
<1>3. Confirmed' = Confirmed \cup {p}
  BY <1>1 DEF Confirmed
<1>4. Issued' = Issued
  <2>1. ASSUME NEW c \in Candidates, Created(c) PROVE Fingerprint(c)' = Fingerprint(c)
    <3>1. candidate[c] \in Snapshots /\ Used(candidate[c]) /\ candidate' = candidate
      BY <2>1 DEF IInv, TypeOK, CandidatesOK, Created
    <3>2. posture'[candidate[c]] = posture[candidate[c]]
      BY <1>1, <3>1
    <3> QED
      BY <3>1, <3>2 DEF Fingerprint
  <2>2. \A c \in Candidates : Created(c)' <=> Created(c)
    BY DEF Created
  <2> QED
    BY <2>1, <2>2 DEF Issued
<1>5. Stage' = Stage /\ Stage > 0
  <2>1. Stage' = Stage
    BY StageSame DEF reviewVars
  <2>2. review \in Statuses \ {"none"} /\ exportReview \in Statuses
    BY DEF IInv, TypeOK, ReviewsOK, Appends, Relies
  <2>3. Stage > 0
    BY <2>2 DEF Stage, Rank
  <2> QED
    BY <2>1, <2>3
<1>6. p # InForce
  <2> DEFINE k == tx[s].snapshot
  <2>1. CASE k = NoSnapshot
    <3>1. \A m \in Snapshots : ~Used(m)
      BY <2>1 DEF IInv, ChainOK, Appends
    <3> QED
      BY <1>1, <3>1, NoneInForce
  <2>2. CASE k # NoSnapshot
    <3>1. k \in Snapshots /\ Used(k) /\ posture[k] # p /\ ~Superseded(k)
      BY <2>2 DEF Appends, Relies
    <3>2. IsCurrent(k)
      BY <3>1 DEF IsCurrent
    <3>3. \A m \in Snapshots : IsCurrent(m) <=> m = k
      BY <3>1, <3>2 DEF IInv, ChainOK
    <3>4. InForce = posture[k]
      BY <3>1, <3>3 DEF InForce
    <3> QED
      BY <3>1, <3>4
  <2> QED
    BY <2>1, <2>2
<1> QED
  BY <1>1, <1>2, <1>3, <1>4, <1>5, <1>6 DEF Contract!Confirm

LEMMA InsertStep ==
    ASSUME IInv, NEW s \in Sessions, NEW c, Inserts(s, c)
    PROVE  \E p \in Postures : Contract!Issue(p)
<1> DEFINE p == posture[tx[s].snapshot]
<1>1. /\ Fingerprint(c)' = p /\ tx[s].snapshot \in Snapshots /\ Used(tx[s].snapshot)
      /\ \A d \in Candidates : Created(d)' <=> Created(d) \/ d = c
      /\ \A d \in Candidates : Created(d) => Fingerprint(d)' = Fingerprint(d)
  BY Inserted
<1>2. p \in Postures /\ p \in Confirmed
  BY <1>1 DEF IInv, TypeOK, Used, Confirmed
<1>3. p \notin Issued
  BY DEF Inserts, Issued
<1>4. Issued' = Issued \cup {p}
  <2>1. c \in Candidates
    BY DEF Inserts
  <2> QED
    BY <1>1, <2>1 DEF Issued
<1>5. Stage = 6 /\ Stage' = Stage
  <2>1. Stage' = Stage
    BY StageSame DEF Inserts, reviewVars
  <2>2. review = "resolved" /\ exportReview = "resolved"
    BY DEF Inserts, Relies
  <2>3. Stage = 6
    BY <2>2 DEF Stage, Rank
  <2> QED
    BY <2>1, <2>3
<1>6. InForce' = InForce /\ Confirmed' = Confirmed
  BY SnapshotsSame DEF Inserts
<1> QED
  BY <1>2, <1>3, <1>4, <1>5, <1>6 DEF Contract!Issue, Contract!Cleared

LEMMA QuietMaps ==
    ASSUME UNCHANGED <<reviewVars, snapshotVars, candidate>>
    PROVE  UNCHANGED Contract!vars
<1>1. InForce' = InForce /\ Confirmed' = Confirmed
  BY SnapshotsSame
<1>2. Issued' = Issued
  BY CandidatesSame DEF snapshotVars
<1>3. Stage' = Stage
  BY StageSame DEF reviewVars
<1> QED
  BY <1>1, <1>2, <1>3 DEF Contract!vars

LEMMA InitMaps == Init => Contract!Init
<1> SUFFICES ASSUME Init PROVE Contract!Init
  OBVIOUS
<1>1. \A n \in Snapshots : ~Used(n)
  BY DEF Init, Used
<1>2. InForce = NoPosture
  BY <1>1, NoneInForce
<1>3. Confirmed = {} /\ Issued = {}
  BY <1>1 DEF Init, Confirmed, Issued, Created
<1>4. Stage = 0
  BY DEF Init, Stage, Rank
<1> QED
  BY <1>2, <1>3, <1>4 DEF Contract!Init

LEMMA StepMaps == IInv /\ [Next]_vars => [Contract!Next]_(Contract!vars)
<1> SUFFICES ASSUME IInv, [Next]_vars PROVE Contract!Next \/ UNCHANGED Contract!vars
  OBVIOUS
<1>1. ASSUME NEW s \in Sessions, Session(s) PROVE Contract!Next \/ UNCHANGED Contract!vars
  <2>1. CASE UNCHANGED <<reviewVars, snapshotVars, candidate>>
    BY <2>1, QuietMaps
  <2>2. CASE PersistDraft(s)
    <3>1. review = "none" /\ exportReview = "none" /\ review' = "open"
          /\ UNCHANGED <<exportReview, snapshotVars, candidate>>
      BY <2>2 DEF IInv, Relies, PersistDraft, ReviewsOK, TypeOK
    <3>2. Stage = 0 /\ Stage' = 1
      BY <3>1 DEF Stage, Rank
    <3> QED
      BY <3>1, <3>2, AdvanceStep DEF Contract!Next
  <2>3. CASE OpenExportReview(s)
    <3>1. CASE exportReview = "none"
      <4>1. review = "resolved" /\ exportReview' = "open"
            /\ UNCHANGED <<review, snapshotVars, candidate>>
        BY <2>3, <3>1 DEF IInv, Relies, OpenExportReview
      <4>2. Stage = 3 /\ Stage' = 4
        BY <3>1, <4>1 DEF Stage, Rank
      <4> QED
        BY <4>1, <4>2, AdvanceStep DEF Contract!Next
    <3>2. CASE exportReview # "none"
      BY <2>3, <3>2, QuietMaps DEF OpenExportReview, reviewVars
    <3> QED
      BY <3>1, <3>2
  <2>4. CASE AppendSnapshot(s)
    <3>1. UNCHANGED snapshotVars \/ \E n \in Snapshots : Appends(s, n)
      <4>1. Relies(tx[s])
        BY DEF IInv
      <4> QED
        BY <2>4, <4>1 DEF AppendSnapshot, Appends, snapshotVars
    <3>2. UNCHANGED <<reviewVars, candidate>>
      BY <2>4 DEF AppendSnapshot
    <3> QED
      BY <3>1, <3>2, AppendStep, QuietMaps DEF Contract!Next
  <2>5. CASE InsertCandidate(s)
    BY <2>5, InsertCandidateCases, InsertStep, QuietMaps DEF Contract!Next
  <2> QED
    BY <1>1, <2>1, <2>2, <2>3, <2>4, <2>5
       DEF Session, ReserveDraft, RequestExportReview, BeginConfirm, LockSnapshot,
           BeginCandidate, Rollback
<1>2. ASSUME StartReview \/ CompleteReview PROVE Contract!Next
  <2>1. exportReview = "none" /\ UNCHANGED <<exportReview, snapshotVars, candidate>>
        /\ \/ review = "open" /\ review' = "in_progress"
           \/ review = "in_progress" /\ review' = "resolved"
    BY <1>2 DEF IInv, TypeOK, ReviewsOK, StartReview, CompleteReview
  <2>2. Stage \in 0 .. 5 /\ Stage' = Stage + 1
    BY <2>1 DEF Stage, Rank
  <2> QED
    BY <2>1, <2>2, AdvanceStep DEF Contract!Next
<1>3. ASSUME StartExportReview \/ CompleteExportReview PROVE Contract!Next
  <2>1. review = "resolved" /\ UNCHANGED <<review, snapshotVars, candidate>>
        /\ \/ exportReview = "open" /\ exportReview' = "in_progress"
           \/ exportReview = "in_progress" /\ exportReview' = "resolved"
    BY <1>3 DEF IInv, TypeOK, ReviewsOK, StartExportReview, CompleteExportReview
  <2>2. Stage \in 0 .. 5 /\ Stage' = Stage + 1
    BY <2>1 DEF Stage, Rank
  <2> QED
    BY <2>1, <2>2, AdvanceStep DEF Contract!Next
<1>4. CASE EligibilityChanges
  BY <1>4, QuietMaps DEF EligibilityChanges
<1>5. CASE UNCHANGED vars
  BY <1>5, QuietMaps DEF vars, reviewVars, snapshotVars
<1> QED
  BY <1>1, <1>2, <1>3, <1>4, <1>5 DEF Next

\* The sessions with their locks, stale reads and rollbacks implement the
\* contract: reviews in order, confirmations that change something, and one
\* candidate for each set of limitations.
THEOREM Refinement == Spec => ImplementsExportContract
BY InitMaps, StepMaps, Invariance, PTL DEF Spec, ImplementsExportContract, Contract!Spec
=============================================================================
