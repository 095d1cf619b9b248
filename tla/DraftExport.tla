----------------------------- MODULE DraftExport -----------------------------
(***************************************************************************)
(* One generated draft of KAI on its way to an export candidate            *)
(* (postgresGeneratedContentRepository.js, postgresExportCandidateRepo-    *)
(* sitory.js): it is written once under its idempotency key, its review    *)
(* and its export review are started and completed, a person confirms the  *)
(* limitations of what it cites, again and again, and candidates are       *)
(* created from the limitations in force.                                  *)
(*                                                                         *)
(* Transactions run at READ COMMITTED.  A step is a statement whose result *)
(* can be stale when the next one runs, or that waits for a lock.          *)
(***************************************************************************)
EXTENDS Naturals

CONSTANTS
    Sessions,
    Requests,       \* contents of requests under the draft's idempotency key
    Postures,       \* entries of a limitation snapshot
    Snapshots,      \* ids of limitation snapshots
    Candidates,     \* ids of export candidates
    PacketFits,     \* whether a review packet accepts what the evaluator returns
    NoRequest, NoPosture, NoSnapshot

ASSUME SentinelsAreFresh ==
    /\ NoRequest \notin Requests
    /\ NoPosture \notin Postures
    /\ NoSnapshot \notin Snapshots

ASSUME PacketFitsIsBoolean == PacketFits \in BOOLEAN

VARIABLES
    draft,          \* the request the draft was written for
    claims,         \* what evaluateClaimTraceability says of the cited claims
    review,         \* queue_status of the generated-content review
    exportReview,   \* queue_status of the export review
    posture,        \* entries_fingerprint of a snapshot
    supersedes,     \* supersedes_snapshot_id of a snapshot
    candidate,      \* limitation_snapshot_id of a candidate
    tx              \* the transaction of each session

snapshotVars == <<posture, supersedes>>
reviewVars == <<draft, review, exportReview>>
vars == <<draft, claims, review, exportReview, posture, supersedes, candidate, tx>>

\* updated_at changes exactly when the queue's status does, so that comparing
\* both, as the updates do, compares the status.
Statuses == {"none", "open", "in_progress", "resolved"}

\* Eligible for the draft's audience, blocked, or refused for a mismatch between
\* the rows around them (result.ok is false).
Evaluations == {"eligible", "blocked", "refused"}

Steps == {"idle", "generate", "open_export_review", "lock", "append", "insert"}

Transactions == [step: Steps,
                 request: Requests \cup {NoRequest},
                 posture: Postures \cup {NoPosture},
                 snapshot: Snapshots \cup {NoSnapshot}]

Idle == [step |-> "idle", request |-> NoRequest, posture |-> NoPosture,
         snapshot |-> NoSnapshot]

Init ==
    /\ draft = NoRequest
    /\ claims \in Evaluations
    /\ review = "none"
    /\ exportReview = "none"
    /\ posture = [n \in Snapshots |-> NoPosture]
    /\ supersedes = [n \in Snapshots |-> NoSnapshot]
    /\ candidate = [c \in Candidates |-> NoSnapshot]
    /\ tx = [s \in Sessions |-> Idle]

Used(n) == posture[n] # NoPosture
Created(c) == candidate[c] # NoSnapshot
Superseded(n) == \E m \in Snapshots : Used(m) /\ supersedes[m] = n

\* "The row no other row names as its supersedes_snapshot_id."
IsCurrent(n) == Used(n) /\ ~Superseded(n)

\* What a query for the current snapshot returns.
Found(n) ==
    IF \E m \in Snapshots : IsCurrent(m)
    THEN n \in Snapshots /\ IsCurrent(n)
    ELSE n = NoSnapshot

\* canonicalFingerprint: the draft and what it cites never change, so two
\* candidates of it differ in nothing but the entries of their snapshots.
Fingerprint(c) == posture[candidate[c]]

\* A candidate is current as long as its snapshot is.
IsCurrentCandidate(c) == Created(c) /\ IsCurrent(candidate[c])

Goto(s, step) == tx' = [tx EXCEPT ![s].step = step]
End(s) == tx' = [tx EXCEPT ![s] = Idle]

\* A failure, or the crash of the process: nothing was committed.
Rollback(s) ==
    /\ tx[s].step # "idle"
    /\ End(s)
    /\ UNCHANGED <<reviewVars, claims, snapshotVars, candidate>>

\* Reviews, conflicts, gaps and follow-ups of the claims go on meanwhile.
EligibilityChanges ==
    /\ claims' \in Evaluations \ {claims}
    /\ UNCHANGED <<reviewVars, snapshotVars, candidate, tx>>

(***************************************************************************)
(* createEvidenceSummaryDraft                                              *)
(***************************************************************************)

HoldsReservation(s) == tx[s].step = "generate"

\* Reserves the idempotency key and evaluates the claims, then awaits the
\* generator inside the transaction.  A second reservation of the key waits
\* for the first; once that is committed it only replays or refuses.
ReserveDraft(s, q) ==
    /\ tx[s].step = "idle"
    /\ \A o \in Sessions : ~HoldsReservation(o)
    /\ draft = NoRequest
    /\ claims = "eligible"
    /\ tx' = [tx EXCEPT ![s].step = "generate", ![s].request = q]
    /\ UNCHANGED <<reviewVars, claims, snapshotVars, candidate>>

\* The claims are evaluated again; the draft and its open review are one commit.
PersistDraft(s) ==
    /\ tx[s].step = "generate"
    /\ claims = "eligible"
    /\ draft' = tx[s].request
    /\ review' = "open"
    /\ End(s)
    /\ UNCHANGED <<exportReview, claims, snapshotVars, candidate>>

(***************************************************************************)
(* The review of the draft: each transition holds the draft's row and      *)
(* assembles a packet, so that nothing it reads can change.                *)
(***************************************************************************)

\* toReviewPacket: blocked claims are shown as such.
PacketAssembles == PacketFits /\ claims # "refused"

StartReview ==
    /\ review = "open" /\ PacketAssembles
    /\ review' = "in_progress"
    /\ UNCHANGED <<draft, exportReview, claims, snapshotVars, candidate, tx>>

CompleteReview ==
    /\ review = "in_progress" /\ PacketAssembles
    /\ review' = "resolved"
    /\ UNCHANGED <<draft, exportReview, claims, snapshotVars, candidate, tx>>

(***************************************************************************)
(* The export review.  It is requested after a look at the queue and the   *)
(* packet, without a lock; start and completion are one UPDATE each.       *)
(***************************************************************************)

RequestExportReview(s) ==
    /\ tx[s].step = "idle"
    /\ exportReview = "none"
    /\ review = "resolved" /\ PacketAssembles /\ claims = "eligible"
    /\ Goto(s, "open_export_review")
    /\ UNCHANGED <<reviewVars, claims, snapshotVars, candidate>>

\* Mutant: DO UPDATE opens the item again.
ReopenExportReview(s) ==
    /\ tx[s].step = "open_export_review"
    /\ exportReview' = "open"
    /\ End(s)
    /\ UNCHANGED <<draft, review, claims, snapshotVars, candidate>>

\* ON CONFLICT DO NOTHING: the item another request has opened meanwhile stays
\* as it is, and the request is answered from it.
OpenExportReview(s) ==
    /\ tx[s].step = "open_export_review"
    /\ exportReview' = IF exportReview = "none" THEN "open" ELSE exportReview
    /\ End(s)
    /\ UNCHANGED <<draft, review, claims, snapshotVars, candidate>>

StartExportReview ==
    /\ exportReview = "open"
    /\ exportReview' = "in_progress"
    /\ UNCHANGED <<draft, review, claims, snapshotVars, candidate, tx>>

CompleteExportReview ==
    /\ exportReview = "in_progress"
    /\ exportReview' = "resolved"
    /\ UNCHANGED <<draft, review, claims, snapshotVars, candidate, tx>>

(***************************************************************************)
(* confirmLimitationSnapshot                                               *)
(***************************************************************************)

\* FOR UPDATE of the current snapshot, held until the transaction ends.
HoldsSnapshot(s, n) == tx[s].step = "append" /\ tx[s].snapshot = n
Unlocked(n) == \A s \in Sessions : ~HoldsSnapshot(s, n)

\* The rows of the locking query are those of its snapshot of the database; if
\* there is none, nothing is locked.
BeginConfirm(s, p) ==
    /\ tx[s].step = "idle"
    /\ draft # NoRequest
    /\ \E n \in Snapshots \cup {NoSnapshot} :
          /\ Found(n)
          /\ tx' = [tx EXCEPT ![s] =
                      [Idle EXCEPT !.step = IF n = NoSnapshot THEN "append" ELSE "lock",
                                   !.posture = p, !.snapshot = n]]
    /\ UNCHANGED <<reviewVars, claims, snapshotVars, candidate>>

\* The lock is granted on a row that may be superseded by now: the query is not
\* repeated, since the row itself has not changed.  Entries as they are replay.
LockSnapshot(s) ==
    /\ tx[s].step = "lock" /\ Unlocked(tx[s].snapshot)
    /\ IF posture[tx[s].snapshot] = tx[s].posture THEN End(s) ELSE Goto(s, "append")
    /\ UNCHANGED <<reviewVars, claims, snapshotVars, candidate>>

\* Mutant: the unique indexes are missing.
AppendBlindly(s) ==
    /\ tx[s].step = "append"
    /\ \E n \in Snapshots :
          /\ ~Used(n)
          /\ posture' = [posture EXCEPT ![n] = tx[s].posture]
          /\ supersedes' = [supersedes EXCEPT ![n] = tx[s].snapshot]
    /\ End(s)
    /\ UNCHANGED <<reviewVars, claims, candidate>>

\* One root for the draft and one successor for a snapshot (the unique indexes):
\* the confirmation that comes second fails and writes nothing.
AppendSnapshot(s) ==
    /\ tx[s].step = "append"
    /\ \/ /\ ~Superseded(tx[s].snapshot)
          /\ \E n \in Snapshots :
                /\ ~Used(n)
                /\ posture' = [posture EXCEPT ![n] = tx[s].posture]
                /\ supersedes' = [supersedes EXCEPT ![n] = tx[s].snapshot]
       \/ Superseded(tx[s].snapshot) /\ UNCHANGED snapshotVars
    /\ End(s)
    /\ UNCHANGED <<reviewVars, claims, candidate>>

(***************************************************************************)
(* createExportCandidate                                                   *)
(***************************************************************************)

\* Both reviews are resolved, which they stay; the snapshot is read without a lock.
BeginCandidate(s) ==
    /\ tx[s].step = "idle"
    /\ review = "resolved" /\ exportReview = "resolved"
    /\ \E n \in Snapshots :
          /\ IsCurrent(n)
          /\ tx' = [tx EXCEPT ![s].step = "insert", ![s].snapshot = n]
    /\ UNCHANGED <<reviewVars, claims, snapshotVars, candidate>>

\* ON CONFLICT on the fingerprint the candidate there is is the answer.  The
\* foreign key of a new one takes a share lock on the snapshot, and so waits for
\* a confirmation that is superseding it.
InsertCandidate(s) ==
    /\ tx[s].step = "insert"
    /\ LET known == \E c \in Candidates : Created(c) /\ Fingerprint(c) = posture[tx[s].snapshot]
       IN  \/ known /\ UNCHANGED candidate
           \/ /\ ~known /\ Unlocked(tx[s].snapshot)
              /\ \E c \in Candidates :
                    ~Created(c) /\ candidate' = [candidate EXCEPT ![c] = tx[s].snapshot]
    /\ End(s)
    /\ UNCHANGED <<reviewVars, claims, snapshotVars>>

(***************************************************************************)
(* The system.                                                             *)
(***************************************************************************)

Session(s) ==
    \/ \E q \in Requests : ReserveDraft(s, q)
    \/ PersistDraft(s)
    \/ RequestExportReview(s) \/ OpenExportReview(s)
    \/ \E p \in Postures : BeginConfirm(s, p)
    \/ LockSnapshot(s) \/ AppendSnapshot(s)
    \/ BeginCandidate(s) \/ InsertCandidate(s)
    \/ Rollback(s)

Next ==
    \/ \E s \in Sessions : Session(s)
    \/ StartReview \/ CompleteReview
    \/ StartExportReview \/ CompleteExportReview
    \/ EligibilityChanges

Spec == Init /\ [][Next]_vars

(***************************************************************************)
(* Properties.                                                             *)
(***************************************************************************)

TypeOK ==
    /\ draft \in Requests \cup {NoRequest}
    /\ claims \in Evaluations
    /\ review \in Statuses /\ exportReview \in Statuses
    /\ posture \in [Snapshots -> Postures \cup {NoPosture}]
    /\ supersedes \in [Snapshots -> Snapshots \cup {NoSnapshot}]
    /\ candidate \in [Candidates -> Snapshots \cup {NoSnapshot}]
    /\ tx \in [Sessions -> Transactions]
    \* no insert and no lock of a snapshot that is not there
    /\ \A s \in Sessions : tx[s].step \in {"lock", "insert"} => tx[s].snapshot # NoSnapshot

\* Whoever asks for the candidate to decide upon gets one answer: at most one
\* candidate is current, although confirmations race for the same predecessor
\* and creations for the same limitations
\* (evaluateExportCandidateCurrentnessInTransaction).
OneCurrentCandidate ==
    \A c, d \in Candidates : IsCurrentCandidate(c) /\ IsCurrentCandidate(d) => c = d

Rank(status) ==
    CASE status = "none" -> 0 [] status = "open" -> 1
      [] status = "in_progress" -> 2 [] status = "resolved" -> 3

Stage == Rank(review) + Rank(exportReview)
InForce == IF \E n \in Snapshots : IsCurrent(n)
           THEN posture[CHOOSE n \in Snapshots : IsCurrent(n)] ELSE NoPosture
Confirmed == {posture[n] : n \in {m \in Snapshots : Used(m)}}
Issued == {Fingerprint(c) : c \in {d \in Candidates : Created(d)}}

Contract == INSTANCE ExportContract
    WITH stage <- Stage, current <- InForce, seen <- Confirmed, issued <- Issued

\* Reviews go forward one step at a time and in order, a confirmation always
\* changes what was in force, and candidates come last, one for each posture:
\* requests, confirmations and creations that overlap leave no other trace.
ImplementsExportContract == Contract!Spec
=============================================================================
