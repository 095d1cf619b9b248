# Get Kinder: a verification of sign-ups, credits, funding and intake

Get Kinder is an Express program on PostgreSQL. Volunteers sign up for events,
hosts and organisations say who attended, an attended shift earns *impact
credits* (IC), and donations and top-ups pay for those credits. A second system
in the same process, KAI, takes in files of organisations, profiles them and
turns what they show into drafts that people review and release.

Nothing in the program runs on threads, but almost every handler is a sequence of
SQL statements on a pool of connections, at the isolation level READ COMMITTED.
Between two statements any other handler can commit. What keeps the books right
is which rows are locked, in which order, which reads are repeated under the
lock, and which unique indexes stand behind them. That is what this directory
models. Paths below are relative to the repository.

## 1. Inventory

### The parts that keep state under concurrency

**Event sign-ups and attendance** — `services/eventRsvpService.js`,
`services/waitlistService.js`, `services/eventsService.js`,
`controllers/eventsApiController.js`, `controllers/meEventsApiController.js`,
`routes/orgPortalApi.js`, `routes/adminApi.js`.
- State: `events` (status, capacity, waitlist_enabled), `event_rsvps` (status,
  role_id, no_show, verification_status), `event_roles.spots_filled`.
- Operations: accept, decline (the volunteer); approve, decline, verify (the
  organisation's portal); verify, no-show, check-in, edit, cancel, complete (the
  host); sign-up on behalf of a volunteer, edit (the administrator).
- Hard: the sign-ups lock the event's row, attendance only the RSVP's row, and
  check-in, portal verification, cancellation and completion nothing: they decide on
  a read and then UPDATE. `spots_filled` is a counter kept beside the rows it
  counts, raised and lowered under conditions that differ. Promotion from the
  waitlist skips locked rows. Two lock orders meet and PostgreSQL has to break cycles.
- Correct when: nobody is seated past the capacity by a path that counts seats;
  nobody waits beside a free seat; a released seat is offered; the counter
  follows the sign-ups; a cancelled event takes nobody on; a no-show is never
  verified; every transaction ends.

**Credit requests and awards** — `services/earnShiftFundingService.js`,
`Backend/services/icService.js`, `verifyEventRsvp` and `markEventNoShow` in
`controllers/eventsApiController.js`, `/credits/*` in `routes/adminApi.js`.
- State: `event_rsvps.verification_status`, `pending_credit_requests`,
  `wallet_transactions`.
- Operations: verify (opens a request in the same transaction), approve, reject,
  portal verify-and-pay, direct allocation by an administrator, no-show and
  rejection of attendance.
- Hard: four paths can credit the same shift. Each looks for what the others did
  in a statement of its own, and they take the RSVP's row, the request's row, an
  advisory lock on (user, event) and the unique wallet index in different orders.
- Correct when: a shift is credited at most once; a request is approved exactly
  when its award is in the wallet; a shift has one open or approved request; a
  verified shift is paid or has a request on file, because it is not verified
  again; verdicts are final; no set of transactions waits for itself.

**Funding ledger** — `services/fundingAllocationService.js`,
`services/fundingCreditService.js`, `services/earnShiftFundingService.js`,
`services/donationAttributionService.js`, `services/poolRoutingService.js`.
- State: `funding_pools`, `pool_transactions`, `funding_credits`,
  `funding_credit_allocations`, `donor_receipts`.
- Operations: intake of a donation, top-up, award from credits (*semantic*),
  award from the balance (*legacy*), re-targeting of a credit.
- Hard: an award plans on the credits of two pools and applies the plan later; a
  decision about a credit does not take the pool's lock; the legacy path spends
  the balance that consists of credits without drawing on them;
  `GREATEST(remaining - x, 0)` would hide it if a credit were spent twice.
- Correct when: what is left of a credit is its amount less what shifts took;
  what an award planned is still there; a credit is spent on its target; a pool
  is not overdrawn (or only in the ways the code can be shown to allow).

**Donation intake and review** — `services/donationsService.js`,
`services/donationReviewService.js`, `services/donationAllocationService.js`,
`services/donationPolicyService.js`, `controllers/squareWebhooksController.js`,
the cron job in `index.js`.
- State: `donations`, `donation_allocation_reviews`.
- Operations: a delivery of a payment (webhook, any number of times), a manual
  decision, the policy job over all reviews older than 72 hours.
- Hard: the payment is looked up without a lock and its column is not unique; the
  administrator and the job meet; a held credit must not be spent.
- Correct when: a payment is recorded once (or only as often as its deliveries
  overlap); a donation under review is whole; a manual decision stands; every
  donation is decided eventually.

**Wallet and redemption** — `services/redemptionService.js`.
- State: `wallet_transactions` (debits beside the credits of the awards), `redemptions`.
- Operations: redeem an offer; the summary and the history only read.
- Hard: the balance is a SUM over a table that awards write to under another
  advisory lock than the redemption's.
- Correct when: debits never exceed credits, whatever overlaps.

**KAI upload lifecycle** — `Backend/kai/upload/*`,
`Backend/kai/services/kaiIntakeService.js`, the triggers of its migrations.
- State: `kai.intake_files` (upload_state, object version, GCS generation, policy
  status, expiry), the replay rows of decisions, the objects in the bucket.
- Operations: reserve; ask for a signed URL; the client's own upload; confirm
  (find and verify the object, then start, complete, bind, confirm and assess,
  a transaction each); decide the policy; block a file.
- Hard: every transition is an unlocked read followed by an UPDATE that compares
  the state only; the limit on active uploads is a trigger that counts committed rows;
  a confirmation may fail between any two of its transactions and is retried.
- Correct when: the in-memory repository's contract is kept; one row per content;
  what is confirmed is what was declared; a replay answers with the verdict that
  was given; a failed confirmation can be retried.

**KAI parser runs** — `Backend/kai/parsing/*`, `Backend/kai/parsing/p1WorkerRuntime.js`.
- State: `kai.intake_parser_runs`, profiles, data dictionaries, sensitivity profiles.
- Operations: a scheduler's tick over the passed files (activate, claim, profile,
  complete or fail, then the dictionary and the sensitivity profile), an operator's retry.
- Hard: ticks overlap, claims skip locked rows, profiling happens outside of any
  transaction, a process may die anywhere.
- Correct when: a run has one worker and one profile; nothing is derived from a
  file that did not pass or before what it is derived from; a listed file settles.

**KAI drafts and exports** — `Backend/kai/dictionary/postgresGeneratedContentRepository.js`,
`postgresExportCandidateRepository.js`, `postgresClaimTraceabilityRepository.js`.
- State: generated drafts, two review queues, limitation snapshots in a chain
  (`supersedes_snapshot_id`), export candidates.
- Operations: draft a summary; start and complete its review; request, start and
  complete its export review; confirm the limitations; create a candidate.
- Hard: a draft's generator is awaited inside the transaction; a lock on the
  current snapshot may be granted on a row that has been superseded meanwhile;
  an export review is requested on unlocked reads.
- Correct when: reviews go forward one step at a time; the chain does not fork;
  at most one candidate is current.

**KAI evidence and claims** — `Backend/kai/dictionary/`: `postgresEvidenceLineageRepository.js`,
`postgresClaimProposalRepository.js`, `postgresClaimGapFollowupRepository.js`,
`postgresClientFollowupCompletionRepository.js`, `postgresHumanReviewRepository.js`,
`postgresConflictReviewCandidateRepository.js`, `postgresCoverageReviewDecisionRepository.js`,
`postgresClaimTraceabilityRepository.js`.
- State: evidence items and claims with their reviews and strengths, gap and follow-up rows,
  accepted limitations with the fingerprint of the state they were accepted for, conflict groups.
- Operations: extract, propose, list gaps, answer a follow-up, complete either review, raise a
  conflict, accept a limitation, evaluate.
- Hard: a conflict reads two claims behind the locks of their two sources, taken one after the other in the
  order of the *claims*; an evaluation locks nothing and each of its statements sees another snapshot.
- Correct when: an eligible claim stays eligible, since drafts go on with it; what is found eligible is;
  conflicts that wait for each other end.

The promotion of a source from its candidate comes before and is not modelled.

### The other parts

| Part | Why it is not modelled |
|---|---|
| Rewards of a shift (`services/volunteerRewardService.js`) | a pure function of role and duration; its result is the constant `ShiftAmount` |
| `services/earnShiftReconcileService.js`, `services/poolFundingService.js` | imported by nothing that runs; `scripts/reconcileEarnShiftCredits.js` calls `processVerifiedEarnShift`, which is modelled |
| `scripts/reconcilePoolDeficits.js`, `scripts/reconcileDonationAttribution.js` | run by hand, on candidates read once; they overwrite the attribution of donations that awards have made, and are no part of the running program |
| Drafts, publication, matching, calendar, listings | single-row writes of a host's own event; what they share with sign-ups is in `EventRsvp` |
| Invitations and ratings | upserts keyed by the actors: the last writer wins, and no other state depends on it |
| Accounts, profiles, organisations | one request, one row, no protocol between actors |
| KAI assistant | calls to a language model and read-only tools |
| Front ends, static content | no shared state |

### How the parts interact

```
 volunteer ─ accept/decline ─▶ EventRsvp ◀─ approve/decline/verify ─ organisation
 host ─ verify/no-show/check-in/edit/cancel ─▶ EventRsvp
                                   │ verified: opens a request in the same transaction
                                   ▼
 administrator ─ approve/reject ─▶ CreditAward ─ award in the approving transaction ─▶ FundingLedger
 portal verify-and-pay ──────────▶ CreditAward   (pays, and draws on no pool)
                                                          ▲
 Square ─ webhooks ─▶ intake ─▶ review ◀─ administrator, policy job
 volunteer ─ redeem ─▶ WalletRedemption ◀─ credits ─ CreditAward

 client ─ reserve/put/confirm ─▶ UploadLifecycle ─ passed files ─▶ ParserRuns ◀─ scheduler, operator
                                                                       │ profiles
                                                     promotion of a source (not modelled)
                                                                       │
     people ─ extract/propose/review/conflict/accept ─────────────▶ ClaimReview
                                                                       │ eligible claims
                                 person ─ review/confirm/release ─▶ DraftExport
```

`EventRsvp` and `CreditAward` share an RSVP's `verification_status`; the seats and
roles do not matter to the credit and the credit does not matter to the seats, so
each has the part of the row it needs. `CreditAward` hands a shift to
`FundingLedger` at most once (that is `OneAwardPerShift`), which is why
`BeginAward` there takes a shift that has not been paid and that no other session
is paying. The award is one transaction in the code; seen from the ledger it is
`BeginAward` to `AwardFrom…`, seen from the claim it is the step `commit`.

Three compositions are made in TLA+. `WalletRedemption` extends `CreditAward`: the
awards of one volunteer's shifts are the credits of the wallet his redemptions draw on. `ParserRuns`
runs beside `UploadContract`, the abstract specification that `UploadLifecycle` implements, so that
what holds of the parser holds of every upload that keeps its contract; `KaiIntake` puts the parser's workers beside
`UploadLifecycle` itself, which is proved to be both. `DraftExport` and `ClaimReview` meet in
the evaluation: `DraftExport` lets its outcome change at any time in any way, which is more than `ClaimReview`, where
it only ever becomes, and then stays, eligible (`EligibleStaysEligible`). What holds of drafts therefore holds above it,
and what `DraftExport` must allow for although it does not happen (a cited claim that becomes blocked between the
draft's second evaluation and its commit) is what that theorem excludes.

## 2. Modules

| Module | What it is |
|---|---|
| `ShiftClaims` | the abstract specification of a credit: each shift has one claim, none → open → refused or settled, and is paid once |
| `CreditAward` | the four paths that credit a shift, statement by statement; implements `ShiftClaims` |
| `CreditAwardProofs` | the theorems about `CreditAward` and `WalletRedemption` and their proofs |
| `EventRsvp` | seats, waitlist, roles and attendance of one event |
| `EventRsvpProofs` | the theorems about `EventRsvp` |
| `FundingLedger` | donations, reviews, credits, pools and what shifts draw from them |
| `FundingLedgerProofs` | the theorems about `FundingLedger`: who draws on which credit, and the amounts |
| `WalletRedemption` | redemptions of a wallet, composed with the awards that fill it |
| `SumProofs` | lemmas on `SumFunctionOnSet`, by induction over finite sets, for the wallet and the ledger |
| `UploadContract` | the abstract specification of an upload: stages in order, one version, one verdict |
| `UploadLifecycle` | reservation, upload, confirmation and verdict, statement by statement; implements `UploadContract` |
| `KaiIntake` | `UploadLifecycle` with the workers of `ParserRuns` beside it: a file from its reservation to its profile |
| `UploadProofs` | the theorems about `UploadLifecycle` and `KaiIntake` |
| `ParserRuns` | ticks, retries and parser runs, composed with `UploadContract` |
| `ParserProofs` | the theorems about `ParserRuns` |
| `ExportContract` | the abstract specification of a draft: stages, the limitations in force, the candidates issued |
| `DraftExport` | a draft, its reviews, limitation snapshots and candidates; implements `ExportContract` |
| `DraftExportProofs` | the theorems about `DraftExport` |
| `ClaimReview` | claims from their evidence to their eligibility, with conflicts and unlocked evaluations |
| `ClaimReviewProofs` | the theorems about `ClaimReview` |
| `MCCreditAward`, `MCEventRsvp`, `MCFundingLedger`, `MCUploadLifecycle`, `MCParserRuns`, `MCDraftExport`, `MCClaimReview` | values and symmetry for model checking |

One step of a model is one statement whose reads can go stale or whose lock can
make the transaction wait. The writes of a transaction are invisible to others
until it commits, so they happen in its last step, and a rollback or a crash of
the process (`Rollback`) drops the session and changes nothing else. Locks are
not variables: which locks a session holds follows from how far it has come
(`HoldsRsvpRow`, `HoldsAdvisory`, `HoldsEvent`, `HoldsPool`, …), and a step that
needs one is enabled when no other session holds it. A handler whose statements
all run under locks it takes first, with nothing to wait for in between, is one step.

Every module also has a few operators that no action uses, such as `AppendBlindly`
or `BeginIntakeBlindly`. Each is a definition next to it with a plausible mistake
(a lock not taken, a filter forgotten, a counter not reset). Put in the place of
the real one, it makes TLC find a violation of the property it is there for; the
list is `mutants` in `PROJECT.json`.

### CreditAward

A shift is a (volunteer, event). Variables: `verification[s]` is the RSVP's
verification_status; `request[s][k]` the rows of pending_credit_requests, where
`Slots` bounds how many there can ever be (rejecting and verifying again opens another);
`wallet[s][note]` the number of earn-shift credits by the note that says which
path wrote them (the unique index covers (user, event) only for the reason
"earn_shift", and the look-ups differ, so the model counts rows and does not assume there
is one); `tx[t]` the transaction of each session.

| Code | Actions |
|---|---|
| `verifyEventRsvp` + `processVerifiedEarnShift` | `BeginVerify` (RSVP lock), `TakeAdvisory`, `FindAward`, `FindPending`, `FindApproved`, `InsertRequest` or `CommitVerified` |
| `approvePendingCreditRequest` | `BeginApprove` (request lock), `TakeAdvisory`, `CheckRsvp`, `FindOrInsert`, `InsertAward`, `CommitApprove` |
| `awardIcForRsvp` | `BeginOrgVerify` (unlocked read), `OrgUpdateRsvp`, `InsertAward`, `CommitOrgVerify` |
| `/credits/allocate` | `AdminAllocate` |
| `rejectPendingCreditRequest`, attendance rejected, no-show | `RejectRequest`, `RejectAttendance`, `MarkNoShow` |

### EventRsvp

One event. Variables: `event`, `rsvp[v]` (status, role, noShow, verification;
"portal" is *verified by the portal*, which the code does not tell apart but the
properties do), `filled[r]`, `tx[t]` (a transaction, or a decision taken on an unlocked
read), and the history variable `outside`: volunteers seated by a path that
does not count seats, or left over when the capacity was cut below the number seated.

| Code | Actions |
|---|---|
| `applyEventRsvpAction` | `BeginAccept`/`BeginDecline` (event lock), `LockRoles`, `LockRsvp`, `Accept`/`Decline` |
| portal approve, decline | `BeginApprove`/`BeginOrgDecline`, `LockRsvp`, `Approve`/`Refuse`/`OrgDecline` |
| `verifyEventRsvp`, `markEventNoShow` | `BeginAttendance` (RSVP lock), `Verify`, `StartClaim`, `Claim`, `MarkNoShow`, `RefuseAttendance` |
| `checkInToEvent`, portal verification, `cancelEvent`, `completeEvent` | `ReadCheckIn` … `CheckIn`, `ReadPortalVerify` … `PortalUpdate`, `ReadEvent` … `Cancel`/`Complete` |
| `createAdminSignup`, `updateEvent`, admin PATCH | `AdminSignup`, `UpdateEvent`, `AdminPatchEvent` |
| `promoteWaitlistedAttendees` | part of every action whose handler calls it (`Promotions`, `Promoted`); the rows skipped are those another session has locked |
| PostgreSQL's deadlock detector | `DeadlockVictim` (external): one transaction of a cycle is rolled back |

The step `claim` of a verification is the INSERT of the credit request, whose foreign key
needs a share lock on the event's row, which a sign-up may hold while it waits for
the RSVP: the cycle is real and only the detector ends it.

### FundingLedger

A shift may use the pool of its event's representative and the shared pool, in that
order (`Candidates`). Variables: `payment[d]` (the payment a donation row records),
`review[d]`, `credit[c]` (status, remaining, scope), `award[w]` (mode, pool, debit,
what it drew from each credit, the donation it names), `tx[t]`, and the history
variable `retargeted`.

| Code | Actions |
|---|---|
| `recordDonation` | `BeginIntake` (unlocked look-up), `RecordDonation`/`RecognisePayment` |
| top-up of an organisation's pool | `TopUp` |
| `applyManualDonationAllocation` | `BeginManual` (review lock), `CommitManual` |
| `runDueDonationPolicyAllocations` | `BeginPolicy` (selects the due reviews with SKIP LOCKED), `CommitPolicy` |
| `applyEarnShiftCreditAward` | `BeginAward`, `ReadPool` for each candidate, `AwardFromCredits` or `AwardFromBalance` |

`resolvePoolId` upserts the pool with ON CONFLICT DO UPDATE, which locks its row until
the transaction ends: this, and not a FOR UPDATE, is what serialises awards,
intakes and top-ups on a pool (`HoldsPool`). `Plan` is the greedy allocation over credits in
the order of `compareFundingCredits`.

### WalletRedemption

One volunteer; all the shifts of the instance are his. Variables beside those of
`CreditAward`: `redeemed[o]`, the debits of each offer, and `redeeming[c]`, the offer a connection has
found affordable. `BeginRedeem` is the advisory lock on the user with the SUM that follows, in one step:
only redemptions write debits and they take the same lock, so what else commits between
the two can only raise the balance. `CommitRedeem` is the two INSERTs and the COMMIT.

### UploadLifecycle

The files of one batch. Variables: `row[f]` (the row of intake_files and the replay row of
its decision), `object[f]` (the object in the bucket), `url` (files with a signed URL) and `tx[t]`, the
request each session serves with what it has read (`seen`, `version`, `gen`, `late`).

| Code | Actions |
|---|---|
| `reserveIntakeFileMetadata` | `BeginReserve` (unlocked look-ups by key and checksum), `CountActive` (the trigger), `InsertFile` (the unique index) |
| signed URL, the client's PUT, time | `RequestUploadUrl`, `PutObject` (if-generation-match 0), `Expire` |
| `confirmUpload` | `BeginConfirm`, `Locate`, then per transition `ReadTransition` and `WriteTransition`, `BindGeneration` before the last |
| `applyConfirmedSecurityAssessment` | `ReadFacts`, `Assess` |
| `compareAndSetPolicyDecision` | `BeginDecide`, `Decide` |
| `markIntakeFilePolicyBlocked` | `BlockFile` |

`Room` is the trigger that refuses an INSERT or UPDATE leaving a row active when the *other*
active rows have reached the limit. It counts committed rows, so it is a read of its own at the reservation.

### ParserRuns

Variables: those of `UploadContract`, `run[f]` (one run per file: status, retries, and whether its profile,
dictionary and sensitivity profile exist) and `worker[w]`, a tick or an operator: the step it is at,
its file, and the files still to do.

| Code | Actions |
|---|---|
| `runKaiP1WorkerTick` | `Sweep` (the first passed files by id), `StageFails`, `Crash` |
| `ensureQueuedParserRun`, retry of an activation | `Activate`, `Retry`, `Requeue` |
| `claimQueuedParserRun` | `Claim`, `LeaveRun` (not queued, or its row is locked) |
| the profiler, `completeParserRunWithProfile`, `failParserRunSafely` | `Profile`, `Complete`, `FailRun` |
| `draftDataDictionary`, `persistIntakeSensitivityProfile` | `DraftDictionary`, `PersistSensitivity` |

### KaiIntake

The variables of `UploadLifecycle`, and `run` and `worker` of `ParserRuns`, whose other three (stage, version and
verdict of each file) are read off the rows. A step is one of the uploads or one of the workers; a worker reads
`kai.intake_files` and never writes it. Here "the bytes" have a meaning that neither part has alone: `createP1ObjectVersionByteSource`
reads the object at the generation bound to the version and compares its checksum once more, and a difference would fail
the run, and after its retries the file, for good.

### DraftExport

One draft. Variables: `draft` (the request it was written for), `claims` (the evaluation of what it
cites: eligible, blocked, or refused for a mismatch), `review`, `exportReview`, the chain of limitation
snapshots (`posture`, `supersedes`), `candidate[c]` (the snapshot it is bound to) and `tx[s]`.

| Code | Actions |
|---|---|
| `createEvidenceSummaryDraft` | `ReserveDraft` (the key, the first evaluation), `PersistDraft` (the second evaluation, draft and review item) |
| start, complete the review | `StartReview`, `CompleteReview` (draft's row locked throughout) |
| request, start, complete the export review | `RequestExportReview`, `OpenExportReview`, `StartExportReview`, `CompleteExportReview` |
| `confirmLimitationSnapshot` | `BeginConfirm` (the query), `LockSnapshot` (the lock is granted), `AppendSnapshot` (the unique indexes decide) |
| `createExportCandidate` | `BeginCandidate`, `InsertCandidate` (ON CONFLICT on the fingerprint; the foreign key's share lock) |
| everything about claims | `EligibilityChanges` |

`PacketFits` is a constant because two repositories disagree: with the evaluator that
production wires, every review packet is refused (section 6); with the one the tests inject it is not.

### ClaimReview

The claims of some sources. Variables: `evidence[c]` and `claim[c]` (whether the item of evidence and the claim exist, and
the status of their reviews), `gaps`, `answered` and `accepted` (gap rows, resolved follow-ups, accepted limitations),
`conflicts`, and `tx[t]`, a conflict or an evaluation under way with what it has `seen`.

| Code | Actions |
|---|---|
| `extractEvidenceFromSourceVersion`, `proposeClaim`, `generateClaimGapsAndFollowups` | `ExtractEvidence`, `ProposeClaim`, `GenerateGaps` |
| `completeClientFollowup`, `completeEvidenceReview`, `completeClaimReviewInternalApproval` | `CompleteFollowup`, `CompleteEvidenceReview`, `CompleteClaimReview` |
| `createConflictReviewCandidate` | `ReadLowerClaim`, then `CreateConflict`/`RefuseConflict` |
| `evaluateClaimTraceabilityInTransaction` | `BeginEvaluation` (rows and strengths), `ReadReviews`, then `FindEligible`/`FindBlocked`, `UseEligible` |
| `acceptInternalCoverageLimitation` | the same evaluation, then `RecordAcceptance` |
| `getScopedSourceCandidateByIdentity`, FOR UPDATE | `Holds`, `Free`: every call waits for the candidate behind its claim |
| PostgreSQL's deadlock detector | `DeadlockVictim` (external) |

A call that locks one candidate before it reads what it decides on, and keeps it to its COMMIT, is one step. A review
and the strength it assesses are written by one commit into two rows, which an evaluation reads in two statements: an approval in
between is why `seen` holds facts and not a status. The audience is internal: for funders and the public
`approvalForAudience` refuses every claim.

## 3. Runs

| Run | Configuration | Shows |
|---|---|---|
| `credit_award` | `MCCreditAward.cfg` | all safety properties, finality, termination, the refinement of `ShiftClaims`, and the wallet that redemptions never overdraw |
| `rsvp_seats` | `MCEventRsvpSeats.cfg` | capacity, waitlist, offers and cancellation |
| `rsvp_attendance` | `MCEventRsvpAttendance.cfg` | role counters; the host never verifies a no-show; open transactions never stand still although lock orders differ |
| `ledger_spending` | `MCFundingLedger.cfg` | no credit spent twice, plans stay covered, what overdraws a pool, no circle of waiting awards |
| `ledger_review` | `MCFundingLedgerReview.cfg` | duplicates only by overlap; held until reviewed; manual decisions stand; every donation decided |
| `kai_uploads` | `MCUploadLifecycle.cfg` | the contract of an upload, its limit, retries; what is parsed is what was declared |
| `kai_parser` | `MCParserRuns.cfg` | one worker per run, artefacts in order, every listed file settles |
| `kai_exports` | `MCDraftExport.cfg` | one current candidate; the contract of a draft |
| `kai_claims` | `MCClaimReview.cfg` | an eligible claim is found rightly and stays so; crossing conflicts end |
| `rsvp_portal`, `ledger_held`, `kai_sweep` | their own | the disagreements of section 6 |

### Bounds and why they are enough

- `credit_award`: one shift, three requests, three sessions. No action and no
  property relates two shifts, so more of them only multiply states. Three
  requests let a claim be refused, opened again and refused again. There are four paths
  but a lock conflict involves two sessions, and three sessions let a third commit
  between two that conflict. The theorems of section 5 remove these bounds. The shift pays three credits,
  the offers cost one and two, and two connections redeem: either offer is affordable alone
  and after the other, and a third redemption is not.
- `rsvp_seats`: three volunteers for at most two seats, so that one is always waiting;
  capacity edited between unlimited, 1 and 2, the event cancelled or completed; two transactions at a time.
  `MaxFilled` is not below the number of volunteers, so that it is never in the way of a correct counter.
- `rsvp_attendance`: two volunteers and two roles of one spot, so that roles
  are contended for and changed; the handlers not called here do not touch no_show or roles
  other than as `rsvp_seats` has them. `RoleCounterFollowsSignups` speaks of each
  step, so that a long history adds no new case once every status, flag and counter
  value up to `MaxFilled` is reached.
- `ledger_spending`: a donation of 2 recorded once or twice, a top-up of 2, shifts of 1,
  2 and 2: a shift needs two credits, a credit serves two shifts, and there is not enough for all.
- `ledger_review`: two sessions and three donation ids, so that the third shows that there
  are never more rows than overlapping deliveries.
- `kai_uploads`: four reservation requests (`f4` retries `f1`'s with the same key and content, `f3` reuses
  `f2`'s key for another content), a limit of one active upload, so that two overlapping
  reservations are enough to exceed it, and two requests at a time. The client of one file goes on after its
  reservation: nothing in a confirmation relates two files but the trigger, which the other rows exercise. Two versions: a
  retry that minted a second one would be seen. One worker and one retry of the parser: what two workers do to each other
  is the subject of `kai_parser`, and here the question is what a worker finds in the row and in the bucket.
- `kai_parser`: two files and two workers, a tick that lists both, up to three retries as in the code.
  `kai_sweep`: a tick that lists one of two files.
- `kai_exports`: three sessions, since a fork needs two confirmations and a candidate in between a
  third; two contents under one idempotency key; two postures and three snapshots, so that a posture can
  come back (X, Y, X); two candidates, one for each posture.
- `kai_claims`: three claims of two sources and the suspected pairs (1, 2) and (2, 3), which lock the sources in opposite orders; two
  sessions, enough for a circle and for an approval inside an evaluation. One claim is evaluated and accepted, since nothing
  relates the evaluations of two; it is the lower one of a pair, the one that is read before the second lock. One
  unresolved dimension stands for all: each needs a gap, an acceptance and, if it goes to the client, an answer.
- Symmetry is used for safety and step properties only, never with liveness.

`kai_uploads`, `kai_parser` and `kai_sweep` do not check deadlock: when every
file is decided or profiled, nothing is left to do. What waiting for ever would mean is checked by the
liveness property of each.

### Fairness

Fairness is on transactions that have begun and on the cron job, never on people: no
volunteer, host or administrator has to act.

- `CreditAward`: weak fairness of a session's own statements, which nothing disables for
  good, and strong fairness of the statements that wait for a lock: PostgreSQL queues
  waiters, so a lock that becomes free again and again is granted in the end.
- `ClaimReview`: strong fairness of `Continue(t)`, for the same reason. `DeadlockVictim` is part of it:
  the detector runs after `deadlock_timeout`.
- `EventRsvp`: none. That its transactions do not stand still is the invariant `OpenTransactionsMove`, which needs no fairness.
- `FundingLedger`: strong fairness of `Continue(t)` and of `CommitPolicy(t)`, and of a run of the
  job that selects a given due review: the job runs every 15 minutes (`index.js:3588`) and selects every due
  review that is not locked.
- `UploadLifecycle` (and `KaiIntake`, whose workers need not act for an upload to be confirmed): weak fairness of a request's own statements, strong fairness of a client
  confirming again, and from some time on no request dies: `RetriedUploadConfirms` is about what
  failures leave behind, not about failures that never end.
- `ParserRuns`: weak fairness of a tick's steps. Strong fairness of `Sweep`, because the scheduler starts a tick every
  15 minutes whatever operators do, and of `Claim`, because two ticks that meet at every claim, in
  lockstep for ever, are not a schedule any clock produces. From some time on ticks stop failing.
- `WalletRedemption`, `DraftExport`: only safety is claimed.
- `Rollback` has no fairness and can always happen, but not so often that nothing ever commits:
  that is what strong fairness of `CommitPolicy` says, and where a decision is needed
  (`EveryDonationDecided`) it is an assumption about the environment.

## 4. What the properties say

**CreditAward.** `OneAwardPerShift`, `ApprovedIffPaid` (a request is approved if and only if
the shift was paid on it), `SettledShiftHasOneRequest`, `VerifiedShiftHasClaim`,
`DecisionsAreFinal` and, over all of them, `ImplementsShiftClaims`: whoever looks at a
shift only sees its one claim go from none to open to refused or settled and its pay go from
nothing to one award. The interleaving of four paths leaves no other trace.

**EventRsvp.** `CapacityRespected`: those seated, except the `outside` ones, fit the
capacity. `WaitlistedOnlyWhenFull` and `ReleasedSeatIsOffered` are the two halves of the
waitlist; the second allows for rows skipped because they were locked, which is the one way an offer can miss a
volunteer. `CancelledTakesNoSignups` says exactly what can still happen after a
cancellation. `RoleCounterFollowsSignups` says that `spots_filled` is exact but for the
steps `Unfollowed` names: on an RSVP already marked as a no-show, and on a
declined one that gets a seat back. `HostVerifiedAttended`: what the host verified is not a no-show.
`OpenTransactionsMove`: whatever waits for whatever, some open transaction waits for nobody, or is of two that wait for each other
and that the deadlock detector finds (`SomeoneCanGoOn`); whoever can go on has a statement for where it stands, whatever it
has read, and gets the locks of it (`MoversHaveStatements`; `HasStatement` spells out what each handler does next); and such a
statement can be run to its end (ENABLED).

**FundingLedger.** `RemainingMatchesAllocations` and `PlansStayCovered` together show that
`GREATEST` never hides anything. `OutOfScopeOnlyIfRetargeted` and
`OverdraftIsLegacySpending` bound what can go wrong instead of hoping that it
does not: a credit is spent off its target only when an administrator moved the target after an
award had planned, and a pool is overdrawn by no more than the legacy path
took from it. `DuplicatesNeedOverlap` does the same for redelivered webhooks.
`HeldUntilReviewed` and `ManualDecisionStands` are about the review, `EveryDonationDecided` about the job.
`NoCircularWait` says that awards, which take the locks of several pools, never wait for each other.

**WalletRedemption.** `NeverOverdrawn`: redemptions and awards of one wallet overlap, and still debits do not exceed credits.

**UploadLifecycle.** `ImplementsUploadContract` is the point: transitions on stale reads leave no trace but the
atomic steps of the contract. `OneRowPerChecksum` and `ReplayMatchesVerdict` are about
what the contract does not speak of, and so is `BytesAreDeclared`, from end to end: a confirmed file is bound to the declared bytes
(`ConfirmedIsDeclared`), and whatever a parser run is made for has in the bucket, at the generation of its version, the
declared bytes, which can be judged clean (`ParsedIsDeclared`). `OverfullNeedsOverlap` bounds what the trigger lets through: the
limit is exceeded by no more than reservations overlapped. `RetriedUploadConfirms` says that a
failed confirmation can be retried, with its two exceptions: the reservation expired, or the batch is *overfull*,
when the trigger refuses every UPDATE that leaves a row active, so that the batch is frozen until
a row leaves by another way.

**ParserRuns.** `OneWorkerPerRun`, `DerivedInOrder`, and `SweptFileSettles` with its exception: a run whose worker died stays
"running", and no code ever takes it up again (`Orphaned`).

**DraftExport.** `OneCurrentCandidate` and `ImplementsExportContract`: confirmations that hold a lock on a
superseded row, creations bound to a snapshot that is about to be superseded and
requests answered by one another never fork the chain, reopen a review, or give two answers to "which candidate is to be decided upon".

**ClaimReview.** `EligibleStaysEligible`: eligibility is final. It rests on two locks: the approval waits for the source that a
conflict holds for its lower claim, and so does the acceptance, so that no conflict can be raised behind the back of either.
`FoundIsEligible`: an evaluation that reads at READ COMMITTED is right whenever it says yes. It may say no of a state that was never
committed (section 6). `EveryTransactionEnds`: two conflicts that wait crosswise end.

## 5. Proofs

`CreditAwardProofs` proves, for any sets of shifts, request slots and sessions, infinite ones included
(the proofs cite no assumption but those of `CreditAward`: the markers `NoShift` and `NoSlot` are not members of them):

| Theorem | Statement |
|---|---|
| `Invariance` | `Spec => []IInv` |
| `TypeCorrect`, `PaidOnce`, `ApprovalPays`, `OneOpenRequest`, `NoLostClaim` | `TypeOK` and the four safety invariants of `CreditAward` |
| `Finality` | `Spec => DecisionsAreFinal` |
| `Refinement` | `Spec => ImplementsShiftClaims` |
| `NobodyWaitsInACircle`, `StepsAdvance` | `Spec => []NoCircularWait`, `Spec => [][\A t \in Sessions : Advances(t)]_vars` |

None of the safety properties is inductive: that a shift is paid once depends on what the session
that is about to pay has read, and on nobody having been able to change it since. `IInv` adds

1. `WellFormed(t)`: a session is at a step its path has, and remembers an award only at `commit`;
2. `LocksExclude`: two sessions on one shift never hold the same lock;
3. `ReadsStillHold`: what a session read under a lock is still true. An approving session's
   request is still pending, a session about to insert a request still finds none approved,
   and a session at `commit` remembers an award to insert if and only if the shift is unpaid.

The proof has a lemma for each action, resting on lemmas for each kind of change: a session begins
(`BecomesTx`), goes on (`GotoTx`), ends (`EndTx`), a request is edited, a shift is paid. Those
that pay need 2 to know that no other session is at `commit` with an award, and
then re-establish 3 for every other session. `Refinement` uses `IInv` in every step, since a
payment maps to a step of `ShiftClaims` only if the shift was unpaid and its request open.

The inductive invariants are not properties of the runs: TLC agreed to them on the runs' instances when they were found, and the proof is the check.

`EveryTransactionEnds` is a liveness property and stays with TLC; what makes it true is safety and is proved.
`NobodyWaitsInACircle`: any set of sessions has one that waits for none of them, since whoever holds a lock that somebody
waits for is at a later statement (`HoldersAreFurther`; the locks are taken in the order RSVP row, advisory lock, wallet index).
`StepsAdvance`: every step of a session ends its transaction or takes it to a later statement (`Rank`), so that it has
seven steps at most.

The same module proves of the wallet, for any offers, costs and connections and finitely many offers and shifts (`RowsFinite`:
they are rows of tables):

| Theorem | Statement |
|---|---|
| `RedemptionsStutter` | `WalletSpec => Spec`: to the awards, a redemption is a stuttering step |
| `PaidOnceWhileRedeeming`, `ApprovalPaysWhileRedeeming`, `ClaimsWhileRedeeming` | what follows for `WalletSpec` |
| `WalletCovered` | `WalletSpec => []NeverOverdrawn` |

`NeverOverdrawn` is not inductive: a redemption debits what an earlier SUM found. `WInv` adds that one connection at most has
found an offer affordable, and that the balance still covers it (`RedemptionCovered`). An award cannot take that back because
awards only raise what is earned, and that is read off the refinement: in `ShiftClaims` no step lowers what a shift was paid.

`UploadProofs`, for any files, contents, versions and limit and any finite set of sessions:

| Theorem | Statement |
|---|---|
| `Invariance`, `TypeCorrect` | `Spec => []IInv`, `Spec => []TypeOK` |
| `ChecksumOnce`, `LimitKept`, `DeclaredBytes`, `ReplayIsVerdict` | `Spec => []` of `OneRowPerChecksum`, `OverfullNeedsOverlap`, `ConfirmedIsDeclared`, `ReplayMatchesVerdict` |
| `CleanPasses` | `Spec => []PassedOnlyIfClean`: only confirmed files of acceptable content pass |
| `Refinement` | `Spec => ImplementsUploadContract` |
| `Composition` | `IntakeSpec => Spec /\ Parser!Spec`: uploads and workers together are a behaviour of each module |
| `DeclaredToTheProfile` | `IntakeSpec => []BytesAreDeclared` |

Its `IInv` says of each row what its state implies (`RowOK`: a version from
`uploaded_unconfirmed` on, a generation and the declared content once confirmed), of each request what it has learnt and can
rely on although it holds no lock (`RequestOK`), because generations, versions and verdicts are set once; that sessions reserve
different rows; and, for the limit, that the active rows *and those whose reservation has passed the trigger*
together stay below the limit plus the number of sessions, which is the inductive form of `OverfullNeedsOverlap`.

`Composition` rests on `Refinement`, step by step: a step of the uploads is one of the contract, and so one that `ParserRuns` allows, and
a step of the workers changes no row. The assumptions that `ParserRuns` makes of its constants are those of `KaiIntake` (`FilesRanked`,
`TickBounds`), so that by the rule for INSTANCE what `ParserProofs` proves holds of the whole; tlapm 1.4.5 cannot cite a theorem through
an INSTANCE, so this last inference is the reader's. `DeclaredToTheProfile` does not depend on it: its invariant `IntakeInv` adds to `IInv` that
a run is of a file that passed (`ParsedHasPassed`), which no step takes back because a verdict is final (`PassedStays`).

`ParserProofs`, for any files, workers, sweep limit and cap on retries, above any upload that keeps its contract:
`Invariance`, `TypeCorrect`, `OneProfiler` (`OneWorkerPerRun`) and `InOrder` (`DerivedInOrder`). `IInv` ties the place of a worker to the
status of its run and needs that no two are between the claim and the end of one run. `RunsMoveForward` is the safety under
`SweptFileSettles`: every step that writes a run raises its `Height` (retries first, then status and artefacts), which is at most
`3 * MaxRetries + 2`. So overlapping ticks, replays, operators and crashes cannot keep a run going round, and it is written that
often at most; the bound is reached.

`DraftExportProofs`, for any sessions, contents, postures, snapshots and candidates: `Invariance`, `TypeCorrect`, `OneAnswer`
(`OneCurrentCandidate`) and `Refinement` (`ImplementsExportContract`). `IInv` says that the snapshots are one chain with
at most one current end (`ChainOK`), that fingerprints are unique (`CandidatesOK`), and, for each
transaction, the facts it has seen and still relies on (`Relies`): that a review is
resolved, that its snapshot exists, that the entries it appends differ from its predecessor's.

`ClaimReviewProofs`, for any claims, candidates, suspected pairs, dimensions and sessions: `Invariance`, `TypeCorrect`,
`EvaluationIsRight` (`FoundIsEligible`) and `EligibilityIsFinal` (`EligibleStaysEligible`). Its `Inv` says that the lower claim of a
conflict under way is still unreviewed, which only the approval could change and the approval waits for the candidate
(`LowerClaimWaits`), and that what an evaluation has seen is true (`SeenIsTrue`). Every step only adds (`Grows`), but for
conflicts, which it adds to unreviewed claims only; an eligible claim is reviewed.

`EventRsvpProofs`, for any roles, capacities and sessions and any finite set of volunteers:

| Theorem | Statement |
|---|---|
| `Invariance`, `TypeCorrect` | `Spec => []IInv`, `Spec => []TypeOK` |
| `NoOversoldEvent`, `VerifiedAttended` | `CapacityRespected`, `HostVerifiedAttended` |
| `WaitlistJoinedOnlyWhenFull`, `SeatsAreOffered` | `WaitlistedOnlyWhenFull`, `ReleasedSeatIsOffered` |
| `CancelledStaysClosed`, `RoleCountersFollow` | `CancelledTakesNoSignups`, `RoleCounterFollowsSignups` |
| `NobodyStandsStill`, `NoAnswerLeavesItOpen` | `Spec => []SomeoneCanGoOn`, `Spec => []MoversHaveStatements`, the two parts of `OpenTransactionsMove` without ENABLED |
| `StepsAdvance` | `Spec => [][\A t \in Sessions : Advances(t)]_vars` |

`CapacityRespected` is not inductive: an approval writes what an earlier statement counted. `IInv` adds that one session
at most holds the event's row and one each RSVP (`OneEventHolder`, `OneRsvpHolder`), and for each session that is about to write
(`Relies`) that its count lies between the seats the check answers for and all seats taken. The lower bound gives
`CapacityRespected`, the upper one `WaitlistedOnlyWhenFull`; both survive the steps of others, which without the event's
row can give a seat up or take one outside the check, but not take one through it. Three lemmas on top of
`FiniteSetTheorems` handle the cardinalities (`PeopleAreCounted`, `OneMorePerson`, `SeatsAreCounted`). The action properties follow from
`IInv` and a lemma for each action that says which RSVPs and counters it writes.

`FundingLedgerProofs`, for any finite sets of donations, top-ups, pools, shifts and sessions, and any amounts:

| Theorem | Statement |
|---|---|
| `Invariance` | `Spec => []Inv` |
| `HoldIsKept`, `ManualIsFinal` | `HeldUntilReviewed`, `ManualDecisionStands` |
| `DrawsWithinScope` | `OutOfScopeOnlyIfRetargeted` |
| `DeliveriesBound` | `DuplicatesNeedOverlap` |
| `AwardsNeverDeadlock` | `NoCircularWait` |
| `BooksInvariant`, `LedgerTypes` | `Spec => []Books`, `Spec => []TypeOK` |
| `SpentOnce`, `PlansCovered` | `RemainingMatchesAllocations`, `PlansStayCovered` |
| `OverdraftBound` | `OverdraftIsLegacySpending` |

`Inv` says what an award may rely on although it holds no lock on a credit (`Sound`): every credit it plans to draw on is
out, and of its shift's scope or retargeted since. No step takes that back, as a credit never returns to its hold and a decision on a
decided review is recorded in `retargeted`. `DuplicatesNeedOverlap` becomes inductive by counting, for each payment, its rows *and
the deliveries that have found none*. `AwardsNeverDeadlock` needs no invariant but the order of the candidates: in any set of
waiting awards one waits for the shared pool, which then nobody in the set holds, or none holds anything.

The amounts need more, and `Books` is inductive next to `Inv`. That no credit is spent twice (`RemainingMatchesAllocations`) holds because
`GREATEST(remaining - x, 0)` never cuts anything off, that is because a plan stays covered (`PlansStayCovered`) while other
transactions write. It does because a plan is made of credits of pools that the award has read and still
holds (`PlansOfHeldPools`), a pool is held by one transaction (`PoolsExclude`), and nobody else lowers what its credits have left.
`PoolsBalance` says of each pool that what came in is what its credits have left plus what semantic awards paid;
`UnpaidOwesNothing` keeps unpaid shifts out of the sums. `OverdraftIsLegacySpending` follows without being inductive itself: the balance of a pool is
what its credits have left less what the legacy path took (`BalanceIsLeftLessLegacy`), and what they have left is not negative.

`SumProofs` has what both need to know of sums: of a function that is zero, natural, pointwise a sum, larger, or changed
in one place, and of a part of its domain. The induction principles of the library take a predicate, which the provers cannot
instantiate. `SubsetInduction` therefore speaks of the *set* of subsets for which the claim holds, and rests on the library's facts that
the strict subsets of a finite set are well-founded and that in a well-founded order a nonempty set has a minimal element.

`NobodyStandsStill` (`EventRsvpProofs`) proves `SomeoneCanGoOn`, for any number of sessions: if an open transaction waits, then for
one that holds the event or an RSVP; attendance that holds an RSVP waits at most for a sign-up (`AttendanceGoesOn`), and a sign-up
at most for the holder of an RSVP that waits for nobody, or for the sign-up itself (`SignupGoesOn`), in which case the detector finds the two. There are no longer circles.

`NoAnswerLeavesItOpen` needs besides that each handler is at a statement it has (`Fits`, inductive next to `IInv`), and that a promotion
always exists: a finite waitlist has a part of every size up to its own (`PartOfEverySize`). `StepsAdvance` says that each statement ends
its transaction or is followed by a later one and that no other session moves it, so that there are four at most. Together: open
transactions never stand still and cannot go on for ever.

Only model-checked: what needs fairness, that is `EveryTransactionEnds` (of `CreditAward` and `ClaimReview`), `EveryDonationDecided`,
`RetriedUploadConfirms` and `SweptFileSettles`; and the one part of `OpenTransactionsMove` about ENABLED, that a statement with
its locks and reads as `HasStatement` describes them is an enabled action. TLC checks them on the instances of section 3.
No module with theorems declares or reaches a RECURSIVE operator; the models use functions
and the sums of the community modules.

## 6. Where the code and its words disagree

| Run | Statement | Code |
|---|---|---|
| `rsvp_portal` | "No-show RSVP cannot be verified" (`controllers/eventsApiController.js:1552`) | `awardIcForRsvp` looks at neither status nor no_show, verifies and pays |
| `ledger_held` | "Donations are reviewed before allocation." (`frontend/donate.jsx:161`) | the legacy path names, and spends the balance of, a donation whose credit is held |
| `kai_sweep` | a tick "discovers eligible intake files inside exactly one configured synthetic organization scope and hands each one" on (`Backend/kai/parsing/p1WorkerRuntime.js:15`) | the query lists the first 25 passed files by id, the finished ones too (`kaiIntakeQueries.js:334`), so that later files are never reached |

Seen in the models and not made a run of their own:

- `completeEvent` (`controllers/meEventsApiController.js:951-960`) writes "completed" over a
  cancellation made after it read the status.
- Signing up for a full role stores "pending" (`services/eventRsvpService.js:354`) although the message
  in the next line says that the volunteer is on the waitlist.
- A webhook that fails in processing is answered with 200
  (`controllers/squareWebhooksController.js:84`), so Square does not deliver it again.
- The portal pays without drawing on any pool (`Backend/services/icService.js`).
- "Accept the invite before checking in" (`controllers/eventsApiController.js:1329`): the status is read
  without a lock, and a volunteer who declines in between is checked in.
- Accepting after a no-show keeps no_show and counts; declining looks at no_show and does not count back. These are
  the steps `Unfollowed` names; `scripts/test-phase-2e-2.js:239` expects the counter to follow.

In KAI's uploads and parser:

- Nothing calls the transitions to expired, abandoned or policy_blocked (the last one only through the unwired decision): an
  expired reservation keeps its slot in the batch and its checksum in the unique index, and "Reserve a new intake
  file" (`kaiIntakeService.js:1263`) cannot be followed for the same content.
- An overfull batch is frozen, as `RetriedUploadConfirms` says.
- `kaiIdempotentWriteConflict` is thrown by tests only: a unique violation of PostgreSQL is answered with 500. The
  idempotency key has no unique index.
- `createReservedUploadLifecycle` is never called; `compareAndSetPolicyDecision` only by `security/syntheticAssessmentPolicyComposition.js:150`,
  which nothing wires; parser retries have no caller in production. They are modelled as the operations they are.

In KAI's claims:

- "Every input must already be an authoritative, freshly-read fact" (`Backend/kai/validators/kaiCoverageReviewDecisionValidators.js:48-49`).
  An acceptance whose evaluation overlaps an approval records the fingerprint of a state that was never committed, such as a resolved review
  with an unassessed strength. It is answered as a success, matches nothing, and the person has to accept again.
- No code resolves a conflict: a claim in one never becomes eligible.
- No claim is ever eligible for funders or the public.

In KAI's drafts and exports:

- `validateTraceabilityData` (`postgresGeneratedContentRepository.js:543`) does not admit `updated_at` in the
  evidence, and `evaluateClaimTraceabilityInTransaction` (`postgresClaimTraceabilityRepository.js:619-627`) returns it: with the evaluator of
  production every review packet is refused, and only evaluators the tests inject get past it.
- The candidate's fingerprint leaves out the snapshot's id. After confirming X, Y and X again, `createExportCandidate` replays
  the candidate bound to the first, superseded X, and no candidate is current or can become so; the notes on the foundation
  (`scripts/kai-sprint2-p3-16-export-candidate-foundation-patch-notes.md:139-141`) say otherwise.
- A candidate can be born stale: its INSERT waits for the very confirmation that supersedes its snapshot (notes, lines 125-127).
- A confirmation that waited for the lock can answer with a superseded snapshot as if it were in force.
- A replay of a start or completion must carry the same `now`, which is minted per request: a retried request gets 409.
- The routes of the export review (`routes/sprint2IntakeApi.js:988`, `:1032`) do not pass what the service demands, its request
  and the export candidates have no route, and the final human authority is hard-coded to false: this part is dormant code.

## 7. Not modelled inside the modelled parts

- Formatting, mail, calendar files, notifications; authorisation (who may call a handler),
  which is a check on the caller and not a protocol.
- `EventRsvp`: drafts and publication, deletion, creating and removing roles, ghost volunteers, the times of an
  event (a handler that needs the event to have begun may always be called).
- `FundingLedger`: `expires_at` (nothing sets it), the minutes apportioned to receipts, refunds (no handler),
  the policy's ranking of targets (a choice among the eligible ones); `SourceRank` merges org_topup,
  subscription and admin_grant, whose credits the intake does not tell apart otherwise.
- The payment's status: only captured payments are delivered.
- `UploadLifecycle`: batches and their scope checks; the upload through the server (the local adapter is not
  configured in production, and only bucket rows are modelled); what an assessor looks for in the bytes (`Judgements`
  is what it may find); abandonment and expiry as transitions, which nothing calls.
- `ParserRuns`: what a profile, dictionary or sensitivity profile contains; the organisations, of which a tick has one.
- `DraftExport`: the text and citations of a draft, which never change; roles and audiences; one draft under one key. Every query
  of these tables is by the draft, so a second draft adds nothing.
- `ClaimReview`: what evidence, claims, gaps and questions say; the promotion that makes a source's candidate authoritative (one
  transaction under `FOR UPDATE` of that candidate, long before a claim refers to it); the compare-and-set on `updated_at`, which behind
  the lock compares what the person saw with what is there and can only refuse; audiences other than internal.

## 8. Plan

Done: every module of section 2, with proofs about all components; every safety property of the runs is a theorem.

Left to prove: the safety under the other liveness properties, as it is done for `EveryTransactionEnds` of `CreditAward`, for
`SweptFileSettles` and for the transactions of `EventRsvp`; next that a confirmation and a decision on a donation only ever move forward.

Left to model: the promotion of sources in front of `ClaimReview`; matching and drafts of events, should their handlers come to share
state with sign-ups; the export routes, once the services they call are wired (section 6).
