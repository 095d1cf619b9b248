--------------------------- MODULE UploadLifecycle ---------------------------
(***************************************************************************)
(* The upload of intake files of one batch through the bucket.             *)
(*                                                                         *)
(* A request reserves a row of kai.intake_files; the client asks for a     *)
(* signed URL and puts the bytes in the bucket itself; a confirmation then *)
(* finds the object, verifies its bytes and takes the row through its      *)
(* remaining states, one transaction per transition, and at last has the   *)
(* bytes assessed.  Clients retry and requests of one file overlap; a      *)
(* request may die between any two of its statements.                      *)
(*                                                                         *)
(* One step is one statement whose reads can go stale: each transition is  *)
(* an unlocked read followed by an UPDATE that compares the state only.    *)
(***************************************************************************)
EXTENDS Naturals, FiniteSets

CONSTANTS
    Files,          \* ids of rows (the uuid a request draws)
    Clients,        \* the files whose client goes on after the reservation
    Contents,       \* what the bytes of an object can be, named by checksum
    Versions,       \* provider-neutral object version ids
    Keys,           \* idempotency keys of reservation requests
    Sessions,       \* requests being served
    KeyOf, Declared,    \* the key and the declared checksum of a row's request
    Judgements,     \* the verdicts the assessment can give a content
    Limit,          \* active uploads of a batch
    None

ASSUME ClientsOfFiles == Clients \subseteq Files
ASSUME RequestTypes == KeyOf \in [Files -> Keys] /\ Declared \in [Files -> Contents]
ASSUME JudgementTypes ==
    Judgements \in [Contents -> SUBSET {"passed", "failed", "blocked"}]
ASSUME LimitPositive == Limit \in Nat \ {0}
ASSUME SessionsFinite == IsFiniteSet(Sessions)
ASSUME NotNone == None \notin Versions \cup Contents \cup Files

VARIABLES
    row,        \* kai.intake_files and the replay row of the decision
    object,     \* the object of each file in the bucket: generation, content
    url,        \* the files a signed upload URL was given for
    tx          \* the request each session is serving

vars == <<row, object, url, tx>>

PreConfirmation == {"reserved", "upload_started", "uploaded_unconfirmed"}
States == PreConfirmation \cup {"none", "confirmed", "policy_blocked"}
Policies == {"pending", "passed", "failed", "blocked"}

\* A bucket object is written at most once, so 1 is its only generation; 0
\* stands for "no object" and for a gcs_generation that is null.
Generations == 0 .. 1

Rows == [state: States, version: Versions \cup {None}, gen: Generations,
         policy: Policies, replay: (Policies \ {"pending"}) \cup {None},
         due: BOOLEAN]
Objects == [gen: Generations, content: Contents \cup {None}]

\* The transitions of a confirmation, their edges and the step after each.
Transitions == {"start", "complete", "confirm"}
Expected == [k \in Transitions |-> CASE k = "start" -> "reserved"
                                     [] k = "complete" -> "upload_started"
                                     [] k = "confirm" -> "uploaded_unconfirmed"]
Target == [k \in Transitions |-> CASE k = "start" -> "upload_started"
                                   [] k = "complete" -> "uploaded_unconfirmed"
                                   [] k = "confirm" -> "confirmed"]
After == [k \in Transitions |-> CASE k = "start" -> "complete"
                                  [] k = "complete" -> "bind"
                                  [] k = "confirm" -> "facts"]

Steps == {"idle", "count", "insert", "locate", "bind", "facts", "assess", "decide"}
         \cup Transitions

\* seen: the state of the row the request read; write: its transition has
\* been allowed and the UPDATE comes next; late: its clock is past the expiry.
Requests == [step: Steps, write: BOOLEAN, file: Files \cup {None}, late: BOOLEAN,
             seen: States, version: Versions \cup {None}, gen: Generations]

Idle == [step |-> "idle", write |-> FALSE, file |-> None, late |-> FALSE,
         seen |-> "none", version |-> None, gen |-> 0]

TypeOK ==
    /\ row \in [Files -> Rows]
    /\ object \in [Files -> Objects]
    /\ url \subseteq Files
    /\ tx \in [Sessions -> Requests]

NoRow == [state |-> "none", version |-> None, gen |-> 0, policy |-> "pending",
          replay |-> None, due |-> FALSE]

Init ==
    /\ row = [f \in Files |-> NoRow]
    /\ object = [f \in Files |-> [gen |-> 0, content |-> None]]
    /\ url = {}
    /\ tx = [t \in Sessions |-> Idle]

Active == {f \in Files : row[f].state \in PreConfirmation}

\* Mutant: the trigger refuses only above the limit.
RoomAboveLimit(f) == Cardinality(Active \ {f}) <= Limit

\* The trigger on every INSERT and UPDATE that leaves a row active: the other
\* active rows of the batch are below the limit, or the statement fails.
Room(f) == Cardinality(Active \ {f}) < Limit

Begin(t, step, f) ==
    tx' = [tx EXCEPT ![t] = [Idle EXCEPT !.step = step, !.file = f]]
Goto(t, step) == tx' = [tx EXCEPT ![t].step = step, ![t].write = FALSE]
End(t) == tx' = [tx EXCEPT ![t] = Idle]

\* A request that dies, is refused or fails: what it committed stays.
Rollback(t) ==
    /\ tx[t] # Idle
    /\ End(t)
    /\ UNCHANGED <<row, object, url>>

(***************************************************************************)
(* reserveIntakeFileMetadata.                                              *)
(***************************************************************************)

\* No row of this key and none of this checksum: a request that finds one is
\* answered with a replay, a conflict or a blocker and changes nothing.
BeginReserve(t, f) ==
    /\ tx[t] = Idle
    /\ \A g \in Files : row[g].state # "none" =>
           KeyOf[g] # KeyOf[f] /\ Declared[g] # Declared[f]
    /\ \A u \in Sessions : tx[u].file # f
    /\ Begin(t, "count", f)
    /\ UNCHANGED <<row, object, url>>

\* The INSERT: first its trigger counts the active rows.
CountActive(t) ==
    LET f == tx[t].file IN
    /\ tx[t].step = "count"
    /\ IF Room(f) THEN Goto(t, "insert") ELSE End(t)
    /\ UNCHANGED <<row, object, url>>

\* Mutant: no unique index on the declared checksum.
InsertAnyChecksum(t) ==
    LET f == tx[t].file IN
    /\ tx[t].step = "insert"
    /\ row' = [row EXCEPT ![f].state = "reserved"]
    /\ End(t)
    /\ UNCHANGED <<object, url>>

\* Then the unique index on the declared checksum lets it in or not.
InsertFile(t) ==
    LET f == tx[t].file IN
    /\ tx[t].step = "insert"
    /\ row' = IF \E g \in Files : row[g].state # "none" /\ Declared[g] = Declared[f]
              THEN row ELSE [row EXCEPT ![f].state = "reserved"]
    /\ End(t)
    /\ UNCHANGED <<object, url>>

(***************************************************************************)
(* The client: a signed URL, the upload, and time.                         *)
(***************************************************************************)

RequestUploadUrl(f) ==
    /\ row[f].state = "reserved" /\ f \notin url
    /\ url' = url \cup {f}
    /\ UNCHANGED <<row, object, tx>>

\* The client puts any bytes; the signed headers demand generation 0, that is
\* an object that does not exist yet.
PutObject(f, c) ==
    /\ f \in url /\ object[f].gen = 0
    /\ object' = [object EXCEPT ![f] = [gen |-> 1, content |-> c]]
    /\ UNCHANGED <<row, url, tx>>

\* upload_expires_at passes; a request compares it with its own clock.
Expire(f) ==
    /\ row[f].state \in PreConfirmation /\ ~row[f].due
    /\ row' = [row EXCEPT ![f].due = TRUE]
    /\ UNCHANGED <<object, url, tx>>

(***************************************************************************)
(* confirmUpload.                                                          *)
(***************************************************************************)

BeginConfirm(t, f) ==
    /\ tx[t] = Idle
    /\ row[f].state \in PreConfirmation \cup {"confirmed"}
    /\ tx' = [tx EXCEPT ![t] = [Idle EXCEPT !.step = "locate", !.file = f,
                  !.late = row[f].due, !.seen = row[f].state,
                  !.version = row[f].version]]
    /\ UNCHANGED <<row, object, url>>

FirstStep(seen) == CASE seen = "reserved" -> "start"
                     [] seen = "upload_started" -> "complete"
                     [] OTHER -> "bind"

Unused == {v \in Versions : /\ \A f \in Files : row[f].version # v
                            /\ \A u \in Sessions : tx[u].version # v}

\* Mutant: every confirmation mints a version of its own.
MintedFor(t) == Unused

\* The version the request continues with: the one it read, the one of the
\* binding, or a new one.
VersionFor(t) ==
    LET r == row[tx[t].file] IN
    IF tx[t].version # None THEN {tx[t].version}
    ELSE IF r.gen # 0 THEN {r.version} ELSE Unused

\* Mutant: the object found is not verified.
LocateUnverified(t) ==
    LET f == tx[t].file IN
    /\ tx[t].step = "locate"
    /\ IF object[f].gen # 0
       THEN \E v \in VersionFor(t) :
                tx' = [tx EXCEPT ![t].step = FirstStep(tx[t].seen), ![t].version = v,
                                 ![t].gen = object[f].gen]
       ELSE End(t)
    /\ UNCHANGED <<row, object, url>>

\* Find the generation (bound already, or the head of the bucket) and verify
\* that exactly its bytes have the declared checksum.
Locate(t) ==
    LET f == tx[t].file IN
    /\ tx[t].step = "locate"
    /\ IF object[f].gen # 0 /\ object[f].content = Declared[f]
       THEN \E v \in VersionFor(t) :
                tx' = [tx EXCEPT ![t].step = FirstStep(tx[t].seen), ![t].version = v,
                                 ![t].gen = object[f].gen]
       ELSE End(t)
    /\ UNCHANGED <<row, object, url>>

\* transitionUploadLifecycle, the read: a replay goes on to the next step
\* when the facts match, a refused transition ends the request.
Replayed(t, k) ==
    LET r == row[tx[t].file] IN
    /\ r.state = Target[k]
    /\ k # "start" => r.version = tx[t].version

Allowed(t, k) ==
    LET r == row[tx[t].file] IN
    /\ r.state = Expected[k] /\ ~tx[t].late
    /\ k = "confirm" => r.version = tx[t].version

ReadTransition(t, k) ==
    /\ tx[t].step = k /\ ~tx[t].write
    /\ \/ Replayed(t, k) /\ Goto(t, After[k])
       \/ Allowed(t, k) /\ tx' = [tx EXCEPT ![t].write = TRUE]
       \/ ~Replayed(t, k) /\ ~Allowed(t, k) /\ End(t)
    /\ UNCHANGED <<row, object, url>>

\* Mutant: the UPDATE does not compare the state.
UncheckedTransition(t, k) ==
    LET f == tx[t].file IN
    /\ tx[t].step = k /\ tx[t].write
    /\ IF Target[k] \in PreConfirmation => Room(f)
       THEN /\ row' = [row EXCEPT ![f].state = Target[k],
                  ![f].version = IF k = "complete" THEN tx[t].version ELSE row[f].version]
            /\ Goto(t, After[k])
       ELSE UNCHANGED row /\ End(t)
    /\ UNCHANGED <<object, url>>

\* The UPDATE compares the state again and passes the trigger, or the
\* request ends.
WriteTransition(t, k) ==
    LET f == tx[t].file IN
    /\ tx[t].step = k /\ tx[t].write
    /\ IF row[f].state = Expected[k] /\ (Target[k] \in PreConfirmation => Room(f))
       THEN /\ row' = [row EXCEPT ![f].state = Target[k],
                  ![f].version = IF k = "complete" THEN tx[t].version ELSE row[f].version]
            /\ Goto(t, After[k])
       ELSE UNCHANGED row /\ End(t)
    /\ UNCHANGED <<object, url>>

\* bindGcsGeneration: for the row's version only, and once.
BindGeneration(t) ==
    LET f == tx[t].file IN
    /\ tx[t].step = "bind"
    /\ \/ /\ row[f].version = tx[t].version /\ row[f].gen = tx[t].gen
          /\ UNCHANGED row
          /\ Goto(t, "confirm")
       \/ /\ row[f].version = tx[t].version /\ row[f].gen = 0
          /\ row[f].state \in PreConfirmation => Room(f)
          /\ row' = [row EXCEPT ![f].gen = tx[t].gen]
          /\ Goto(t, "confirm")
       \/ /\ \/ row[f].version # tx[t].version
             \/ row[f].gen \notin {0, tx[t].gen}
             \/ row[f].gen = 0 /\ row[f].state \in PreConfirmation /\ ~Room(f)
          /\ UNCHANGED row
          /\ End(t)
    /\ UNCHANGED <<object, url>>

(***************************************************************************)
(* The verdict: applyConfirmedSecurityAssessment at the end of a           *)
(* confirmation, compareAndSetPolicyDecision, and an administrator.        *)
(***************************************************************************)

ReadFacts(t) ==
    LET r == row[tx[t].file] IN
    /\ tx[t].step = "facts"
    /\ IF r.version = tx[t].version /\ r.policy = "pending"
       THEN Goto(t, "assess") ELSE End(t)
    /\ UNCHANGED <<row, object, url>>

\* Mutant: the verdict is written over one given in the meantime.
AssessAnyway(t) ==
    LET f == tx[t].file IN
    /\ tx[t].step = "assess"
    /\ \E outcome \in Judgements[object[f].content] :
           row' = [row EXCEPT ![f].policy = outcome]
    /\ End(t)
    /\ UNCHANGED <<object, url>>

\* casSecurityAssessmentFilePolicyDecision of what the bytes are found to be.
Assess(t) ==
    LET f == tx[t].file IN
    /\ tx[t].step = "assess"
    /\ \E outcome \in Judgements[object[f].content] :
           row' = IF row[f].policy = "pending" /\ row[f].version = tx[t].version
                  THEN [row EXCEPT ![f].policy = outcome] ELSE row
    /\ End(t)
    /\ UNCHANGED <<object, url>>

BeginDecide(t, f) ==
    /\ tx[t] = Idle
    /\ row[f].state = "confirmed" /\ row[f].replay = None /\ row[f].policy = "pending"
    /\ Begin(t, "decide", f)
    /\ UNCHANGED <<row, object, url>>

\* The replay row is inserted unless there is one; a failure to insert it is
\* an answer and not an error, so that the update is committed all the same.
Decide(t) ==
    LET f == tx[t].file IN
    /\ tx[t].step = "decide"
    /\ \E outcome \in Judgements[object[f].content] :
           row' = IF row[f].state = "confirmed" /\ row[f].policy = "pending"
                  THEN [row EXCEPT
                          ![f].policy = outcome,
                          ![f].state = IF outcome = "blocked" THEN "policy_blocked" ELSE @,
                          ![f].replay = IF @ = None THEN outcome ELSE @]
                  ELSE row
    /\ End(t)
    /\ UNCHANGED <<object, url>>

\* markIntakeFilePolicyBlocked changes the verdict and not the upload state.
BlockFile(f) ==
    /\ row[f].state # "none" /\ row[f].policy = "pending"
    /\ row[f].state \in PreConfirmation => Room(f)
    /\ row' = [row EXCEPT ![f].policy = "blocked"]
    /\ UNCHANGED <<object, url, tx>>

(***************************************************************************)
(* The system.                                                             *)
(***************************************************************************)

Continue(t) ==
    \/ CountActive(t) \/ InsertFile(t) \/ Locate(t)
    \/ \E k \in Transitions : ReadTransition(t, k) \/ WriteTransition(t, k)
    \/ BindGeneration(t) \/ ReadFacts(t) \/ Assess(t) \/ Decide(t)

Client(f) ==
    \/ RequestUploadUrl(f) \/ Expire(f) \/ BlockFile(f)
    \/ \E c \in Contents : PutObject(f, c)
    \/ \E t \in Sessions : BeginConfirm(t, f) \/ BeginDecide(t, f)

Work ==
    \/ \E t \in Sessions : Continue(t)
    \/ \E t \in Sessions, f \in Files : BeginReserve(t, f)
    \/ \E f \in Clients : Client(f)

Next == Work \/ \E t \in Sessions : Rollback(t)

Spec == Init /\ [][Next]_vars

\* For liveness: requests go on, a client confirms again as long as his file
\* is not confirmed, and at some time requests stop failing.
Fairness ==
    /\ \A t \in Sessions : WF_vars(Continue(t))
    /\ \A f \in Clients : SF_vars(\E t \in Sessions : BeginConfirm(t, f))
    /\ <>[][Work]_vars

FairSpec == Spec /\ Fairness

(***************************************************************************)
(* Properties.                                                             *)
(***************************************************************************)

\* At most one row of an organisation has a given declared checksum, although
\* two requests can both find none (findIntakeFileReservationByChecksum).
OneRowPerChecksum ==
    \A f, g \in Files :
        /\ row[f].state # "none" /\ row[g].state # "none"
        /\ Declared[f] = Declared[g]
        => f = g

\* The trigger counts committed rows, so concurrent reservations can exceed
\* the limit of active uploads, but by no more than overlapped the last one.
OverfullNeedsOverlap == Cardinality(Active) < Limit + Cardinality(Sessions)

\* A confirmed file has an object version bound to a generation that is in
\* the bucket with the declared content, however the confirmations, retries
\* and uploads of the file interleave (confirmGcsObjectVersion).
ConfirmedIsDeclared ==
    \A f \in Files : row[f].state = "confirmed" =>
        /\ row[f].version # None /\ row[f].gen # 0
        /\ object[f] = [gen |-> row[f].gen, content |-> Declared[f]]

\* Only a confirmed file passes, and only if its content can be judged so.
PassedOnlyIfClean ==
    \A f \in Files : row[f].policy = "passed" =>
        row[f].state = "confirmed" /\ "passed" \in Judgements[object[f].content]

\* The decision kept for replay is the verdict the file has: no other writer
\* changes it afterwards, and none decided before it was kept.
ReplayMatchesVerdict ==
    \A f \in Files : row[f].replay # None => row[f].replay = row[f].policy

Contract == INSTANCE UploadContract WITH
    stage <- [f \in Files |-> row[f].state],
    version <- [f \in Files |-> row[f].version],
    verdict <- [f \in Files |-> row[f].policy]

\* Every step, however stale what it read, is a step of the contract: states
\* are passed in order, a version is set once, a verdict is given once.
ImplementsUploadContract == Contract!Spec

\* A failure anywhere in a confirmation leaves the file "retry-safe rather
\* than stranded": once the declared bytes are in the bucket and the client
\* confirms again, the file is confirmed unless it expired, or the batch has
\* more active uploads than its limit, when every transition is refused.
RetriedUploadConfirms ==
    \A f \in Clients :
        object[f].content = Declared[f] /\ row[f].state \in PreConfirmation
        ~> \/ row[f].state \notin PreConfirmation
           \/ row[f].due
           \/ Cardinality(Active) > Limit
=============================================================================
