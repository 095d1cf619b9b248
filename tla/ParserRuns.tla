----------------------------- MODULE ParserRuns -----------------------------
(***************************************************************************)
(* The worker that profiles the files the upload lifecycle has passed.     *)
(*                                                                         *)
(* Every 15 minutes a tick lists the first passed files of the configured  *)
(* organisation and takes them one by one through the parser run (queue,   *)
(* claim, profile, complete or fail), the data dictionary and the          *)
(* sensitivity profile.  Ticks of several instances, and slow ticks of     *)
(* one, overlap; a process may die between any two statements.  Nobody but *)
(* an operator retries a failed run.                                       *)
(*                                                                         *)
(* The lifecycle is composed in as the contract it keeps (UploadContract). *)
(***************************************************************************)
EXTENDS Naturals, FiniteSets

CONSTANTS
    Files, Versions, None,
    Workers,        \* ticks, and operators, that may be at work at a time
    Rank,           \* the order of intake_file_id
    SweepLimit,     \* how many files one tick lists
    MaxRetries      \* MAX_PARSER_RETRY_COUNT

ASSUME FilesFinite == IsFiniteSet(Files) /\ None \notin Files
ASSUME RankOrders ==
    Rank \in [Files -> Nat] /\ \A f, g \in Files : Rank[f] = Rank[g] => f = g
ASSUME Bounds == SweepLimit \in Nat \ {0} /\ MaxRetries \in Nat \ {0}

VARIABLES
    stage, version, verdict,    \* the files, as the upload lifecycle keeps them
    run,        \* kai.intake_parser_runs and what is derived from its profile
    worker      \* what each tick is doing

uploads == <<stage, version, verdict>>
vars == <<stage, version, verdict, run, worker>>

Upload == INSTANCE UploadContract

Statuses == {"none", "queued", "running", "completed", "failed"}
Runs == [status: Statuses, retries: 0 .. MaxRetries, profiles: 0 .. 1,
         dictionary: BOOLEAN, sensitivity: BOOLEAN]
Steps == {"idle", "activate", "claim", "profile", "complete", "fail", "requeue",
          "dictionary", "sensitivity"}
Ticks == [step: Steps, file: Files \cup {None}, todo: SUBSET Files]

Idle == [step |-> "idle", file |-> None, todo |-> {}]

TypeOK ==
    /\ run \in [Files -> Runs]
    /\ worker \in [Workers -> Ticks]

NoRun == [status |-> "none", retries |-> 0, profiles |-> 0,
          dictionary |-> FALSE, sensitivity |-> FALSE]

Init ==
    /\ Upload!Init
    /\ run = [f \in Files |-> NoRun]
    /\ worker = [w \in Workers |-> Idle]

Passed == {f \in Files : verdict[f] = "passed"}

\* ORDER BY intake_file_id LIMIT 25: the finished ones are listed too.
Listed ==
    {f \in Passed : Cardinality({g \in Passed : Rank[g] < Rank[f]}) < SweepLimit}

First(S) == CHOOSE f \in S : \A g \in S : Rank[f] <= Rank[g]

\* The next file of the list, or the end of the tick.
Take(todo) ==
    IF todo = {} THEN Idle
    ELSE [step |-> "activate", file |-> First(todo), todo |-> todo \ {First(todo)}]

Goto(w, step) == worker' = [worker EXCEPT ![w].step = step]
NextFile(w) == worker' = [worker EXCEPT ![w] = Take(worker[w].todo)]

At(w, step) == worker[w].step = step

\* runKaiP1WorkerTick.
Sweep(w) ==
    /\ worker[w] = Idle /\ Listed # {}
    /\ worker' = [worker EXCEPT ![w] = Take(Listed)]
    /\ UNCHANGED <<uploads, run>>

\* ensureQueuedParserRun: one run per file.
Queued(f) == IF run[f].status = "none" THEN [run EXCEPT ![f].status = "queued"] ELSE run

\* Mutant: the activation does not look at the verdict.
RetryAnyFile(w, f) ==
    /\ worker[w] = Idle
    /\ run' = Queued(f)
    /\ worker' = [worker EXCEPT ![w] = [step |-> "requeue", file |-> f, todo |-> {}]]
    /\ UNCHANGED uploads

\* An operator activates one file with retry: true, which queues it as well.
Retry(w, f) ==
    /\ worker[w] = Idle /\ f \in Passed
    /\ run' = Queued(f)
    /\ worker' = [worker EXCEPT ![w] = [step |-> "requeue", file |-> f, todo |-> {}]]
    /\ UNCHANGED uploads

\* Mutant: a tick goes on to the dictionary only with a run it has completed.
ActivateWithoutReplay(w) ==
    LET f == worker[w].file IN
    /\ At(w, "activate") /\ f \in Passed
    /\ run' = Queued(f)
    /\ Goto(w, "claim")
    /\ UNCHANGED uploads

\* A file that passed is queued; a completed run is replayed, and the tick
\* continues with its profile.
Activate(w) ==
    LET f == worker[w].file IN
    /\ At(w, "activate") /\ f \in Passed
    /\ run' = Queued(f)
    /\ Goto(w, IF run[f].status = "completed" THEN "dictionary" ELSE "claim")
    /\ UNCHANGED uploads

\* Mutant: a run that is running is claimed as well.
ClaimAny(w) ==
    LET f == worker[w].file IN
    /\ At(w, "claim") /\ run[f].status \in {"queued", "running"}
    /\ run' = [run EXCEPT ![f].status = "running"]
    /\ Goto(w, "profile")
    /\ UNCHANGED uploads

\* claimQueuedParserRun, FOR UPDATE SKIP LOCKED.
Claim(w) ==
    LET f == worker[w].file IN
    /\ At(w, "claim") /\ run[f].status = "queued"
    /\ run' = [run EXCEPT ![f].status = "running"]
    /\ Goto(w, "profile")
    /\ UNCHANGED uploads

\* A transaction of another worker may hold the lock of the run's row.
RowBusy(w) ==
    \E u \in Workers \ {w} :
        worker[u].file = worker[w].file /\ worker[u].step \in {"activate", "claim", "requeue"}

\* A run that is not queued, or whose row is locked, is left to the next tick.
LeaveRun(w) ==
    /\ At(w, "claim")
    /\ run[worker[w].file].status # "queued" \/ RowBusy(w)
    /\ NextFile(w)
    /\ UNCHANGED <<uploads, run>>

\* Reading the bytes and profiling them outside of any transaction.
Profile(w) ==
    /\ At(w, "profile")
    /\ \E step \in {"complete", "fail"} : Goto(w, step)
    /\ UNCHANGED <<uploads, run>>

\* completeParserRunWithProfile.
Complete(w) ==
    LET f == worker[w].file IN
    /\ At(w, "complete")
    /\ IF run[f].status = "running"
       THEN /\ run' = [run EXCEPT ![f].status = "completed", ![f].profiles = @ + 1]
            /\ Goto(w, "dictionary")
       ELSE UNCHANGED run /\ NextFile(w)
    /\ UNCHANGED uploads

\* failParserRunSafely.
FailRun(w) ==
    LET f == worker[w].file IN
    /\ At(w, "fail")
    /\ run' = IF run[f].status = "running"
              THEN [run EXCEPT ![f].status = "failed", ![f].retries = @ + 1] ELSE run
    /\ NextFile(w)
    /\ UNCHANGED uploads

\* requeueFailedParserRunForRetry; at the cap the run is for manual review.
Requeue(w) ==
    LET f == worker[w].file IN
    /\ At(w, "requeue")
    /\ IF run[f].status = "failed" /\ run[f].retries < MaxRetries
       THEN run' = [run EXCEPT ![f].status = "queued"] /\ Goto(w, "claim")
       ELSE UNCHANGED run /\ NextFile(w)
    /\ UNCHANGED uploads

\* draftDataDictionary and persistIntakeSensitivityProfile: created once, and
\* replayed after that.
DraftDictionary(w) ==
    /\ At(w, "dictionary")
    /\ run' = [run EXCEPT ![worker[w].file].dictionary = TRUE]
    /\ Goto(w, "sensitivity")
    /\ UNCHANGED uploads

PersistSensitivity(w) ==
    /\ At(w, "sensitivity")
    /\ run' = [run EXCEPT ![worker[w].file].sensitivity = TRUE]
    /\ NextFile(w)
    /\ UNCHANGED uploads

Continue(w) ==
    \/ Activate(w) \/ Claim(w) \/ LeaveRun(w) \/ Profile(w) \/ Complete(w)
    \/ FailRun(w) \/ Requeue(w) \/ DraftDictionary(w) \/ PersistSensitivity(w)

\* An error of a stage: the tick goes on to its next file.
StageFails(w) ==
    /\ worker[w].step \notin {"idle", "profile"}
    /\ NextFile(w)
    /\ UNCHANGED <<uploads, run>>

\* The process dies; a run it had claimed stays "running".
Crash(w) ==
    /\ worker[w] # Idle
    /\ worker' = [worker EXCEPT ![w] = Idle]
    /\ UNCHANGED <<uploads, run>>

UploadStep == Upload!Next /\ UNCHANGED <<run, worker>>

\* What the workers do, and what befalls them.
Ticking ==
    \/ \E w \in Workers : Sweep(w) \/ Continue(w)
    \/ \E w \in Workers, f \in Files : Retry(w, f)

Failing == \E w \in Workers : StageFails(w) \/ Crash(w)

Work == UploadStep \/ Ticking

Next == Work \/ Failing

Spec == Init /\ [][Next]_vars

\* The scheduler starts ticks (operators do not keep it from that, however
\* many are at work), ticks go on and do not meet a locked row every time they
\* claim; at some time they stop failing.
FairSpec ==
    /\ Spec
    /\ \A w \in Workers :
           SF_vars(Sweep(w)) /\ SF_vars(Claim(w)) /\ WF_vars(Continue(w))
    /\ <>[][Work]_vars

(***************************************************************************)
(* Properties.                                                             *)
(***************************************************************************)

\* A run being profiled has one worker, however ticks and retries overlap, so
\* that no profile is written twice (claimQueuedParserRun).
Profiling(w, f) ==
    worker[w].file = f /\ worker[w].step \in {"profile", "complete", "fail"}

OneWorkerPerRun ==
    \A w \in Workers, f \in Files : Profiling(w, f) =>
        /\ run[f].status = "running"
        /\ \A u \in Workers \ {w} : ~Profiling(u, f)

\* Only files that passed are parsed, and what is derived from a profile is
\* there only with the profile: its run completed, then the dictionary, then
\* the sensitivity profile (activateParserProfileWorkForIntakeFile and the
\* tick's continuation).
DerivedInOrder ==
    \A f \in Files :
        /\ run[f].status # "none" => stage[f] = "confirmed" /\ verdict[f] = "passed"
        /\ run[f].profiles = 1 <=> run[f].status = "completed"
        /\ run[f].dictionary => run[f].profiles = 1
        /\ run[f].sensitivity => run[f].dictionary

Orphaned(f) == run[f].status = "running" /\ \A w \in Workers : ~Profiling(w, f)

\* A file the sweep keeps listing gets as far as its sensitivity profile, or
\* to a failed run, or its run is left running by a worker that died.  A tick
\* that ended between two stages is made up for by a later one.
SweptFileSettles ==
    \A f \in Files :
        <>[](f \in Listed) =>
            []<>(run[f].sensitivity \/ run[f].status = "failed" \/ Orphaned(f))

\* The tick "discovers eligible intake files inside exactly one configured
\* synthetic organization scope and hands each one" to the activation.
EveryPassedFileIsActivated ==
    \A f \in Files : f \in Passed ~> run[f].status # "none"
=============================================================================
