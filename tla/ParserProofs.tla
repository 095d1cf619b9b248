---------------------------- MODULE ParserProofs ----------------------------
(***************************************************************************)
(* The safety of ParserRuns for every set of files, workers and versions,  *)
(* and a measure that every write of a run raises.                         *)
(***************************************************************************)
EXTENDS ParserRuns, WellFoundedInduction, TLAPS

USE FilesFinite, RankOrders, Bounds
USE DEF Statuses, Steps

Claimed == {"profile", "complete", "fail"}
Deriving == {"dictionary", "sensitivity"}

\* What the uploads guarantee the parser: a passed file stays as it is.
UploadsOK ==
    /\ stage \in [Files -> Upload!Stages]
    /\ verdict \in [Files -> Upload!Verdicts]
    /\ \A f \in Files : verdict[f] = "passed" => stage[f] = "confirmed"

\* A run in state r, of a file with verdict v.
RecordOK(v, r) ==
    /\ r.status # "none" => v = "passed"
    /\ r.status = "none" => r.retries = 0
    /\ r.status \in {"queued", "running", "completed"} => r.retries < MaxRetries
    /\ r.profiles = 1 <=> r.status = "completed"
    /\ r.dictionary => r.profiles = 1
    /\ r.sensitivity => r.dictionary

RunOK(f) == RecordOK(verdict[f], run[f])

\* What a worker knows of the run it is at.
WorkerOK(w) ==
    LET f == worker[w].file IN
    /\ worker[w].step # "idle" => f \in Files
    /\ worker[w].step \in Claimed => run[f].status = "running"
    /\ worker[w].step \in Deriving => run[f].status = "completed"
    /\ worker[w].step = "sensitivity" => run[f].dictionary

\* No two workers are between the claim and the end of one run.
ProfileAlone ==
    \A w, u \in Workers, f \in Files : w # u => ~(Profiling(w, f) /\ Profiling(u, f))

IInv ==
    /\ TypeOK
    /\ UploadsOK
    /\ \A f \in Files : RunOK(f)
    /\ \A w \in Workers : WorkerOK(w)
    /\ ProfileAlone

-----------------------------------------------------------------------------
(***************************************************************************)
(* The list of a tick.                                                     *)
(***************************************************************************)

LEMMA FirstOfSome ==
    ASSUME NEW S \in SUBSET Files, S # {}
    PROVE  First(S) \in S
<1> DEFINE T == {Rank[f] : f \in S}
<1>1. T \subseteq Nat /\ T # {}
  OBVIOUS
<1> DEFINE Less == {ij \in Nat \X Nat : ij[1] < ij[2]}
<1>2. IsWellFoundedOn(Less, Nat)
  <2>1. OpToRel(<, Nat) = Less
    BY DEF OpToRel
  <2> QED
    BY <2>1, NatLessThanWellFounded
<1>3. \E m \in T : \A n \in T : m <= n
  <2>1. PICK m \in T : \A n \in T : ~(<<n, m>> \in Less)
    <3> HIDE DEF T, Less
    <3> QED
      BY <1>1, <1>2, WFMin
  <2>2. ASSUME NEW n \in T PROVE m <= n
    <3>1. n \in Nat /\ m \in Nat
      BY <1>1
    <3>2. ~(n < m)
      BY <2>1, <3>1
    <3> QED
      BY <3>1, <3>2
  <2> QED
    BY <2>2
<1>4. \E f \in S : \A g \in S : Rank[f] <= Rank[g]
  BY <1>3
<1> QED
  BY <1>4 DEF First

LEMMA TakeType ==
    ASSUME NEW S \in SUBSET Files
    PROVE  /\ Take(S) \in Ticks
           /\ Take(S).step \in {"idle", "activate"}
           /\ Take(S).step # "idle" => Take(S).file \in Files
<1>1. CASE S = {}
  BY <1>1 DEF Take, Idle, Ticks
<1>2. CASE S # {}
  <2>1. First(S) \in S
    BY <1>2, FirstOfSome
  <2>2. Take(S) = [step |-> "activate", file |-> First(S), todo |-> S \ {First(S)}]
    BY <1>2 DEF Take
  <2> QED
    BY <2>1, <2>2 DEF Ticks
<1> QED
  BY <1>1, <1>2

-----------------------------------------------------------------------------
(***************************************************************************)
(* One worker moves to x, and the run of one file becomes r.               *)
(***************************************************************************)

\* What the run of f may become when w writes it: whoever profiles it, or
\* derives from its profile, may go on.
MayBecome(w, f, r) ==
    /\ RecordOK(verdict[f], r)
    /\ r.status = "running" \/ \A u \in Workers \ {w} : ~Profiling(u, f)
    /\ run[f].status = "completed" => r.status = "completed"
    /\ run[f].dictionary => r.dictionary

\* What w knows of the run, in state r, when it goes to a step.
Allows(w, f, r, step) ==
    /\ step \in Claimed =>
           r.status = "running" /\ \A u \in Workers \ {w} : ~Profiling(u, f)
    /\ step \in Deriving => r.status = "completed"
    /\ step = "sensitivity" => r.dictionary

LEMMA RunStep ==
    ASSUME IInv, NEW w \in Workers, NEW f \in Files, NEW r \in Runs, NEW x \in Ticks,
           UNCHANGED uploads,
           run' = [run EXCEPT ![f] = r],
           worker' = [worker EXCEPT ![w] = x],
           MayBecome(w, f, r),
           Allows(w, f, r, x.step),
           \* the worker stays at the run, or goes to another file
           \/ x.file = f
           \/ x.step = "activate" /\ x.file \in Files
           \/ x.step = "idle"
    PROVE  IInv'
<1> USE DEF MayBecome, Allows
<1>1. /\ run'[f] = r /\ \A g \in Files \ {f} : run'[g] = run[g]
      /\ worker'[w] = x /\ \A u \in Workers \ {w} : worker'[u] = worker[u]
  BY DEF IInv, TypeOK
<1>2. TypeOK'
  BY DEF IInv, TypeOK
<1>3. UploadsOK'
  BY DEF IInv, UploadsOK, uploads
<1>4. ASSUME NEW g \in Files PROVE RunOK(g)'
  <2>1. verdict'[g] = verdict[g]
    BY DEF uploads
  <2>2. CASE g = f
    BY <1>1, <2>1, <2>2 DEF RunOK, RecordOK
  <2>3. CASE g # f
    <3>1. RunOK(g)
      BY DEF IInv
    <3> QED
      BY <1>1, <2>1, <2>3, <3>1 DEF RunOK, RecordOK
  <2> QED
    BY <2>2, <2>3
<1>5. ASSUME NEW u \in Workers, u # w PROVE WorkerOK(u)'
  <2>1. WorkerOK(u) /\ worker'[u] = worker[u]
    BY <1>1, <1>5 DEF IInv
  <2>2. CASE worker[u].file = f
    BY <1>1, <1>5, <2>1, <2>2 DEF WorkerOK, Profiling, Claimed, Deriving
  <2>3. CASE worker[u].file # f
    BY <1>1, <2>1, <2>3 DEF WorkerOK, Claimed, Deriving
  <2> QED
    BY <2>2, <2>3
<1>6. WorkerOK(w)'
  BY <1>1 DEF WorkerOK, Claimed, Deriving
<1>7. ProfileAlone'
  <2>1. ASSUME NEW u \in Workers, NEW g \in Files, u # w, Profiling(u, g)', Profiling(w, g)'
        PROVE  FALSE
    BY <1>1, <2>1 DEF Profiling, Claimed
  <2>2. ASSUME NEW u \in Workers, NEW g \in Files, u # w
        PROVE  Profiling(u, g)' <=> Profiling(u, g)
    BY <1>1, <2>2 DEF Profiling
  <2> QED
    BY <2>1, <2>2 DEF IInv, ProfileAlone
<1> QED
  BY <1>2, <1>3, <1>4, <1>5, <1>6, <1>7 DEF IInv

LEMMA WorkerStep ==
    ASSUME IInv, NEW w \in Workers, NEW x \in Ticks,
           UNCHANGED <<uploads, run>>,
           worker' = [worker EXCEPT ![w] = x],
           \/ x.step = "activate" /\ x.file \in Files
           \/ x.step = "idle"
           \/ x.step \in {"complete", "fail"} /\ Profiling(w, x.file)
    PROVE  IInv'
<1>1. worker'[w] = x /\ \A u \in Workers \ {w} : worker'[u] = worker[u]
  BY DEF IInv, TypeOK
<1>2. TypeOK'
  BY DEF IInv, TypeOK
<1>3. UploadsOK'
  BY DEF IInv, UploadsOK, uploads
<1>4. ASSUME NEW g \in Files PROVE RunOK(g)'
  BY DEF IInv, RunOK, RecordOK, uploads
<1>5. ASSUME NEW u \in Workers PROVE WorkerOK(u)'
  <2>1. CASE u = w
    BY <1>1, <2>1 DEF IInv, WorkerOK, Profiling, Claimed, Deriving
  <2>2. CASE u # w
    BY <1>1, <2>2 DEF IInv, WorkerOK
  <2> QED
    BY <2>1, <2>2
<1>6. ASSUME NEW u \in Workers, NEW g \in Files, Profiling(u, g)' PROVE Profiling(u, g)
  BY <1>1, <1>6 DEF Profiling
<1> QED
  BY <1>2, <1>3, <1>4, <1>5, <1>6 DEF IInv, ProfileAlone

\* The next file of the list, with the run as it is.
LEMMA NextFileKeeps ==
    ASSUME IInv, NEW w \in Workers, NextFile(w), UNCHANGED <<uploads, run>>
    PROVE  IInv'
<1> DEFINE x == Take(worker[w].todo)
<1>1. worker[w].todo \in SUBSET Files
  BY DEF IInv, TypeOK, Ticks
<1>2. /\ x \in Ticks /\ x.step \in {"idle", "activate"}
      /\ x.step # "idle" => x.file \in Files
  BY <1>1, TakeType
<1>3. worker' = [worker EXCEPT ![w] = x]
  BY DEF NextFile
<1> HIDE DEF x
<1> QED
  BY <1>2, <1>3, WorkerStep

\* The next file of the list, with the run of this one changed to r.
LEMMA RunEnds ==
    ASSUME IInv, NEW w \in Workers, NextFile(w), UNCHANGED uploads,
           NEW f \in Files, NEW r \in Runs,
           run' = [run EXCEPT ![f] = r],
           MayBecome(w, f, r)
    PROVE  IInv'
<1> DEFINE x == Take(worker[w].todo)
<1>1. worker[w].todo \in SUBSET Files
  BY DEF IInv, TypeOK, Ticks
<1>2. /\ x \in Ticks /\ x.step \in {"idle", "activate"}
      /\ x.step # "idle" => x.file \in Files
  BY <1>1, TakeType
<1>3. worker' = [worker EXCEPT ![w] = x]
  BY DEF NextFile
<1> HIDE DEF x
<1>4. Allows(w, f, r, x.step)
  BY <1>2 DEF Allows, Claimed, Deriving
<1> QED
  BY <1>2, <1>3, <1>4, RunStep

\* The next step at the run of this file, which becomes r.
LEMMA RunGoesOn ==
    ASSUME IInv, NEW w \in Workers, NEW step \in Steps, Goto(w, step), UNCHANGED uploads,
           NEW f \in Files, f = worker[w].file, NEW r \in Runs,
           run' = [run EXCEPT ![f] = r],
           MayBecome(w, f, r), Allows(w, f, r, step)
    PROVE  IInv'
<1> DEFINE x == [worker[w] EXCEPT !.step = step]
<1>1. x \in Ticks /\ x.step = step /\ x.file = f
  BY DEF IInv, TypeOK, Ticks
<1>2. worker' = [worker EXCEPT ![w] = x]
  BY DEF IInv, TypeOK, Goto
<1> HIDE DEF x
<1> QED
  BY <1>1, <1>2, RunStep

-----------------------------------------------------------------------------
(***************************************************************************)
(* The actions.                                                            *)
(***************************************************************************)

LEMMA AtFile ==
    ASSUME IInv, NEW w \in Workers, worker[w].step # "idle"
    PROVE  worker[w].file \in Files
BY DEF IInv, WorkerOK

\* A run that is not running has nobody profiling it.
LEMMA NotRunning ==
    ASSUME IInv, NEW f \in Files, run[f].status # "running"
    PROVE  \A u \in Workers : ~Profiling(u, f)
BY DEF IInv, WorkerOK, Profiling, Claimed

\* A run somebody profiles has nobody else.
LEMMA OthersOff ==
    ASSUME IInv, NEW w \in Workers, NEW f \in Files, Profiling(w, f)
    PROVE  /\ \A u \in Workers \ {w} : ~Profiling(u, f)
           /\ run[f].status = "running"
BY DEF IInv, ProfileAlone, WorkerOK, Profiling, Claimed

\* Queueing a run that does not exist yet.
LEMMA QueuedRun ==
    ASSUME IInv, NEW f \in Passed, NEW w \in Workers, run' = Queued(f)
    PROVE  \E r \in Runs :
             /\ run' = [run EXCEPT ![f] = r]
             /\ MayBecome(w, f, r)
             /\ run[f].status = "completed" => r = run[f]
<1>1. f \in Files /\ verdict[f] = "passed" /\ run[f] \in Runs /\ RunOK(f)
  BY DEF IInv, TypeOK, Passed
<1>2. CASE run[f].status = "none"
  <2> DEFINE r == [run[f] EXCEPT !.status = "queued"]
  <2>1. run' = [run EXCEPT ![f] = r]
    BY <1>2 DEF Queued, IInv, TypeOK
  <2>2. /\ r \in Runs /\ r.status = "queued" /\ r.retries = run[f].retries
        /\ r.profiles = run[f].profiles
        /\ r.dictionary = run[f].dictionary /\ r.sensitivity = run[f].sensitivity
    BY <1>1 DEF Runs
  <2>3. \A u \in Workers : ~Profiling(u, f)
    BY <1>1, <1>2, NotRunning
  <2> HIDE DEF r
  <2>4. RecordOK(verdict[f], r)
    BY <1>1, <1>2, <2>2 DEF RunOK, RecordOK
  <2> QED
    BY <1>2, <2>1, <2>2, <2>3, <2>4 DEF MayBecome
<1>3. CASE run[f].status # "none"
  <2>1. run' = [run EXCEPT ![f] = run[f]]
    BY <1>3 DEF Queued, IInv, TypeOK
  <2>2. run[f].status = "running" \/ \A u \in Workers : ~Profiling(u, f)
    BY <1>1, NotRunning
  <2> QED
    BY <1>1, <2>1, <2>2 DEF RunOK, MayBecome
<1> QED
  BY <1>2, <1>3

LEMMA SweepKeeps == ASSUME IInv, NEW w \in Workers, Sweep(w) PROVE IInv'
<1> DEFINE x == Take(Listed)
<1>1. Listed \in SUBSET Files
  BY DEF Listed, Passed
<1>2. /\ x \in Ticks /\ x.step \in {"idle", "activate"}
      /\ x.step # "idle" => x.file \in Files
  BY <1>1, TakeType
<1>3. worker' = [worker EXCEPT ![w] = x] /\ UNCHANGED <<uploads, run>>
  BY DEF Sweep
<1> HIDE DEF x
<1> QED
  BY <1>2, <1>3, WorkerStep

LEMMA RetryKeeps ==
    ASSUME IInv, NEW w \in Workers, NEW f \in Files, Retry(w, f) PROVE IInv'
<1> DEFINE x == [step |-> "requeue", file |-> f, todo |-> {}]
<1>1. x \in Ticks /\ x.file = f /\ x.step = "requeue"
  BY DEF Ticks
<1>2. /\ f \in Passed /\ run' = Queued(f) /\ UNCHANGED uploads
      /\ worker' = [worker EXCEPT ![w] = x]
  BY DEF Retry
<1> HIDE DEF x
<1>3. PICK r \in Runs :
        /\ run' = [run EXCEPT ![f] = r]
        /\ MayBecome(w, f, r)
        /\ run[f].status = "completed" => r = run[f]
  BY <1>2, QueuedRun
<1>4. Allows(w, f, r, x.step)
  BY <1>1 DEF Allows, Claimed, Deriving
<1> QED
  BY <1>1, <1>2, <1>3, <1>4, RunStep

LEMMA ActivateKeeps == ASSUME IInv, NEW w \in Workers, Activate(w) PROVE IInv'
<1>1. PICK f \in Passed : f = worker[w].file
  BY DEF Activate
<1>2. PICK step \in {"dictionary", "claim"} :
        /\ Goto(w, step)
        /\ step = "dictionary" => run[f].status = "completed"
  BY <1>1 DEF Activate
<1>3. run' = Queued(f) /\ UNCHANGED uploads /\ f \in Files
  BY <1>1 DEF Activate, Passed
<1>4. PICK r \in Runs :
        /\ run' = [run EXCEPT ![f] = r]
        /\ MayBecome(w, f, r)
        /\ run[f].status = "completed" => r = run[f]
  BY <1>3, QueuedRun
<1>5. step \in Steps /\ Allows(w, f, r, step)
  BY <1>2, <1>4 DEF Allows, Claimed, Deriving
<1> QED
  BY <1>1, <1>2, <1>3, <1>4, <1>5, RunGoesOn

LEMMA ClaimKeeps == ASSUME IInv, NEW w \in Workers, Claim(w) PROVE IInv'
<1>1. PICK f \in Files : f = worker[w].file
  BY AtFile DEF Claim, At
<1> DEFINE r == [run[f] EXCEPT !.status = "running"]
<1>2. /\ run[f] \in Runs /\ run[f].status = "queued" /\ RunOK(f)
      /\ run' = [run EXCEPT ![f] = r]
      /\ Goto(w, "profile") /\ UNCHANGED uploads
  BY <1>1 DEF IInv, TypeOK, Claim
<1>3. /\ r \in Runs /\ r.status = "running" /\ r.retries = run[f].retries
      /\ r.profiles = run[f].profiles
      /\ r.dictionary = run[f].dictionary /\ r.sensitivity = run[f].sensitivity
  BY <1>2 DEF Runs
<1> HIDE DEF r
<1>4. RecordOK(verdict[f], r)
  BY <1>2, <1>3 DEF RunOK, RecordOK
<1>5. \A u \in Workers \ {w} : ~Profiling(u, f)
  BY <1>2, NotRunning
<1>6. MayBecome(w, f, r) /\ Allows(w, f, r, "profile")
  BY <1>2, <1>3, <1>4, <1>5 DEF MayBecome, Allows, Deriving
<1> QED
  BY <1>1, <1>2, <1>3, <1>6, RunGoesOn

LEMMA ProfileKeeps == ASSUME IInv, NEW w \in Workers, Profile(w) PROVE IInv'
<1>1. PICK step \in {"complete", "fail"} : Goto(w, step)
  BY DEF Profile
<1> DEFINE x == [worker[w] EXCEPT !.step = step]
<1>2. /\ x \in Ticks /\ x.step = step /\ x.file = worker[w].file
      /\ worker' = [worker EXCEPT ![w] = x]
  BY <1>1 DEF IInv, TypeOK, Ticks, Goto
<1>3. Profiling(w, worker[w].file) /\ UNCHANGED <<uploads, run>>
  BY DEF Profile, At, Profiling
<1> HIDE DEF x
<1> QED
  BY <1>1, <1>2, <1>3, WorkerStep

LEMMA CompleteKeeps == ASSUME IInv, NEW w \in Workers, Complete(w) PROVE IInv'
<1>1. PICK f \in Files : f = worker[w].file
  BY AtFile DEF Complete, At
<1>2. /\ run[f].status = "running"
      /\ \A u \in Workers \ {w} : ~Profiling(u, f)
  BY <1>1, OthersOff DEF Complete, At, Profiling
<1> DEFINE r == [run[f] EXCEPT !.status = "completed", !.profiles = run[f].profiles + 1]
<1>3. /\ run[f] \in Runs /\ RunOK(f)
      /\ run' = [run EXCEPT ![f] = r]
      /\ Goto(w, "dictionary") /\ UNCHANGED uploads
  BY <1>1, <1>2 DEF IInv, TypeOK, Complete
<1>4. run[f].profiles = 0 /\ ~run[f].dictionary /\ ~run[f].sensitivity
  BY <1>2, <1>3 DEF RunOK, RecordOK, Runs
<1>5. /\ r \in Runs /\ r.status = "completed" /\ r.retries = run[f].retries
      /\ r.profiles = 1
      /\ r.dictionary = run[f].dictionary /\ r.sensitivity = run[f].sensitivity
  <2>1. run[f].profiles + 1 = 1 /\ 1 \in 0 .. 1
    BY <1>4
  <2> QED
    BY <1>3, <2>1 DEF Runs
<1> HIDE DEF r
<1>6. RecordOK(verdict[f], r)
  BY <1>2, <1>3, <1>4, <1>5 DEF RunOK, RecordOK
<1>7. MayBecome(w, f, r) /\ Allows(w, f, r, "dictionary")
  BY <1>2, <1>4, <1>5, <1>6 DEF MayBecome, Allows, Claimed
<1> QED
  BY <1>1, <1>3, <1>5, <1>7, RunGoesOn

LEMMA FailRunKeeps == ASSUME IInv, NEW w \in Workers, FailRun(w) PROVE IInv'
<1>1. PICK f \in Files : f = worker[w].file
  BY AtFile DEF FailRun, At
<1>2. /\ run[f].status = "running"
      /\ \A u \in Workers \ {w} : ~Profiling(u, f)
  BY <1>1, OthersOff DEF FailRun, At, Profiling
<1> DEFINE r == [run[f] EXCEPT !.status = "failed", !.retries = run[f].retries + 1]
<1>3. /\ run[f] \in Runs /\ RunOK(f)
      /\ run' = [run EXCEPT ![f] = r]
      /\ NextFile(w) /\ UNCHANGED uploads
  BY <1>1, <1>2 DEF IInv, TypeOK, FailRun
<1>4. run[f].retries < MaxRetries /\ run[f].retries \in Nat
  BY <1>2, <1>3 DEF RunOK, RecordOK, Runs
<1>5. /\ r \in Runs /\ r.status = "failed" /\ r.retries = run[f].retries + 1
      /\ r.profiles = run[f].profiles
      /\ r.dictionary = run[f].dictionary /\ r.sensitivity = run[f].sensitivity
  <2>1. run[f].retries + 1 \in 0 .. MaxRetries
    BY <1>4
  <2> QED
    BY <1>3, <2>1 DEF Runs
<1> HIDE DEF r
<1>6. RecordOK(verdict[f], r)
  BY <1>2, <1>3, <1>4, <1>5 DEF RunOK, RecordOK
<1>7. MayBecome(w, f, r)
  BY <1>2, <1>5, <1>6 DEF MayBecome
<1> QED
  BY <1>1, <1>3, <1>5, <1>7, RunEnds

LEMMA RequeueKeeps == ASSUME IInv, NEW w \in Workers, Requeue(w) PROVE IInv'
<1>1. PICK f \in Files : f = worker[w].file
  BY AtFile DEF Requeue, At
<1>2. CASE run[f].status = "failed" /\ run[f].retries < MaxRetries
  <2> DEFINE r == [run[f] EXCEPT !.status = "queued"]
  <2>1. /\ run[f] \in Runs /\ RunOK(f)
        /\ run' = [run EXCEPT ![f] = r]
        /\ Goto(w, "claim") /\ UNCHANGED uploads
    BY <1>1, <1>2 DEF IInv, TypeOK, Requeue
  <2>2. /\ r \in Runs /\ r.status = "queued" /\ r.retries = run[f].retries
        /\ r.profiles = run[f].profiles
        /\ r.dictionary = run[f].dictionary /\ r.sensitivity = run[f].sensitivity
    BY <2>1 DEF Runs
  <2> HIDE DEF r
  <2>3. RecordOK(verdict[f], r)
    BY <1>2, <2>1, <2>2 DEF RunOK, RecordOK
  <2>4. \A u \in Workers : ~Profiling(u, f)
    BY <1>2, NotRunning
  <2>5. MayBecome(w, f, r) /\ Allows(w, f, r, "claim")
    BY <1>2, <2>2, <2>3, <2>4 DEF MayBecome, Allows, Claimed, Deriving
  <2> QED
    BY <1>1, <2>1, <2>2, <2>5, RunGoesOn
<1>3. CASE ~(run[f].status = "failed" /\ run[f].retries < MaxRetries)
  <2>1. NextFile(w) /\ UNCHANGED <<uploads, run>>
    BY <1>1, <1>3 DEF Requeue
  <2> QED
    BY <2>1, NextFileKeeps
<1> QED
  BY <1>2, <1>3

LEMMA DraftDictionaryKeeps ==
    ASSUME IInv, NEW w \in Workers, DraftDictionary(w) PROVE IInv'
<1>1. PICK f \in Files : f = worker[w].file
  BY AtFile DEF DraftDictionary, At
<1> DEFINE r == [run[f] EXCEPT !.dictionary = TRUE]
<1>2. /\ run[f] \in Runs /\ RunOK(f) /\ run[f].status = "completed"
      /\ run' = [run EXCEPT ![f] = r]
      /\ Goto(w, "sensitivity") /\ UNCHANGED uploads
  BY <1>1 DEF IInv, TypeOK, WorkerOK, Deriving, DraftDictionary, At
<1>3. /\ r \in Runs /\ r.status = run[f].status /\ r.retries = run[f].retries
      /\ r.profiles = run[f].profiles
      /\ r.dictionary /\ r.sensitivity = run[f].sensitivity
  BY <1>2 DEF Runs
<1> HIDE DEF r
<1>4. RecordOK(verdict[f], r)
  BY <1>2, <1>3 DEF RunOK, RecordOK
<1>5. \A u \in Workers : ~Profiling(u, f)
  BY <1>2, NotRunning
<1>6. MayBecome(w, f, r) /\ Allows(w, f, r, "sensitivity")
  BY <1>2, <1>3, <1>4, <1>5 DEF MayBecome, Allows, Claimed
<1> QED
  BY <1>1, <1>2, <1>3, <1>6, RunGoesOn

LEMMA PersistSensitivityKeeps ==
    ASSUME IInv, NEW w \in Workers, PersistSensitivity(w) PROVE IInv'
<1>1. PICK f \in Files : f = worker[w].file
  BY AtFile DEF PersistSensitivity, At
<1> DEFINE r == [run[f] EXCEPT !.sensitivity = TRUE]
<1>2. /\ run[f] \in Runs /\ RunOK(f) /\ run[f].status = "completed" /\ run[f].dictionary
      /\ run' = [run EXCEPT ![f] = r]
      /\ NextFile(w) /\ UNCHANGED uploads
  BY <1>1 DEF IInv, TypeOK, WorkerOK, Deriving, PersistSensitivity, At
<1>3. /\ r \in Runs /\ r.status = run[f].status /\ r.retries = run[f].retries
      /\ r.profiles = run[f].profiles
      /\ r.dictionary = run[f].dictionary /\ r.sensitivity
  BY <1>2 DEF Runs
<1> HIDE DEF r
<1>4. RecordOK(verdict[f], r)
  BY <1>2, <1>3 DEF RunOK, RecordOK
<1>5. \A u \in Workers : ~Profiling(u, f)
  BY <1>2, NotRunning
<1>6. MayBecome(w, f, r)
  BY <1>2, <1>3, <1>4, <1>5 DEF MayBecome
<1> QED
  BY <1>1, <1>2, <1>3, <1>6, RunEnds

\* A step of the uploads leaves a passed file passed, and confirmed.
LEMMA UploadStepKeeps == ASSUME IInv, UploadStep PROVE IInv'
<1>1. UNCHANGED <<run, worker>> /\ Upload!Next
  BY DEF UploadStep
<1>2. UploadsOK' /\ \A f \in Files : verdict[f] = "passed" => verdict'[f] = "passed"
  <2> USE DEF IInv, UploadsOK, Upload!Stages, Upload!Verdicts
  <2>1. PICK f \in Files :
          \/ Upload!Reserve(f) \/ Upload!StartUpload(f)
          \/ Upload!Confirm(f) \/ Upload!Block(f)
          \/ \E v \in Versions : Upload!CompleteObjectVersion(f, v)
          \/ \E outcome \in Upload!Verdicts \ {"pending"} : Upload!Assess(f, outcome)
    BY <1>1 DEF Upload!Next
  <2>2. CASE Upload!Reserve(f)
    BY <2>2 DEF Upload!Reserve
  <2>3. CASE Upload!StartUpload(f)
    BY <2>3 DEF Upload!StartUpload
  <2>4. CASE Upload!Confirm(f)
    BY <2>4 DEF Upload!Confirm
  <2>5. CASE Upload!Block(f)
    BY <2>5 DEF Upload!Block
  <2>6. ASSUME NEW v \in Versions, Upload!CompleteObjectVersion(f, v)
        PROVE  UploadsOK' /\ \A g \in Files : verdict[g] = "passed" => verdict'[g] = "passed"
    BY <2>6 DEF Upload!CompleteObjectVersion
  <2>7. ASSUME NEW outcome \in Upload!Verdicts \ {"pending"}, Upload!Assess(f, outcome)
        PROVE  UploadsOK' /\ \A g \in Files : verdict[g] = "passed" => verdict'[g] = "passed"
    BY <2>7 DEF Upload!Assess
  <2> QED
    BY <2>1, <2>2, <2>3, <2>4, <2>5, <2>6, <2>7
<1>3. ASSUME NEW f \in Files PROVE RunOK(f)'
  BY <1>1, <1>2 DEF IInv, RunOK, RecordOK
<1>4. ASSUME NEW w \in Workers PROVE WorkerOK(w)'
  BY <1>1 DEF IInv, WorkerOK
<1> QED
  BY <1>1, <1>2, <1>3, <1>4 DEF IInv, TypeOK, ProfileAlone, Profiling

LEMMA InitInv == Init => IInv
<1> SUFFICES ASSUME Init PROVE IInv
  OBVIOUS
<1>1. TypeOK
  BY DEF Init, TypeOK, Runs, Ticks, NoRun, Idle
<1>2. UploadsOK
  BY DEF Init, UploadsOK, Upload!Init, Upload!Stages, Upload!Verdicts
<1>3. ASSUME NEW f \in Files PROVE RunOK(f)
  BY DEF Init, RunOK, RecordOK, NoRun
<1>4. ASSUME NEW w \in Workers PROVE WorkerOK(w) /\ \A f \in Files : ~Profiling(w, f)
  BY DEF Init, WorkerOK, Profiling, Claimed, Deriving, Idle
<1> QED
  BY <1>1, <1>2, <1>3, <1>4 DEF IInv, ProfileAlone

LEMMA NextInv == IInv /\ [Next]_vars => IInv'
<1> SUFFICES ASSUME IInv, [Next]_vars PROVE IInv'
  OBVIOUS
<1>1. CASE UploadStep
  BY <1>1, UploadStepKeeps
<1>2. ASSUME NEW w \in Workers, Sweep(w) PROVE IInv'
  BY <1>2, SweepKeeps
<1>3. ASSUME NEW w \in Workers, Continue(w) PROVE IInv'
  <2>1. CASE LeaveRun(w)
    BY <2>1, NextFileKeeps DEF LeaveRun
  <2> QED
    BY <1>3, <2>1, ActivateKeeps, ClaimKeeps, ProfileKeeps, CompleteKeeps, FailRunKeeps,
       RequeueKeeps, DraftDictionaryKeeps, PersistSensitivityKeeps
    DEF Continue
<1>4. ASSUME NEW w \in Workers, NEW f \in Files, Retry(w, f) PROVE IInv'
  BY <1>4, RetryKeeps
<1>5. ASSUME NEW w \in Workers, StageFails(w) PROVE IInv'
  BY <1>5, NextFileKeeps DEF StageFails
<1>6. ASSUME NEW w \in Workers, Crash(w) PROVE IInv'
  <2>1. Idle \in Ticks /\ Idle.step = "idle"
    BY DEF Idle, Ticks
  <2>2. worker' = [worker EXCEPT ![w] = Idle] /\ UNCHANGED <<uploads, run>>
    BY <1>6 DEF Crash
  <2> QED
    BY <2>1, <2>2, WorkerStep
<1>7. CASE UNCHANGED vars
  <2>1. \A f \in Files : RunOK(f) <=> RunOK(f)'
    BY <1>7 DEF vars, RunOK, RecordOK
  <2>2. \A w \in Workers : WorkerOK(w) <=> WorkerOK(w)'
    BY <1>7 DEF vars, WorkerOK
  <2> QED
    BY <1>7, <2>1, <2>2 DEF vars, IInv, TypeOK, UploadsOK, ProfileAlone, Profiling
<1> QED
  BY <1>1, <1>2, <1>3, <1>4, <1>5, <1>6, <1>7 DEF Next, Work, Ticking, Failing

-----------------------------------------------------------------------------
\* What is proved of the worker: the inductive invariant above holds always.
THEOREM Invariance == Spec => []IInv
<1> QED
  BY InitInv, NextInv, PTL DEF Spec

\* Runs and ticks always have their types; in particular a run is retried no
\* more often than the cap allows.
THEOREM TypeCorrect == Spec => []TypeOK
<1>1. IInv => TypeOK
  BY DEF IInv
<1> QED
  BY <1>1, Invariance, PTL

\* However many ticks and operators overlap, a run being profiled has one.
THEOREM OneProfiler == Spec => []OneWorkerPerRun
<1>1. IInv => OneWorkerPerRun
  BY OthersOff DEF OneWorkerPerRun
<1> QED
  BY <1>1, Invariance, PTL

\* Only passed files are parsed, each artefact after the one it is made from.
THEOREM InOrder == Spec => []DerivedInOrder
<1>1. ASSUME IInv, NEW f \in Files
      PROVE  /\ run[f].status # "none" => stage[f] = "confirmed" /\ verdict[f] = "passed"
             /\ run[f].profiles = 1 <=> run[f].status = "completed"
             /\ run[f].dictionary => run[f].profiles = 1
             /\ run[f].sensitivity => run[f].dictionary
  BY <1>1 DEF IInv, RunOK, RecordOK, UploadsOK
<1>2. IInv => DerivedInOrder
  BY <1>1 DEF DerivedInOrder
<1> QED
  BY <1>2, Invariance, PTL

-----------------------------------------------------------------------------
(***************************************************************************)
(* How far a run is, and that it only goes further.                        *)
(***************************************************************************)

Place == [none |-> 0, failed |-> 0, queued |-> 1, running |-> 2, completed |-> 3]

\* Every retry is worth more than all that can be done between two of them.
Height(r) == 3 * r.retries + Place[r.status]
             + (IF r.dictionary THEN 1 ELSE 0) + (IF r.sensitivity THEN 1 ELSE 0)

\* Every write of a run takes it further, and none further than this.
RunClimbs(f) ==
    run'[f] # run[f] => /\ Height(run[f]) < Height(run'[f])
                        /\ Height(run'[f]) <= 3 * MaxRetries + 2

LEMMA HeightBounded ==
    ASSUME NEW r \in Runs, NEW v, RecordOK(v, r)
    PROVE  /\ Height(r) \in Nat
           /\ Height(r) <= 3 * MaxRetries + 2
<1>1. /\ r.status \in Statuses /\ r.retries \in 0 .. MaxRetries /\ r.profiles \in 0 .. 1
      /\ r.dictionary \in BOOLEAN /\ r.sensitivity \in BOOLEAN
  BY DEF Runs
<1>2. Place[r.status] \in 0 .. 3
  BY <1>1 DEF Place
<1>3. Height(r) \in Nat
  BY <1>1, <1>2 DEF Height
<1>4. CASE r.status = "completed"
  <2>1. r.retries + 1 <= MaxRetries
    BY <1>1, <1>4 DEF RecordOK
  <2> QED
    BY <1>1, <1>2, <2>1 DEF Height
<1>5. CASE r.status # "completed"
  <2>1. ~r.dictionary /\ ~r.sensitivity
    BY <1>1, <1>5 DEF RecordOK
  <2>2. Place[r.status] <= 2
    BY <1>1, <1>5 DEF Place
  <2> QED
    BY <1>1, <1>2, <2>1, <2>2 DEF Height
<1> QED
  BY <1>3, <1>4, <1>5

\* A run that becomes r.
LEMMA OneRunClimbs ==
    ASSUME IInv, IInv', NEW f \in Files, NEW r, run' = [run EXCEPT ![f] = r],
           r = run[f] \/ Height(run[f]) < Height(r)
    PROVE  \A g \in Files : RunClimbs(g)
<1>1. run'[f] = r /\ \A g \in Files \ {f} : run'[g] = run[g]
  BY DEF IInv, TypeOK
<1>2. run'[f] \in Runs /\ RecordOK(verdict'[f], run'[f])
  BY DEF IInv, TypeOK, RunOK
<1>3. Height(run'[f]) <= 3 * MaxRetries + 2
  BY <1>2, HeightBounded
<1> QED
  BY <1>1, <1>3 DEF RunClimbs

\* The same run in a later status.
LEMMA StatusHigher ==
    ASSUME NEW r \in Runs, NEW q,
           q.status \in Statuses, q.retries = r.retries,
           q.dictionary = r.dictionary, q.sensitivity = r.sensitivity,
           Place[r.status] < Place[q.status]
    PROVE  Height(r) < Height(q)
<1>1. r.status \in Statuses /\ r.retries \in Nat
  BY DEF Runs
<1>2. Place[r.status] \in Nat /\ Place[q.status] \in Nat
  BY <1>1 DEF Place
<1> QED
  BY <1>1, <1>2 DEF Height

LEMMA QueuedClimbs ==
    ASSUME IInv, IInv', NEW f \in Passed, run' = Queued(f)
    PROVE  \A g \in Files : RunClimbs(g)
<1>1. f \in Files /\ run[f] \in Runs
  BY DEF IInv, TypeOK, Passed
<1> DEFINE r == [run[f] EXCEPT !.status = "queued"]
<1>2. CASE run[f].status = "none"
  <2>1. run' = [run EXCEPT ![f] = r]
    BY <1>2 DEF Queued, IInv, TypeOK
  <2>2. /\ r.status = "queued" /\ r.retries = run[f].retries
        /\ r.dictionary = run[f].dictionary /\ r.sensitivity = run[f].sensitivity
    BY <1>1 DEF Runs
  <2> HIDE DEF r
  <2>3. Place[run[f].status] < Place[r.status]
    BY <1>2, <2>2 DEF Place
  <2>4. Height(run[f]) < Height(r)
    BY <1>1, <2>2, <2>3, StatusHigher
  <2> QED
    BY <1>1, <2>1, <2>4, OneRunClimbs
<1>3. CASE run[f].status # "none"
  BY <1>3 DEF Queued, RunClimbs
<1> QED
  BY <1>2, <1>3

\* A statement about the run of one file.
LEMMA ActivateClimbs ==
    ASSUME IInv, IInv', NEW w \in Workers, Activate(w)
    PROVE  \A g \in Files : RunClimbs(g)
BY QueuedClimbs DEF Activate

LEMMA ClaimClimbs ==
    ASSUME IInv, IInv', NEW w \in Workers, Claim(w)
    PROVE  \A g \in Files : RunClimbs(g)
<1>1. PICK f \in Files : f = worker[w].file
  BY AtFile DEF Claim, At
<1> DEFINE r == [run[f] EXCEPT !.status = "running"]
<1>2. run[f] \in Runs /\ run[f].status = "queued" /\ run' = [run EXCEPT ![f] = r]
  BY <1>1 DEF Claim, IInv, TypeOK
<1>3. /\ r.status = "running" /\ r.retries = run[f].retries
      /\ r.dictionary = run[f].dictionary /\ r.sensitivity = run[f].sensitivity
  BY <1>2 DEF Runs
<1> HIDE DEF r
<1>4. Place[run[f].status] < Place[r.status]
  BY <1>2, <1>3 DEF Place
<1>5. Height(run[f]) < Height(r)
  BY <1>2, <1>3, <1>4, StatusHigher
<1> QED
  BY <1>2, <1>5, OneRunClimbs

LEMMA CompleteClimbs ==
    ASSUME IInv, IInv', NEW w \in Workers, Complete(w), ~UNCHANGED run
    PROVE  \A g \in Files : RunClimbs(g)
<1>1. PICK f \in Files : f = worker[w].file
  BY AtFile DEF Complete, At
<1> DEFINE r == [run[f] EXCEPT !.status = "completed", !.profiles = run[f].profiles + 1]
<1>2. run[f] \in Runs /\ run[f].status = "running" /\ run' = [run EXCEPT ![f] = r]
  BY <1>1 DEF Complete, IInv, TypeOK
<1>3. /\ r.status = "completed" /\ r.retries = run[f].retries
      /\ r.dictionary = run[f].dictionary /\ r.sensitivity = run[f].sensitivity
  BY <1>2 DEF Runs
<1> HIDE DEF r
<1>4. Place[run[f].status] < Place[r.status]
  BY <1>2, <1>3 DEF Place
<1>5. Height(run[f]) < Height(r)
  BY <1>2, <1>3, <1>4, StatusHigher
<1> QED
  BY <1>2, <1>5, OneRunClimbs

LEMMA FailRunClimbs ==
    ASSUME IInv, IInv', NEW w \in Workers, FailRun(w), ~UNCHANGED run
    PROVE  \A g \in Files : RunClimbs(g)
<1>1. PICK f \in Files : f = worker[w].file
  BY AtFile DEF FailRun, At
<1> DEFINE r == [run[f] EXCEPT !.status = "failed", !.retries = run[f].retries + 1]
<1>2. run[f] \in Runs /\ run[f].status = "running" /\ run' = [run EXCEPT ![f] = r]
  BY <1>1 DEF FailRun, IInv, TypeOK
<1>3. /\ r.status = "failed" /\ r.retries = run[f].retries + 1
      /\ r.dictionary = run[f].dictionary /\ r.sensitivity = run[f].sensitivity
  BY <1>2 DEF Runs
<1>4. run[f].retries \in Nat
  BY <1>2 DEF Runs
<1> HIDE DEF r
<1>5. Place[run[f].status] = 2 /\ Place[r.status] = 0
  BY <1>2, <1>3 DEF Place
<1>6. Height(run[f]) < Height(r)
  BY <1>3, <1>4, <1>5 DEF Height
<1> QED
  BY <1>2, <1>6, OneRunClimbs

LEMMA RequeueClimbs ==
    ASSUME IInv, IInv', NEW w \in Workers, Requeue(w), ~UNCHANGED run
    PROVE  \A g \in Files : RunClimbs(g)
<1>1. PICK f \in Files : f = worker[w].file
  BY AtFile DEF Requeue, At
<1> DEFINE r == [run[f] EXCEPT !.status = "queued"]
<1>2. run[f] \in Runs /\ run[f].status = "failed" /\ run' = [run EXCEPT ![f] = r]
  BY <1>1 DEF Requeue, IInv, TypeOK
<1>3. /\ r.status = "queued" /\ r.retries = run[f].retries
      /\ r.dictionary = run[f].dictionary /\ r.sensitivity = run[f].sensitivity
  BY <1>2 DEF Runs
<1> HIDE DEF r
<1>4. Place[run[f].status] < Place[r.status]
  BY <1>2, <1>3 DEF Place
<1>5. Height(run[f]) < Height(r)
  BY <1>2, <1>3, <1>4, StatusHigher
<1> QED
  BY <1>2, <1>5, OneRunClimbs

\* An artefact that is there already is replayed, and the run stays as it is.
LEMMA DraftDictionaryClimbs ==
    ASSUME IInv, IInv', NEW w \in Workers, DraftDictionary(w)
    PROVE  \A g \in Files : RunClimbs(g)
<1>1. PICK f \in Files : f = worker[w].file
  BY AtFile DEF DraftDictionary, At
<1> DEFINE r == [run[f] EXCEPT !.dictionary = TRUE]
<1>2. run[f] \in Runs /\ run' = [run EXCEPT ![f] = r]
  BY <1>1 DEF DraftDictionary, IInv, TypeOK
<1>3. /\ r.status = run[f].status /\ r.retries = run[f].retries
      /\ r.dictionary /\ r.sensitivity = run[f].sensitivity
      /\ run[f].dictionary => r = run[f]
  BY <1>2 DEF Runs
<1>4. run[f].retries \in Nat /\ Place[run[f].status] \in Nat
  BY <1>2 DEF Runs, Place
<1> HIDE DEF r
<1>5. r = run[f] \/ Height(run[f]) < Height(r)
  BY <1>3, <1>4 DEF Height
<1> QED
  BY <1>2, <1>5, OneRunClimbs

LEMMA PersistSensitivityClimbs ==
    ASSUME IInv, IInv', NEW w \in Workers, PersistSensitivity(w)
    PROVE  \A g \in Files : RunClimbs(g)
<1>1. PICK f \in Files : f = worker[w].file
  BY AtFile DEF PersistSensitivity, At
<1> DEFINE r == [run[f] EXCEPT !.sensitivity = TRUE]
<1>2. run[f] \in Runs /\ run' = [run EXCEPT ![f] = r]
  BY <1>1 DEF PersistSensitivity, IInv, TypeOK
<1>3. /\ r.status = run[f].status /\ r.retries = run[f].retries
      /\ r.sensitivity /\ r.dictionary = run[f].dictionary
      /\ run[f].sensitivity => r = run[f]
  BY <1>2 DEF Runs
<1>4. run[f].retries \in Nat /\ Place[run[f].status] \in Nat
  BY <1>2 DEF Runs, Place
<1> HIDE DEF r
<1>5. r = run[f] \/ Height(run[f]) < Height(r)
  BY <1>3, <1>4 DEF Height
<1> QED
  BY <1>2, <1>5, OneRunClimbs

LEMMA ContinueClimbs ==
    ASSUME IInv, IInv', NEW w \in Workers, Continue(w)
    PROVE  \A g \in Files : RunClimbs(g)
<1>1. CASE UNCHANGED run
  BY <1>1 DEF RunClimbs
<1> QED
  BY <1>1, ActivateClimbs, ClaimClimbs, CompleteClimbs, FailRunClimbs, RequeueClimbs,
     DraftDictionaryClimbs, PersistSensitivityClimbs
  DEF Continue, LeaveRun, Profile

\* Whatever ticks, operators and crashes do, each write of a run takes it
\* further: to the next status, artefact or retry.  A run is therefore written
\* 3 * MaxRetries + 2 times at most, which is why it settles (SweptFileSettles)
\* once ticks go on.
THEOREM RunsMoveForward == Spec => [][\A f \in Files : RunClimbs(f)]_vars
<1>1. IInv /\ IInv' /\ [Next]_vars => [\A f \in Files : RunClimbs(f)]_vars
  <2> SUFFICES ASSUME IInv, IInv', Next PROVE \A f \in Files : RunClimbs(f)
    OBVIOUS
  <2>1. CASE UNCHANGED run
    BY <2>1 DEF RunClimbs
  <2>2. ASSUME NEW w \in Workers, NEW f \in Files, Retry(w, f)
        PROVE  \A g \in Files : RunClimbs(g)
    BY <2>2, QueuedClimbs DEF Retry
  <2> QED
    BY <2>1, <2>2, ContinueClimbs
    DEF Next, Work, Ticking, Failing, UploadStep, Sweep, StageFails, Crash
<1> QED
  BY <1>1, Invariance, PTL DEF Spec

=============================================================================
