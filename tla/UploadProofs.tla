---------------------------- MODULE UploadProofs ----------------------------
(***************************************************************************)
(* The safety of UploadLifecycle, that it implements UploadContract, and   *)
(* that ParserRuns, written against the contract, runs beside it: for every *)
(* set of files, sessions, workers, versions and contents.                 *)
(***************************************************************************)
EXTENDS KaiIntake, FiniteSetTheorems, TLAPS

(***************************************************************************)
(* The inductive invariant.                                                *)
(***************************************************************************)

Settled == {"confirmed", "policy_blocked"}

\* A row: its version is there from completion on, its generation is that of
\* the declared bytes, and its verdict goes with its state.
RowOK(f) ==
    LET r == row[f] IN
    /\ r.state = "none" => r.policy = "pending"
    /\ r.version = None <=> r.state \in {"none", "reserved", "upload_started"}
    /\ r.gen # 0 => /\ r.version # None
                    /\ object[f] = [gen |-> r.gen, content |-> Declared[f]]
    /\ r.state \in Settled => r.gen # 0
    /\ r.state = "policy_blocked" => r.policy = "blocked"
    /\ r.policy = "passed" => /\ r.state = "confirmed"
                              /\ "passed" \in Judgements[object[f].content]
    /\ r.replay # None => r.replay = r.policy

\* The steps of a request that has found and verified the object.
Located == Transitions \cup {"bind", "facts", "assess"}

\* What a request knows of its file.
RequestOK(t) ==
    LET f == tx[t].file IN
    /\ tx[t].step # "idle" => f \in Files
    /\ tx[t].step \in {"count", "insert"} => row[f].state = "none"
    /\ tx[t].step \in Located =>
         /\ tx[t].version \in Versions /\ tx[t].gen = 1
         /\ object[f] = [gen |-> 1, content |-> Declared[f]]
    /\ tx[t].step = "confirm" => row[f].version = tx[t].version /\ row[f].gen = 1
    /\ tx[t].step \in {"facts", "assess"} => row[f].state \in Settled

\* A request that is reserving a file is the only one on it.
ReservesAlone ==
    \A t, u \in Sessions :
        t # u /\ tx[t].step \in {"count", "insert"} => tx[u].file # tx[t].file

\* A reservation that the trigger has let in counts as active already.
Entering == {tx[t].file : t \in {u \in Sessions : tx[u].step = "insert"}}
Claimed == Active \cup Entering

ClaimedBounded ==
    /\ IsFiniteSet(Claimed)
    /\ Cardinality(Claimed) < Limit + Cardinality(Sessions)

IInv ==
    /\ TypeOK
    /\ \A f \in Files : RowOK(f)
    /\ \A t \in Sessions : RequestOK(t)
    /\ ReservesAlone
    /\ OneRowPerChecksum
    /\ ClaimedBounded

-----------------------------------------------------------------------------
(***************************************************************************)
(* Steps that open no reservation.                                         *)
(***************************************************************************)

USE NotNone, RequestTypes, JudgementTypes
USE DEF Steps, States, Policies, PreConfirmation, Transitions, Generations, Settled

Reserving == {"count", "insert"}

\* What the step may do to a file, as far as the requests on it can tell.
Grows(f) ==
    /\ object[f].gen = 1 => object'[f] = object[f]
    /\ row[f].state \in Settled => row'[f].state \in Settled
    /\ row[f].version # None => row'[f].version = row[f].version
    /\ row[f].gen = 1 => row'[f].gen = 1
    /\ row'[f].state = "none" <=> row[f].state = "none"
    /\ row'[f].state \in PreConfirmation => row[f].state \in PreConfirmation

\* What it may do to a request: leave it alone, or take it on outside a
\* reservation.
Moves(t) ==
    \/ tx'[t] = tx[t]
    \/ /\ tx'[t].step \notin Reserving
       /\ \/ tx'[t].file \in {tx[t].file, None}
          \/ row[tx'[t].file].state # "none"
       /\ RequestOK(t)'

Tables == /\ row \in [Files -> Rows]
          /\ object \in [Files -> Objects]
          /\ url \subseteq Files

LEMMA RequestKept ==
    ASSUME NEW t \in Sessions, RequestOK(t), tx'[t] = tx[t],
           tx[t].step # "idle" => Grows(tx[t].file)
    PROVE  RequestOK(t)'
<1>1. CASE tx[t].step = "idle"
  BY <1>1 DEF RequestOK, Located
<1>2. CASE tx[t].step # "idle"
  <2>1. PICK f \in Files : f = tx[t].file
    BY <1>2 DEF RequestOK
  <2>2. Grows(f)
    BY <1>2, <2>1
  <2>3. tx'[t].step # "idle" => tx'[t].file \in Files
    BY <2>1
  <2>4. tx[t].step \in Located => tx[t].version # None
    BY DEF RequestOK
  <2>5. tx[t].step = "confirm" => tx[t].step \in Located
    BY DEF Located
  <2> QED
    BY ONLY <2>1, <2>2, <2>3, <2>4, <2>5, RequestOK(t), tx'[t] = tx[t]
    DEF RequestOK, Grows
<1> QED
  BY <1>1, <1>2

LEMMA ClaimedShrinks ==
    ASSUME ClaimedBounded, Claimed' \subseteq Claimed
    PROVE  ClaimedBounded'
<1>1. IsFiniteSet(Claimed') /\ Cardinality(Claimed') <= Cardinality(Claimed)
  BY FS_Subset DEF ClaimedBounded
<1>2. /\ Cardinality(Claimed) \in Nat /\ Cardinality(Claimed') \in Nat
      /\ Cardinality(Sessions) \in Nat
  BY <1>1, FS_CardinalityType, SessionsFinite DEF ClaimedBounded
<1> QED
  BY <1>1, <1>2, LimitPositive DEF ClaimedBounded

LEMMA Keeps ==
    ASSUME IInv, Tables', tx' \in [Sessions -> Requests],
           \A t \in Sessions : Moves(t),
           \A f \in Files : Grows(f) /\ RowOK(f)'
    PROVE  IInv'
<1>1. TypeOK'
  BY DEF TypeOK, Tables
<1>2. ASSUME NEW t \in Sessions PROVE RequestOK(t)'
  <2>1. CASE tx'[t] = tx[t]
    BY <2>1, RequestKept DEF IInv, RequestOK
  <2> QED
    BY <2>1 DEF Moves
<1>3. ASSUME NEW t \in Sessions, NEW u \in Sessions, t # u, tx'[t].step \in Reserving
      PROVE  tx'[u].file # tx'[t].file
  <2>1. tx'[t] = tx[t] /\ tx[t].step \in Reserving
    BY <1>3 DEF Moves
  <2>2. /\ tx[t].file \in Files
        /\ row[tx[t].file].state = "none"
        /\ tx[u].file # tx[t].file
    BY <1>3, <2>1 DEF IInv, RequestOK, ReservesAlone, Reserving
  <2> QED
    BY <2>1, <2>2 DEF Moves
<1>4. ReservesAlone'
  BY <1>3 DEF ReservesAlone, Reserving
<1>5. OneRowPerChecksum'
  BY DEF IInv, OneRowPerChecksum, Grows
<1>6. Claimed' \subseteq Claimed
  <2>1. Active' \subseteq Active
    BY DEF Active, Grows
  <2>2. Entering' \subseteq Entering
    BY DEF Entering, Moves, Reserving
  <2> QED
    BY <2>1, <2>2 DEF Claimed
<1>7. ClaimedBounded'
  BY <1>6, ClaimedShrinks DEF IInv
<1> QED
  BY <1>1, <1>2, <1>4, <1>5, <1>7 DEF IInv

LEMMA OneMoves ==
    ASSUME IInv, NEW t \in Sessions, NEW x \in Requests, tx' = [tx EXCEPT ![t] = x],
           x.step \notin Reserving,
           x.file \in {tx[t].file, None} \/ row[x.file].state # "none",
           RequestOK(t)'
    PROVE  /\ tx' \in [Sessions -> Requests]
           /\ \A u \in Sessions : Moves(u)
<1>1. tx' \in [Sessions -> Requests] /\ tx'[t] = x
  BY DEF IInv, TypeOK
<1>2. \A u \in Sessions \ {t} : tx'[u] = tx[u]
  BY DEF IInv, TypeOK
<1> QED
  BY <1>1, <1>2 DEF Moves

LEMMA SameRows ==
    ASSUME IInv, UNCHANGED <<row, object>>
    PROVE  \A f \in Files : Grows(f) /\ RowOK(f)'
BY DEF IInv, Grows, RowOK

LEMMA OneRow ==
    ASSUME IInv, NEW f \in Files, NEW r \in Rows, row' = [row EXCEPT ![f] = r],
           UNCHANGED <<object, url>>, Grows(f), RowOK(f)'
    PROVE  Tables' /\ \A g \in Files : Grows(g) /\ RowOK(g)'
<1>1. Tables' /\ \A g \in Files \ {f} : row'[g] = row[g] /\ object'[g] = object[g]
  BY DEF IInv, TypeOK, Tables
<1>2. \A g \in Files \ {f} : Grows(g) /\ RowOK(g)'
  BY <1>1 DEF IInv, Grows, RowOK
<1> QED
  BY <1>1, <1>2

\* A request that only reads.
LEMMA Quiet ==
    ASSUME IInv, NEW t \in Sessions, NEW x \in Requests, tx' = [tx EXCEPT ![t] = x],
           UNCHANGED <<row, object, url>>,
           x.step \notin Reserving,
           x.file \in {tx[t].file, None} \/ row[x.file].state # "none",
           RequestOK(t)'
    PROVE  IInv'
<1>1. Tables'
  BY DEF IInv, TypeOK, Tables
<1> QED
  BY <1>1, OneMoves, SameRows, Keeps

LEMMA IdleRequest == Idle \in Requests /\ Idle.step = "idle" /\ Idle.file = None
BY DEF Idle, Requests

LEMMA Ends ==
    ASSUME IInv, NEW t \in Sessions, End(t)
    PROVE  /\ tx' = [tx EXCEPT ![t] = Idle]
           /\ tx'[t] = Idle
           /\ RequestOK(t)'
<1>1. tx' = [tx EXCEPT ![t] = Idle] /\ tx'[t] = Idle
  BY DEF IInv, TypeOK, End
<1> QED
  BY <1>1, IdleRequest DEF RequestOK, Located

LEMMA QuietEnd ==
    ASSUME IInv, NEW t \in Sessions, End(t), UNCHANGED <<row, object, url>>
    PROVE  IInv'
BY Ends, Quiet, IdleRequest DEF Reserving

\* Going on to another step of the same request.
LEMMA GoesOn ==
    ASSUME IInv, NEW t \in Sessions, NEW step \in Steps, Goto(t, step)
    PROVE  \E x \in Requests :
              /\ tx' = [tx EXCEPT ![t] = x] /\ tx'[t] = x
              /\ x.step = step /\ x.file = tx[t].file
              /\ x.version = tx[t].version /\ x.gen = tx[t].gen
<1> DEFINE x == [tx[t] EXCEPT !.step = step, !.write = FALSE]
<1>1. tx[t] \in Requests
  BY DEF IInv, TypeOK
<1>2. x \in Requests
  BY <1>1 DEF Requests
<1>3. tx' = [tx EXCEPT ![t] = x]
  BY <1>1 DEF Goto, IInv, TypeOK
<1>4. tx'[t] = x
  BY <1>3 DEF IInv, TypeOK
<1>5. /\ x.step = step /\ x.file = tx[t].file
      /\ x.version = tx[t].version /\ x.gen = tx[t].gen
  BY <1>1 DEF Requests
<1> QED
  BY <1>2, <1>3, <1>4, <1>5

LEMMA QuietGoto ==
    ASSUME IInv, NEW t \in Sessions, NEW step \in Located, Goto(t, step),
           UNCHANGED <<row, object, url>>, tx[t].step \in Located,
           step = "confirm" => row[tx[t].file].version = tx[t].version /\ row[tx[t].file].gen = 1,
           step \in {"facts", "assess"} => row[tx[t].file].state \in Settled
    PROVE  IInv'
<1>1. step \in Steps
  BY DEF Located
<1>2. PICK x \in Requests :
        /\ tx' = [tx EXCEPT ![t] = x] /\ tx'[t] = x
        /\ x.step = step /\ x.file = tx[t].file
        /\ x.version = tx[t].version /\ x.gen = tx[t].gen
  BY <1>1, GoesOn
<1>3. RequestOK(t)
  BY DEF IInv
<1>4. step \notin Reserving
  BY DEF Located, Reserving
<1>5. RequestOK(t)'
  BY <1>2, <1>3, <1>4 DEF RequestOK, Reserving, Located
<1> QED
  BY <1>2, <1>4, <1>5, Quiet

LEMMA LocateKeeps == ASSUME IInv, NEW t \in Sessions, Locate(t) PROVE IInv'
<1> DEFINE f == tx[t].file
<1>1. CASE End(t)
  BY <1>1, QuietEnd DEF Locate
<1>2. ASSUME NEW v \in VersionFor(t), object[f].gen # 0, object[f].content = Declared[f],
             tx' = [tx EXCEPT ![t].step = FirstStep(tx[t].seen), ![t].version = v,
                              ![t].gen = object[f].gen]
      PROVE  IInv'
  <2> DEFINE x == [tx[t] EXCEPT !.step = FirstStep(tx[t].seen), !.version = v,
                                !.gen = object[f].gen]
  <2>1. tx[t] \in Requests /\ f \in Files /\ RequestOK(t) /\ RowOK(f)
    BY DEF IInv, TypeOK, Locate, RequestOK
  <2>2. object[f] = [gen |-> 1, content |-> Declared[f]]
    BY <1>2, <2>1 DEF IInv, TypeOK, Objects
  <2>3. row[f] \in Rows
    BY <2>1 DEF IInv, TypeOK
  <2>4. v \in Versions
    BY <1>2, <2>1, <2>3 DEF VersionFor, Unused, RowOK, Requests, Rows
  <2>5. FirstStep(tx[t].seen) \in {"start", "complete", "bind"}
    BY DEF FirstStep
  <2>6. x \in Requests
    <3>1. object[f].gen \in Generations /\ FirstStep(tx[t].seen) \in Steps
      BY <2>2, <2>5
    <3> QED
      BY ONLY <2>1, <2>4, <3>1 DEF Requests
  <2>7. tx' = [tx EXCEPT ![t] = x] /\ tx'[t] = x
    BY <1>2, <2>1 DEF IInv, TypeOK
  <2>8. /\ x.step \in {"start", "complete", "bind"} /\ x.file = f
        /\ x.version = v /\ x.gen = 1
    BY <2>1, <2>2, <2>5 DEF Requests
  <2>9. RequestOK(t)' /\ x.step \notin Reserving
    BY <2>1, <2>2, <2>4, <2>7, <2>8 DEF RequestOK, Located, Reserving, Locate
  <2> QED
    BY <2>6, <2>7, <2>8, <2>9, Quiet DEF Locate
<1> QED
  BY <1>1, <1>2 DEF Locate

LEMMA ReadTransitionKeeps ==
    ASSUME IInv, NEW t \in Sessions, NEW k \in Transitions, ReadTransition(t, k)
    PROVE  IInv'
<1>1. /\ tx[t].step = k /\ tx[t] \in Requests /\ tx[t].file \in Files
      /\ row[tx[t].file] \in Rows /\ RequestOK(t) /\ RowOK(tx[t].file)
      /\ tx[t].step \in Located
  BY DEF ReadTransition, IInv, TypeOK, RequestOK, Located
<1>2. CASE Replayed(t, k) /\ Goto(t, After[k])
  <2>1. After[k] \in Located /\ After[k] \notin {"confirm", "assess"}
    BY DEF After, Located
  <2>2. After[k] = "facts" => row[tx[t].file].state \in Settled
    BY <1>1, <1>2 DEF After, Replayed, Target
  <2> QED
    BY <1>1, <1>2, <2>1, <2>2, QuietGoto DEF ReadTransition
<1>3. CASE tx' = [tx EXCEPT ![t].write = TRUE]
  <2> DEFINE x == [tx[t] EXCEPT !.write = TRUE]
  <2>1. x \in Requests /\ tx' = [tx EXCEPT ![t] = x] /\ tx'[t] = x
    BY <1>1, <1>3 DEF IInv, TypeOK, Requests
  <2>2. /\ x.step = tx[t].step /\ x.file = tx[t].file
        /\ x.version = tx[t].version /\ x.gen = tx[t].gen
    BY <1>1 DEF Requests
  <2>3. RequestOK(t)'
    BY <1>1, <2>1, <2>2 DEF RequestOK, Located, ReadTransition
  <2> QED
    BY <1>1, <2>1, <2>2, <2>3, Quiet DEF ReadTransition, Reserving
<1>4. CASE End(t)
  BY <1>4, QuietEnd DEF ReadTransition
<1> QED
  BY <1>2, <1>3, <1>4 DEF ReadTransition

LEMMA ReadFactsKeeps == ASSUME IInv, NEW t \in Sessions, ReadFacts(t) PROVE IInv'
<1>1. tx[t].step = "facts" /\ RequestOK(t) /\ tx[t].step \in Located
  BY DEF ReadFacts, IInv, Located
<1>2. CASE Goto(t, "assess")
  BY <1>1, <1>2, QuietGoto DEF ReadFacts, RequestOK, Located
<1>3. CASE End(t)
  BY <1>3, QuietEnd DEF ReadFacts
<1> QED
  BY <1>2, <1>3 DEF ReadFacts

\* A request changes the row of its file and goes on to x.
LEMMA Writes ==
    ASSUME IInv, NEW t \in Sessions, NEW x \in Requests, tx' = [tx EXCEPT ![t] = x],
           x.step \notin Reserving, x.file \in {tx[t].file, None}, RequestOK(t)',
           NEW f \in Files, NEW r \in Rows, row' = [row EXCEPT ![f] = r],
           UNCHANGED <<object, url>>, Grows(f), RowOK(f)'
    PROVE  IInv'
BY OneMoves, OneRow, Keeps

LEMMA WriteTransitionKeeps ==
    ASSUME IInv, NEW t \in Sessions, NEW k \in Transitions, WriteTransition(t, k)
    PROVE  IInv'
<1>1. CASE End(t) /\ UNCHANGED row
  BY <1>1, QuietEnd DEF WriteTransition
<1>2. CASE ~(End(t) /\ UNCHANGED row)
  <2>1. PICK f \in Files : f = tx[t].file
    BY DEF IInv, RequestOK, WriteTransition
  <2> DEFINE r == [row[f] EXCEPT !.state = Target[k],
                     !.version = IF k = "complete" THEN tx[t].version ELSE row[f].version]
  <2>2. /\ tx[t].step = k /\ row[f].state = Expected[k]
        /\ row' = [row EXCEPT ![f].state = Target[k],
                     ![f].version = IF k = "complete" THEN tx[t].version ELSE row[f].version]
        /\ Goto(t, After[k]) /\ UNCHANGED <<object, url>>
    BY <1>2, <2>1 DEF WriteTransition
  <2>3. /\ row[f] \in Rows /\ RowOK(f) /\ tx[t] \in Requests
        /\ tx[t].version \in Versions /\ tx[t].gen = 1
        /\ object[f] = [gen |-> 1, content |-> Declared[f]]
        /\ k = "confirm" => row[f].version = tx[t].version /\ row[f].gen = 1
    BY <2>1, <2>2 DEF IInv, TypeOK, RequestOK, Located
  <2>4. Target[k] \in States
    BY DEF Target
  <2>5. r \in Rows
    BY <2>3, <2>4 DEF Rows
  <2>6. row' = [row EXCEPT ![f] = r] /\ row'[f] = r
    BY <2>2, <2>3 DEF IInv, TypeOK
  <2>7. /\ r.state = Target[k] /\ r.gen = row[f].gen /\ r.policy = row[f].policy
        /\ r.replay = row[f].replay
        /\ r.version = IF k = "complete" THEN tx[t].version ELSE row[f].version
    BY <2>3 DEF Rows
  <2> DEFINE kept == /\ r.gen = row[f].gen /\ r.policy = row[f].policy
                     /\ r.replay = row[f].replay
  <2>8. /\ kept
        /\ \/ /\ k = "start" /\ r.version = row[f].version
              /\ row[f].state = "reserved" /\ r.state = "upload_started"
           \/ /\ k = "complete" /\ r.version = tx[t].version
              /\ row[f].state = "upload_started" /\ r.state = "uploaded_unconfirmed"
           \/ /\ k = "confirm" /\ r.version = row[f].version
              /\ row[f].state = "uploaded_unconfirmed" /\ r.state = "confirmed"
    BY <2>2, <2>7 DEF Expected, Target
  <2>9. Grows(f) /\ RowOK(f)'
    <3> HIDE DEF r
    <3>1. tx[t].version # None /\ row'[f] = r /\ object' = object
      BY <2>2, <2>3, <2>6
    <3>2. Grows(f)
      BY ONLY <2>3, <2>8, <3>1 DEF Grows, RowOK, Settled, PreConfirmation
    <3>3. RowOK(f)'
      BY ONLY <2>3, <2>8, <3>1 DEF RowOK, Settled
    <3> QED
      BY <3>2, <3>3
  <2>10. After[k] \in {"complete", "bind", "facts"} /\ After[k] \in Steps
    BY DEF After
  <2>11. PICK x \in Requests :
           /\ tx' = [tx EXCEPT ![t] = x] /\ tx'[t] = x
           /\ x.step = After[k] /\ x.file = f
           /\ x.version = tx[t].version /\ x.gen = tx[t].gen
    BY <2>1, <2>2, <2>10, GoesOn
  <2>12. After[k] = "facts" => r.state \in Settled
    BY <2>7 DEF After, Target
  <2>13. RequestOK(t)'
    BY <2>2, <2>3, <2>6, <2>10, <2>11, <2>12 DEF RequestOK
  <2> QED
    BY <2>1, <2>2, <2>5, <2>6, <2>9, <2>10, <2>11, <2>13, Writes DEF Reserving
<1> QED
  BY <1>1, <1>2

LEMMA BindGenerationKeeps ==
    ASSUME IInv, NEW t \in Sessions, BindGeneration(t) PROVE IInv'
<1>1. CASE End(t) /\ UNCHANGED row
  BY <1>1, QuietEnd DEF BindGeneration
<1>2. PICK f \in Files : f = tx[t].file
  BY DEF IInv, RequestOK, BindGeneration
<1>3. /\ row[f] \in Rows /\ RowOK(f) /\ tx[t] \in Requests /\ tx[t].step = "bind"
      /\ tx[t].version \in Versions /\ tx[t].gen = 1
      /\ object[f] = [gen |-> 1, content |-> Declared[f]]
  BY <1>2 DEF IInv, TypeOK, RequestOK, Located, BindGeneration
<1>4. CASE UNCHANGED row /\ row[f].version = tx[t].version /\ row[f].gen = tx[t].gen
           /\ Goto(t, "confirm")
  <2>1. "confirm" \in Located /\ tx[t].step \in Located
    BY <1>3 DEF Located
  <2> QED
    BY <1>2, <1>3, <1>4, <2>1, QuietGoto DEF BindGeneration
<1>5. CASE /\ row[f].version = tx[t].version /\ row[f].gen = 0
           /\ row' = [row EXCEPT ![f].gen = tx[t].gen]
           /\ Goto(t, "confirm")
  <2> DEFINE r == [row[f] EXCEPT !.gen = tx[t].gen]
  <2>1. r \in Rows
    BY <1>3 DEF Rows
  <2>2. row' = [row EXCEPT ![f] = r] /\ row'[f] = r
    BY <1>3, <1>5 DEF IInv, TypeOK
  <2>3. /\ r.state = row[f].state /\ r.gen = 1 /\ r.policy = row[f].policy
        /\ r.replay = row[f].replay /\ r.version = tx[t].version
    BY <1>3, <1>5 DEF Rows
  <2>4. UNCHANGED <<object, url>>
    BY DEF BindGeneration
  <2>5. Grows(f)
    BY <1>3, <1>5, <2>2, <2>3, <2>4 DEF Grows
  <2>6. RowOK(f)'
    BY <1>3, <1>5, <2>2, <2>3, <2>4 DEF RowOK
  <2>7. PICK x \in Requests :
          /\ tx' = [tx EXCEPT ![t] = x] /\ tx'[t] = x
          /\ x.step = "confirm" /\ x.file = f
          /\ x.version = tx[t].version /\ x.gen = tx[t].gen
    BY <1>2, <1>5, GoesOn
  <2>8. RequestOK(t)'
    BY <1>3, <2>2, <2>3, <2>4, <2>7 DEF RequestOK
  <2> QED
    BY <1>2, <2>1, <2>2, <2>4, <2>5, <2>6, <2>7, <2>8, Writes DEF Reserving
<1> QED
  BY <1>1, <1>2, <1>4, <1>5 DEF BindGeneration

\* The outcome of a judgement of the file's bytes.
LEMMA Judged ==
    ASSUME IInv, NEW f \in Files, row[f].state \in Settled,
           NEW outcome \in Judgements[object[f].content]
    PROVE  outcome \in Policies \ {"pending"}
<1>1. object[f] = [gen |-> row[f].gen, content |-> Declared[f]]
  BY DEF IInv, RowOK
<1>2. Judgements[Declared[f]] \subseteq {"passed", "failed", "blocked"}
  OBVIOUS
<1> QED
  BY <1>1, <1>2

LEMMA AssessKeeps == ASSUME IInv, NEW t \in Sessions, Assess(t) PROVE IInv'
<1>1. PICK f \in Files : f = tx[t].file
  BY DEF IInv, RequestOK, Assess
<1>2. /\ row[f] \in Rows /\ RowOK(f) /\ row[f].state \in Settled
      /\ UNCHANGED <<object, url>> /\ End(t)
  BY <1>1 DEF IInv, TypeOK, RequestOK, Assess
<1>3. CASE UNCHANGED row
  BY <1>2, <1>3, QuietEnd
<1>4. CASE row' # row
  <2>1. PICK outcome \in Judgements[object[f].content] :
          row[f].policy = "pending" /\ row' = [row EXCEPT ![f].policy = outcome]
    BY <1>1, <1>4 DEF Assess
  <2> DEFINE r == [row[f] EXCEPT !.policy = outcome]
  <2>2. outcome \in Policies \ {"pending"}
    BY <1>2, Judged
  <2>3. r \in Rows
    BY <1>2, <2>2 DEF Rows
  <2>4. row' = [row EXCEPT ![f] = r] /\ row'[f] = r
    BY <1>2, <2>1 DEF IInv, TypeOK
  <2>5. /\ r.state = row[f].state /\ r.gen = row[f].gen /\ r.policy = outcome
        /\ r.replay = row[f].replay /\ r.version = row[f].version
    BY <1>2 DEF Rows
  <2>6. row[f].replay # None => row[f].replay # "pending"
    BY <1>2 DEF Rows
  <2>7. Grows(f)
    BY <1>2, <2>4, <2>5 DEF Grows
  <2>8. row[f].replay = None /\ row[f].state = "confirmed"
    BY <1>2, <2>1, <2>6 DEF RowOK
  <2>9. RowOK(f)'
    BY <1>2, <2>1, <2>4, <2>5, <2>8 DEF RowOK
  <2> QED
    BY <1>1, <1>2, <2>3, <2>4, <2>7, <2>9, Ends, IdleRequest, Writes DEF Reserving
<1> QED
  BY <1>3, <1>4

LEMMA DecideKeeps == ASSUME IInv, NEW t \in Sessions, Decide(t) PROVE IInv'
<1>1. PICK f \in Files : f = tx[t].file
  BY DEF IInv, RequestOK, Decide
<1>2. row[f] \in Rows /\ RowOK(f) /\ UNCHANGED <<object, url>> /\ End(t)
  BY DEF IInv, TypeOK, Decide
<1>3. CASE UNCHANGED row
  BY <1>2, <1>3, QuietEnd
<1>4. CASE row' # row
  <2>1. PICK outcome \in Judgements[object[f].content] :
          /\ row[f].policy = "pending" /\ row[f].state = "confirmed"
          /\ row' = [row EXCEPT
               ![f].policy = outcome,
               ![f].state = IF outcome = "blocked" THEN "policy_blocked" ELSE @,
               ![f].replay = IF @ = None THEN outcome ELSE @]
    BY <1>1, <1>4 DEF Decide
  <2> DEFINE r == [row[f] EXCEPT
               !.policy = outcome,
               !.state = IF outcome = "blocked" THEN "policy_blocked" ELSE @,
               !.replay = IF @ = None THEN outcome ELSE @]
  <2>2. outcome \in Policies \ {"pending"}
    BY <2>1, Judged
  <2>3. r \in Rows
    BY <1>2, <2>2 DEF Rows
  <2>4. row' = [row EXCEPT ![f] = r] /\ row'[f] = r
    BY <1>2, <2>1 DEF IInv, TypeOK
  <2>5. /\ r.gen = row[f].gen /\ r.policy = outcome /\ r.version = row[f].version
        /\ r.state = IF outcome = "blocked" THEN "policy_blocked" ELSE "confirmed"
        /\ r.replay = IF row[f].replay = None THEN outcome ELSE row[f].replay
    BY <1>2, <2>1 DEF Rows
  <2>6. row[f].replay # None => row[f].replay # "pending"
    BY <1>2 DEF Rows
  <2>7. row[f].replay = None
    BY <1>2, <2>1, <2>6 DEF RowOK
  <2>8. /\ r.state \in Settled /\ r.replay = outcome
        /\ r.state = "policy_blocked" <=> outcome = "blocked"
    BY <2>5, <2>7
  <2>9. Grows(f) /\ RowOK(f)'
    <3> HIDE DEF r
    <3>1. row'[f] = r /\ object' = object /\ outcome # "pending"
      BY <1>2, <2>2, <2>4
    <3>2. r.gen = row[f].gen /\ r.policy = outcome /\ r.version = row[f].version
      BY <2>5
    <3>3. Grows(f)
      BY ONLY <2>1, <2>8, <3>1, <3>2 DEF Grows, Settled, PreConfirmation
    <3>4. RowOK(f)'
      BY ONLY <1>2, <2>1, <2>8, <3>1, <3>2 DEF RowOK, Settled
    <3> QED
      BY <3>3, <3>4
  <2> QED
    BY <1>1, <1>2, <2>3, <2>4, <2>9, Ends, IdleRequest, Writes DEF Reserving
<1> QED
  BY <1>3, <1>4

\* Rows that somebody else than a request changes, and the bucket.
LEMMA Beside ==
    ASSUME IInv, UNCHANGED tx, Tables', \A f \in Files : Grows(f) /\ RowOK(f)'
    PROVE  IInv'
<1>1. tx' \in [Sessions -> Requests] /\ \A t \in Sessions : Moves(t)
  BY DEF IInv, TypeOK, Moves
<1> QED
  BY <1>1, Keeps

LEMMA BlockFileKeeps == ASSUME IInv, NEW f \in Files, BlockFile(f) PROVE IInv'
<1> DEFINE r == [row[f] EXCEPT !.policy = "blocked"]
<1>1. row[f] \in Rows /\ RowOK(f)
  BY DEF IInv, TypeOK
<1>2. r \in Rows
  BY <1>1 DEF Rows
<1>3. row' = [row EXCEPT ![f] = r] /\ row'[f] = r
  BY <1>1 DEF IInv, TypeOK, BlockFile
<1>4. /\ r.state = row[f].state /\ r.gen = row[f].gen /\ r.policy = "blocked"
      /\ r.replay = row[f].replay /\ r.version = row[f].version
  BY <1>1 DEF Rows
<1>5. row[f].replay # None => row[f].replay # "pending"
  BY <1>1 DEF Rows
<1>6. UNCHANGED <<object, url, tx>> /\ row[f].state # "none" /\ row[f].policy = "pending"
  BY DEF BlockFile
<1>7. Grows(f)
  BY <1>3, <1>4, <1>6 DEF Grows
<1>8. RowOK(f)'
  BY <1>1, <1>3, <1>4, <1>5, <1>6 DEF RowOK
<1> QED
  BY <1>2, <1>3, <1>6, <1>7, <1>8, OneRow, Beside

LEMMA ExpireKeeps == ASSUME IInv, NEW f \in Files, Expire(f) PROVE IInv'
<1> DEFINE r == [row[f] EXCEPT !.due = TRUE]
<1>1. row[f] \in Rows /\ RowOK(f)
  BY DEF IInv, TypeOK
<1>2. r \in Rows
  BY <1>1 DEF Rows
<1>3. row' = [row EXCEPT ![f] = r] /\ row'[f] = r
  BY <1>1 DEF IInv, TypeOK, Expire
<1>4. /\ r.state = row[f].state /\ r.gen = row[f].gen /\ r.policy = row[f].policy
      /\ r.replay = row[f].replay /\ r.version = row[f].version
  BY <1>1 DEF Rows
<1>5. UNCHANGED <<object, url, tx>>
  BY DEF Expire
<1>6. Grows(f) /\ RowOK(f)'
  BY <1>1, <1>3, <1>4, <1>5 DEF Grows, RowOK
<1> QED
  BY <1>2, <1>3, <1>5, <1>6, OneRow, Beside

LEMMA RequestUploadUrlKeeps ==
    ASSUME IInv, NEW f \in Files, RequestUploadUrl(f) PROVE IInv'
<1>1. Tables' /\ UNCHANGED <<row, object, tx>>
  BY DEF IInv, TypeOK, Tables, RequestUploadUrl
<1> QED
  BY <1>1, SameRows, Beside

LEMMA PutObjectKeeps ==
    ASSUME IInv, NEW f \in Files, NEW c \in Contents, PutObject(f, c) PROVE IInv'
<1>1. /\ UNCHANGED <<row, url, tx>> /\ object[f].gen = 0
      /\ object' = [object EXCEPT ![f] = [gen |-> 1, content |-> c]]
  BY DEF PutObject
<1>2. [gen |-> 1, content |-> c] \in Objects
  BY DEF Objects
<1>3. Tables' /\ \A g \in Files \ {f} : object'[g] = object[g]
  BY <1>1, <1>2 DEF IInv, TypeOK, Tables
<1>4. \A g \in Files \ {f} : Grows(g) /\ RowOK(g)'
  BY <1>1, <1>3 DEF IInv, Grows, RowOK
<1>5. RowOK(f) /\ row[f] \in Rows
  BY DEF IInv, TypeOK
<1>6. row[f].gen = 0
  <2>1. CASE row[f].gen # 0
    <3>1. object[f] = [gen |-> row[f].gen, content |-> Declared[f]]
      BY <1>5, <2>1 DEF RowOK
    <3> QED
      BY <1>1, <2>1, <3>1
  <2> QED
    BY <2>1
<1>7. row[f].state \notin Settled /\ row[f].policy # "passed"
  BY <1>5, <1>6 DEF RowOK
<1>8. Grows(f) /\ RowOK(f)'
  BY <1>1, <1>5, <1>6, <1>7 DEF Grows, RowOK
<1> QED
  BY <1>1, <1>3, <1>4, <1>8, Beside

LEMMA BeginConfirmKeeps ==
    ASSUME IInv, NEW t \in Sessions, NEW f \in Files, BeginConfirm(t, f) PROVE IInv'
<1> DEFINE x == [Idle EXCEPT !.step = "locate", !.file = f, !.late = row[f].due,
                             !.seen = row[f].state, !.version = row[f].version]
<1>1. row[f] \in Rows
  BY DEF IInv, TypeOK
<1>2. x \in Requests /\ x.step = "locate" /\ x.file = f
  <2>1. /\ row[f].due \in BOOLEAN /\ row[f].state \in States
        /\ row[f].version \in Versions \cup {None}
    BY <1>1 DEF Rows
  <2> QED
    BY <2>1, IdleRequest DEF Requests
<1>3. tx' = [tx EXCEPT ![t] = x] /\ tx'[t] = x
  BY DEF BeginConfirm, IInv, TypeOK
<1>4. row[f].state # "none" /\ UNCHANGED <<row, object, url>>
  BY DEF BeginConfirm
<1>5. RequestOK(t)' /\ x.step \notin Reserving
  BY <1>2, <1>3 DEF RequestOK, Located, Reserving
<1> QED
  BY <1>2, <1>3, <1>4, <1>5, Quiet

LEMMA BeginRequest ==
    ASSUME IInv, NEW t \in Sessions, NEW f \in Files, NEW step \in Steps, Begin(t, step, f)
    PROVE  \E x \in Requests : /\ tx' = [tx EXCEPT ![t] = x] /\ tx'[t] = x
                               /\ x.step = step /\ x.file = f
<1> DEFINE x == [Idle EXCEPT !.step = step, !.file = f]
<1>1. x \in Requests /\ x.step = step /\ x.file = f
  BY IdleRequest DEF Requests
<1>2. tx' = [tx EXCEPT ![t] = x] /\ tx'[t] = x
  BY DEF Begin, IInv, TypeOK
<1> QED
  BY <1>1, <1>2

LEMMA BeginDecideKeeps ==
    ASSUME IInv, NEW t \in Sessions, NEW f \in Files, BeginDecide(t, f) PROVE IInv'
<1>1. PICK x \in Requests : /\ tx' = [tx EXCEPT ![t] = x] /\ tx'[t] = x
                            /\ x.step = "decide" /\ x.file = f
  BY BeginRequest DEF BeginDecide
<1>2. row[f].state # "none" /\ UNCHANGED <<row, object, url>>
  BY DEF BeginDecide
<1>3. RequestOK(t)' /\ x.step \notin Reserving
  BY <1>1 DEF RequestOK, Located, Reserving
<1> QED
  BY <1>1, <1>2, <1>3, Quiet

LEMMA RollbackKeeps == ASSUME IInv, NEW t \in Sessions, Rollback(t) PROVE IInv'
BY QuietEnd DEF Rollback

-----------------------------------------------------------------------------
(***************************************************************************)
(* The three steps of a reservation.                                       *)
(***************************************************************************)

LEMMA BeginReserveKeeps ==
    ASSUME IInv, NEW t \in Sessions, NEW f \in Files, BeginReserve(t, f) PROVE IInv'
<1>1. /\ UNCHANGED <<row, object, url>> /\ Begin(t, "count", f)
      /\ row[f].state = "none" /\ \A u \in Sessions : tx[u].file # f
  BY DEF BeginReserve
<1>2. PICK x \in Requests : /\ tx' = [tx EXCEPT ![t] = x] /\ tx'[t] = x
                            /\ x.step = "count" /\ x.file = f
  BY <1>1, BeginRequest
<1>3. tx' \in [Sessions -> Requests] /\ \A u \in Sessions \ {t} : tx'[u] = tx[u]
  BY <1>2 DEF IInv, TypeOK
<1>4. TypeOK'
  BY <1>1, <1>3 DEF IInv, TypeOK
<1>5. \A g \in Files : Grows(g) /\ RowOK(g)'
  BY <1>1, SameRows
<1>6. ASSUME NEW u \in Sessions PROVE RequestOK(u)'
  <2>1. CASE u = t
    BY <1>1, <1>2, <2>1 DEF RequestOK, Located
  <2>2. CASE u # t
    BY <1>3, <1>5, <2>2, RequestKept DEF IInv, RequestOK
  <2> QED
    BY <2>1, <2>2
<1>7. ReservesAlone'
  BY <1>1, <1>2, <1>3 DEF IInv, ReservesAlone
<1>8. OneRowPerChecksum' /\ Active' = Active
  BY <1>1 DEF IInv, OneRowPerChecksum, Active
<1>9. Entering' \subseteq Entering
  BY <1>2, <1>3 DEF Entering
<1>10. ClaimedBounded'
  BY <1>8, <1>9, ClaimedShrinks DEF IInv, Claimed
<1> QED
  BY <1>4, <1>5, <1>6, <1>7, <1>8, <1>10 DEF IInv

\* There are no more files on the way in than sessions.
LEMMA EnteringBounded ==
    /\ IsFiniteSet(Entering')
    /\ Cardinality(Entering') \in Nat
    /\ Cardinality(Entering') <= Cardinality(Sessions)
<1> DEFINE S == {u \in Sessions : tx'[u].step = "insert"}
           g == [u \in S |-> tx'[u].file]
<1>1. Entering' = {tx'[u].file : u \in S}
  BY DEF Entering
<1>2. IsFiniteSet(S) /\ Cardinality(S) <= Cardinality(Sessions)
  BY FS_Subset, SessionsFinite
<1>3. g \in Surjection(S, Entering')
  BY <1>1 DEF Surjection
<1>4. IsFiniteSet(Entering') /\ Cardinality(Entering') <= Cardinality(S)
  BY <1>2, <1>3, FS_Surjection
<1>5. /\ Cardinality(S) \in Nat /\ Cardinality(Sessions) \in Nat
      /\ Cardinality(Entering') \in Nat
  BY <1>2, <1>4, FS_CardinalityType, SessionsFinite
<1> QED
  BY <1>2, <1>4, <1>5

\* The trigger found room: the active rows were below the limit then, and
\* every other request on its way in belongs to another session.
LEMMA CountActiveKeeps == ASSUME IInv, NEW t \in Sessions, CountActive(t) PROVE IInv'
<1>1. PICK f \in Files : f = tx[t].file
  BY DEF IInv, RequestOK, CountActive
<1>2. CASE End(t)
  BY <1>2, QuietEnd DEF CountActive
<1>3. CASE Room(f) /\ Goto(t, "insert")
  <2>1. /\ UNCHANGED <<row, object, url>> /\ tx[t].step = "count"
        /\ row[f].state = "none"
    BY <1>1 DEF IInv, RequestOK, CountActive
  <2>2. PICK x \in Requests : /\ tx' = [tx EXCEPT ![t] = x] /\ tx'[t] = x
                              /\ x.step = "insert" /\ x.file = f
    BY <1>1, <1>3, GoesOn
  <2>3. tx' \in [Sessions -> Requests] /\ \A u \in Sessions \ {t} : tx'[u] = tx[u]
    BY <2>2 DEF IInv, TypeOK
  <2>4. TypeOK'
    BY <2>1, <2>3 DEF IInv, TypeOK
  <2>5. \A g \in Files : Grows(g) /\ RowOK(g)'
    BY <2>1, SameRows
  <2>6. ASSUME NEW u \in Sessions PROVE RequestOK(u)'
    <3>1. CASE u = t
      BY <2>1, <2>2, <3>1 DEF RequestOK, Located
    <3>2. CASE u # t
      BY <2>3, <2>5, <3>2, RequestKept DEF IInv, RequestOK
    <3> QED
      BY <3>1, <3>2
  <2>7. ReservesAlone'
    BY <1>1, <2>1, <2>2, <2>3 DEF IInv, ReservesAlone
  <2>8. OneRowPerChecksum' /\ Active' = Active
    BY <2>1 DEF IInv, OneRowPerChecksum, Active
  <2>9. Cardinality(Active) < Limit /\ IsFiniteSet(Active) /\ Cardinality(Active) \in Nat
    <3>1. Active \ {f} = Active
      BY <2>1 DEF Active
    <3>2. IsFiniteSet(Active)
      BY FS_Subset DEF IInv, ClaimedBounded, Claimed
    <3> QED
      BY <1>3, <3>1, <3>2, FS_CardinalityType DEF Room
  <2>10. /\ IsFiniteSet(Active \cup Entering')
         /\ Cardinality(Active \cup Entering')
              = Cardinality(Active) + Cardinality(Entering')
                - Cardinality(Active \cap Entering')
         /\ Cardinality(Active \cap Entering') \in Nat
    <3>1. IsFiniteSet(Active \cap Entering')
      BY <2>9, FS_Subset
    <3> QED
      BY <2>9, <3>1, EnteringBounded, FS_Union, FS_CardinalityType
  <2>11. Cardinality(Sessions) \in Nat
    BY SessionsFinite, FS_CardinalityType
  <2>12. ClaimedBounded'
    <3>1. Claimed' = Active \cup Entering'
      BY <2>8 DEF Claimed
    <3> QED
      BY <2>9, <2>10, <2>11, <3>1, EnteringBounded, LimitPositive DEF ClaimedBounded
  <2> QED
    BY <2>4, <2>5, <2>6, <2>7, <2>8, <2>12 DEF IInv
<1> QED
  BY <1>1, <1>2, <1>3 DEF CountActive

\* The row appears; no other request is on its file.
LEMMA InsertFileKeeps == ASSUME IInv, NEW t \in Sessions, InsertFile(t) PROVE IInv'
<1>1. PICK f \in Files : f = tx[t].file
  BY DEF IInv, RequestOK, InsertFile
<1>2. /\ UNCHANGED <<object, url>> /\ End(t) /\ tx[t].step = "insert"
      /\ row[f].state = "none" /\ row[f] \in Rows /\ RowOK(f)
  BY <1>1 DEF IInv, TypeOK, RequestOK, InsertFile
<1>3. CASE UNCHANGED row
  BY <1>2, <1>3, QuietEnd
<1>4. CASE row' # row
  <2>1. /\ row' = [row EXCEPT ![f].state = "reserved"]
        /\ \A g \in Files : row[g].state # "none" => Declared[g] # Declared[f]
    BY <1>1, <1>4 DEF InsertFile
  <2> DEFINE r == [row[f] EXCEPT !.state = "reserved"]
  <2>2. r \in Rows
    BY <1>2 DEF Rows
  <2>3. row' = [row EXCEPT ![f] = r] /\ row'[f] = r /\ row' \in [Files -> Rows]
    BY <1>2, <2>1, <2>2 DEF IInv, TypeOK
  <2>4. \A g \in Files \ {f} : row'[g] = row[g]
    BY <2>3 DEF IInv, TypeOK
  <2>5. /\ r.state = "reserved" /\ r.gen = row[f].gen /\ r.policy = row[f].policy
        /\ r.replay = row[f].replay /\ r.version = row[f].version
    BY <1>2 DEF Rows
  <2>6. tx' = [tx EXCEPT ![t] = Idle] /\ tx'[t] = Idle /\ RequestOK(t)'
    BY <1>2, Ends
  <2>7. tx' \in [Sessions -> Requests] /\ \A u \in Sessions \ {t} : tx'[u] = tx[u]
    BY <2>6, IdleRequest DEF IInv, TypeOK
  <2>8. TypeOK'
    BY <1>2, <2>3, <2>7 DEF IInv, TypeOK
  <2>9. RowOK(f)'
    BY <1>2, <2>3, <2>5 DEF RowOK
  <2>10. ASSUME NEW g \in Files \ {f} PROVE Grows(g) /\ RowOK(g)'
    BY <1>2, <2>4, <2>10 DEF IInv, Grows, RowOK
  <2>11. ASSUME NEW u \in Sessions PROVE RequestOK(u)'
    <3>1. CASE u = t
      BY <2>6, <3>1
    <3>2. CASE u # t
      <4>1. tx[u].file # f
        BY <1>1, <1>2, <3>2 DEF IInv, ReservesAlone
      <4> QED
        BY <2>7, <2>10, <3>2, <4>1, RequestKept DEF IInv, RequestOK
    <3> QED
      BY <3>1, <3>2
  <2>12. ReservesAlone'
    <3>1. \A u \in Sessions : tx'[u].step \in Reserving => u # t /\ tx[u].file \in Files
      BY <2>6, <2>7, IdleRequest DEF IInv, RequestOK, Reserving
    <3> QED
      BY <2>6, <2>7, <3>1, IdleRequest DEF IInv, ReservesAlone, Reserving
  <2>13. OneRowPerChecksum'
    BY <2>1, <2>3, <2>4 DEF IInv, OneRowPerChecksum
  <2>14. Claimed' \subseteq Claimed
    <3>1. f \in Entering
      BY <1>1, <1>2 DEF Entering
    <3>2. Active' \subseteq Active \cup {f}
      BY <2>4 DEF Active
    <3>3. Entering' \subseteq Entering
      BY <2>6, <2>7, IdleRequest DEF Entering
    <3> QED
      BY <3>1, <3>2, <3>3 DEF Claimed
  <2>15. ClaimedBounded'
    BY <2>14, ClaimedShrinks DEF IInv
  <2> QED
    BY <2>8, <2>9, <2>10, <2>11, <2>12, <2>13, <2>15 DEF IInv
<1> QED
  BY <1>3, <1>4

-----------------------------------------------------------------------------
(***************************************************************************)
(* The invariant, and what it says.                                        *)
(***************************************************************************)

LEMMA InitInv == Init => IInv
<1> SUFFICES ASSUME Init PROVE IInv
  OBVIOUS
<1>1. \A f \in Files : row[f] = NoRow /\ object[f] = [gen |-> 0, content |-> None]
  BY DEF Init
<1>2. NoRow \in Rows /\ [gen |-> 0, content |-> None] \in Objects
  BY DEF NoRow, Rows, Objects
<1>3. TypeOK
  BY <1>2, IdleRequest DEF Init, TypeOK
<1>4. \A f \in Files : RowOK(f)
  BY <1>1 DEF RowOK, NoRow
<1>5. \A t \in Sessions : tx[t] = Idle
  BY DEF Init
<1>6. \A t \in Sessions : RequestOK(t)
  BY <1>5, IdleRequest DEF RequestOK, Located
<1>7. ReservesAlone
  BY <1>5, IdleRequest DEF ReservesAlone
<1>8. OneRowPerChecksum /\ Active = {}
  BY <1>1 DEF OneRowPerChecksum, Active, NoRow
<1>9. Entering = {}
  BY <1>5, IdleRequest DEF Entering
<1>10. ClaimedBounded
  <2>1. Claimed = {}
    BY <1>8, <1>9 DEF Claimed
  <2>2. IsFiniteSet(Claimed) /\ Cardinality(Claimed) = 0
    BY <2>1, FS_EmptySet
  <2>3. Cardinality(Sessions) \in Nat
    BY SessionsFinite, FS_CardinalityType
  <2> QED
    BY <2>2, <2>3, LimitPositive DEF ClaimedBounded
<1> QED
  BY <1>3, <1>4, <1>6, <1>7, <1>8, <1>10 DEF IInv

LEMMA NextInv == IInv /\ [Next]_vars => IInv'
<1> SUFFICES ASSUME IInv, [Next]_vars PROVE IInv'
  OBVIOUS
<1>1. ASSUME NEW t \in Sessions, Continue(t) PROVE IInv'
  BY <1>1, CountActiveKeeps, InsertFileKeeps, LocateKeeps, ReadTransitionKeeps,
     WriteTransitionKeeps, BindGenerationKeeps, ReadFactsKeeps, AssessKeeps,
     DecideKeeps
  DEF Continue
<1>2. ASSUME NEW t \in Sessions, NEW f \in Files, BeginReserve(t, f) PROVE IInv'
  BY <1>2, BeginReserveKeeps
<1>3. ASSUME NEW f \in Clients, Client(f) PROVE IInv'
  <2>1. f \in Files
    BY ClientsOfFiles
  <2> QED
    BY <1>3, <2>1, RequestUploadUrlKeeps, ExpireKeeps, BlockFileKeeps, PutObjectKeeps,
       BeginConfirmKeeps, BeginDecideKeeps
    DEF Client
<1>4. ASSUME NEW t \in Sessions, Rollback(t) PROVE IInv'
  BY <1>4, RollbackKeeps
<1>5. CASE UNCHANGED vars
  <2>1. Tables' /\ UNCHANGED <<row, object, tx>>
    BY <1>5 DEF IInv, TypeOK, Tables, vars
  <2> QED
    BY <2>1, SameRows, Beside
<1> QED
  BY <1>1, <1>2, <1>3, <1>4, <1>5 DEF Next, Work

\* The inductive invariant of the upload lifecycle.
THEOREM Invariance == Spec => []IInv
<1> QED
  BY InitInv, NextInv, PTL DEF Spec

\* Rows, objects and requests always have their types.
THEOREM TypeCorrect == Spec => []TypeOK
<1>1. IInv => TypeOK
  BY DEF IInv
<1> QED
  BY <1>1, Invariance, PTL

\* However many reservations find no row, one checksum has one row.
THEOREM ChecksumOnce == Spec => []OneRowPerChecksum
<1>1. IInv => OneRowPerChecksum
  BY DEF IInv
<1> QED
  BY <1>1, Invariance, PTL

\* Active uploads exceed the limit by fewer than there are sessions: a
\* reservation the trigger let in found the active ones below the limit.
THEOREM LimitKept == Spec => []OverfullNeedsOverlap
<1>1. IInv => OverfullNeedsOverlap
  <2> SUFFICES ASSUME IInv PROVE OverfullNeedsOverlap
    OBVIOUS
  <2>1. /\ IsFiniteSet(Active) /\ IsFiniteSet(Claimed)
        /\ Cardinality(Active) <= Cardinality(Claimed)
    BY FS_Subset DEF IInv, ClaimedBounded, Claimed
  <2>2. /\ Cardinality(Active) \in Nat /\ Cardinality(Claimed) \in Nat
        /\ Cardinality(Sessions) \in Nat
    BY <2>1, SessionsFinite, FS_CardinalityType
  <2>3. Cardinality(Claimed) < Limit + Cardinality(Sessions)
    BY DEF IInv, ClaimedBounded
  <2> QED
    BY <2>1, <2>2, <2>3, LimitPositive DEF OverfullNeedsOverlap
<1> QED
  BY <1>1, Invariance, PTL

\* A confirmed file is bound to an object with its declared content.
THEOREM DeclaredBytes == Spec => []ConfirmedIsDeclared
<1>1. IInv => ConfirmedIsDeclared
  BY DEF IInv, RowOK, ConfirmedIsDeclared
<1> QED
  BY <1>1, Invariance, PTL

\* A file passes only when confirmed, and only if its content may.
THEOREM CleanPasses == Spec => []PassedOnlyIfClean
<1>1. IInv => PassedOnlyIfClean
  BY DEF IInv, RowOK, PassedOnlyIfClean
<1> QED
  BY <1>1, Invariance, PTL

\* The decision kept for replay is the verdict of the file.
THEOREM ReplayIsVerdict == Spec => []ReplayMatchesVerdict
<1>1. IInv => ReplayMatchesVerdict
  BY DEF IInv, RowOK, ReplayMatchesVerdict
<1> QED
  BY <1>1, Invariance, PTL

-----------------------------------------------------------------------------
(***************************************************************************)
(* The refinement.                                                         *)
(***************************************************************************)

stageOf == [f \in Files |-> row[f].state]
versionOf == [f \in Files |-> row[f].version]
verdictOf == [f \in Files |-> row[f].policy]

LEMMA SameMaps ==
    ASSUME UNCHANGED row
    PROVE  UNCHANGED <<stageOf, versionOf, verdictOf>>
BY DEF stageOf, versionOf, verdictOf

\* The columns that the contract sees, when the row of f becomes r.
EditsTo(f, r) ==
    /\ stageOf[f] = row[f].state
    /\ verdictOf[f] = row[f].policy
    /\ stageOf' = [stageOf EXCEPT ![f] = r.state]
    /\ versionOf' = [versionOf EXCEPT ![f] = r.version]
    /\ verdictOf' = [verdictOf EXCEPT ![f] = r.policy]
    /\ r.state = row[f].state => stageOf' = stageOf
    /\ r.version = row[f].version => versionOf' = versionOf
    /\ r.policy = row[f].policy => verdictOf' = verdictOf

LEMMA EditMaps ==
    ASSUME IInv, NEW f \in Files, NEW r, row' = [row EXCEPT ![f] = r]
    PROVE  EditsTo(f, r)
<1>1. row'[f] = r /\ \A g \in Files \ {f} : row'[g] = row[g]
  BY DEF IInv, TypeOK
<1>2. stageOf' = [stageOf EXCEPT ![f] = r.state]
  BY ONLY <1>1 DEF stageOf
<1>3. versionOf' = [versionOf EXCEPT ![f] = r.version]
  BY ONLY <1>1 DEF versionOf
<1>4. verdictOf' = [verdictOf EXCEPT ![f] = r.policy]
  BY ONLY <1>1 DEF verdictOf
<1>5. stageOf[f] = row[f].state /\ verdictOf[f] = row[f].policy
  BY DEF stageOf, verdictOf
<1>6. r.state = row[f].state => stageOf' = stageOf
  BY ONLY <1>1 DEF stageOf
<1>7. r.version = row[f].version => versionOf' = versionOf
  BY ONLY <1>1 DEF versionOf
<1>8. r.policy = row[f].policy => verdictOf' = verdictOf
  BY ONLY <1>1 DEF verdictOf
<1> QED
  BY ONLY <1>2, <1>3, <1>4, <1>5, <1>6, <1>7, <1>8 DEF EditsTo

LEMMA InitMaps == Init => Contract!Init
BY DEF Init, Contract!Init, NoRow

MapsTo == \/ Contract!Next
          \/ UNCHANGED <<stageOf, versionOf, verdictOf>>

LEMMA InsertFileMaps == ASSUME IInv, NEW t \in Sessions, InsertFile(t) PROVE MapsTo
<1>1. PICK f \in Files : f = tx[t].file
  BY DEF IInv, RequestOK, InsertFile
<1>2. CASE UNCHANGED row
  BY <1>2, SameMaps DEF MapsTo
<1>3. CASE row' # row
  <2> DEFINE r == [row[f] EXCEPT !.state = "reserved"]
  <2>1. row' = [row EXCEPT ![f] = r] /\ row[f].state = "none" /\ row[f] \in Rows
    BY <1>1, <1>3 DEF IInv, TypeOK, RequestOK, InsertFile
  <2>2. /\ r.state = "reserved" /\ r.version = row[f].version
        /\ r.policy = row[f].policy
    BY <2>1 DEF Rows
  <2> HIDE DEF r
  <2>3. /\ stageOf[f] = "none"
        /\ stageOf' = [stageOf EXCEPT ![f] = "reserved"]
        /\ versionOf' = versionOf /\ verdictOf' = verdictOf
    <3>1. EditsTo(f, r)
      BY <2>1, <2>2, EditMaps
    <3> QED
      BY <2>1, <2>2, <3>1 DEF EditsTo
  <2>4. Contract!Reserve(f)
    BY <2>3 DEF Contract!Reserve, stageOf, versionOf, verdictOf
  <2> QED
    BY <2>4 DEF MapsTo, Contract!Next
<1> QED
  BY <1>2, <1>3

LEMMA WriteTransitionMaps ==
    ASSUME IInv, NEW t \in Sessions, NEW k \in Transitions, WriteTransition(t, k)
    PROVE  MapsTo
<1>1. PICK f \in Files : f = tx[t].file
  BY DEF IInv, RequestOK, WriteTransition
<1>2. CASE UNCHANGED row
  BY <1>2, SameMaps DEF MapsTo
<1>3. CASE row' # row
  <2> DEFINE r == [row[f] EXCEPT !.state = Target[k],
                     !.version = IF k = "complete" THEN tx[t].version ELSE row[f].version]
  <2>1. /\ row[f] \in Rows /\ row[f].state = Expected[k]
        /\ row' = [row EXCEPT ![f].state = Target[k],
                     ![f].version = IF k = "complete" THEN tx[t].version ELSE row[f].version]
        /\ tx[t].step = k
    BY <1>1, <1>3 DEF IInv, TypeOK, WriteTransition
  <2>2. row' = [row EXCEPT ![f] = r]
    BY <2>1 DEF IInv, TypeOK
  <2>3. /\ r.state = Target[k] /\ r.policy = row[f].policy
        /\ r.version = IF k = "complete" THEN tx[t].version ELSE row[f].version
    BY <2>1 DEF Rows
  <2>4. tx[t].version \in Versions
    BY <2>1 DEF IInv, RequestOK, Located
  <2> HIDE DEF r
  <2>5. /\ stageOf[f] = Expected[k] /\ stageOf' = [stageOf EXCEPT ![f] = Target[k]]
        /\ verdictOf' = verdictOf
        /\ k # "complete" => versionOf' = versionOf
        /\ k = "complete" => versionOf' = [versionOf EXCEPT ![f] = tx[t].version]
    <3>1. EditsTo(f, r)
      BY <2>1, <2>2, <2>3, EditMaps
    <3> QED
      BY <2>1, <2>2, <2>3, <3>1 DEF EditsTo
  <2>6. CASE k = "start"
    <3>1. Contract!StartUpload(f)
      BY <2>5, <2>6 DEF Contract!StartUpload, stageOf, versionOf, verdictOf, Expected, Target
    <3> QED
      BY <3>1 DEF MapsTo, Contract!Next
  <2>7. CASE k = "complete"
    <3>1. PICK v \in Versions : v = tx[t].version
      BY <2>4
    <3>2. Contract!CompleteObjectVersion(f, v)
      BY <2>5, <2>7, <3>1 DEF Contract!CompleteObjectVersion, stageOf, versionOf, verdictOf,
         Expected, Target
    <3> QED
      BY <3>2 DEF MapsTo, Contract!Next
  <2>8. CASE k = "confirm"
    <3>1. Contract!Confirm(f)
      BY <2>5, <2>8 DEF Contract!Confirm, stageOf, versionOf, verdictOf, Expected, Target
    <3> QED
      BY <3>1 DEF MapsTo, Contract!Next
  <2> QED
    BY <2>6, <2>7, <2>8
<1> QED
  BY <1>2, <1>3

\* The generation is not the contract's.
LEMMA BindGenerationMaps ==
    ASSUME IInv, NEW t \in Sessions, BindGeneration(t) PROVE MapsTo
<1>1. PICK f \in Files : f = tx[t].file
  BY DEF IInv, RequestOK, BindGeneration
<1>2. CASE UNCHANGED row
  BY <1>2, SameMaps DEF MapsTo
<1>3. CASE row' = [row EXCEPT ![f].gen = tx[t].gen]
  <2> DEFINE r == [row[f] EXCEPT !.gen = tx[t].gen]
  <2>1. row[f] \in Rows /\ row' = [row EXCEPT ![f] = r]
    BY <1>3 DEF IInv, TypeOK
  <2>2. /\ r.state = row[f].state /\ r.policy = row[f].policy
        /\ r.version = row[f].version
    BY <2>1 DEF Rows
  <2> HIDE DEF r
  <2> QED
    <3>1. EditsTo(f, r)
      BY <2>1, <2>2, EditMaps
    <3> QED
      BY <2>1, <2>2, <3>1 DEF EditsTo, MapsTo
<1> QED
  BY <1>1, <1>2, <1>3 DEF BindGeneration

LEMMA AssessMaps == ASSUME IInv, NEW t \in Sessions, Assess(t) PROVE MapsTo
<1>1. PICK f \in Files : f = tx[t].file
  BY DEF IInv, RequestOK, Assess
<1>2. CASE UNCHANGED row
  BY <1>2, SameMaps DEF MapsTo
<1>3. CASE row' # row
  <2>1. PICK outcome \in Judgements[object[f].content] :
          row[f].policy = "pending" /\ row' = [row EXCEPT ![f].policy = outcome]
    BY <1>1, <1>3 DEF Assess
  <2> DEFINE r == [row[f] EXCEPT !.policy = outcome]
  <2>2. row[f].state \in Settled /\ row[f] \in Rows
    BY <1>1 DEF IInv, TypeOK, RequestOK, Assess
  <2>3. row[f].state = "confirmed"
    BY <2>1, <2>2 DEF IInv, RowOK
  <2>4. outcome \in Policies \ {"pending"}
    BY <2>2, Judged
  <2>5. row' = [row EXCEPT ![f] = r]
    BY <2>1 DEF IInv, TypeOK
  <2>6. /\ r.state = row[f].state /\ r.policy = outcome
        /\ r.version = row[f].version
    BY <2>2 DEF Rows
  <2> HIDE DEF r
  <2>7. /\ stageOf[f] = "confirmed" /\ verdictOf[f] = "pending"
        /\ verdictOf' = [verdictOf EXCEPT ![f] = outcome]
        /\ stageOf' = stageOf /\ versionOf' = versionOf
    <3>1. EditsTo(f, r)
      BY <2>1, <2>3, <2>5, <2>6, EditMaps
    <3> QED
      BY <2>1, <2>3, <2>5, <2>6, <3>1 DEF EditsTo
  <2>8. Contract!Assess(f, outcome)
    BY <2>7 DEF Contract!Assess, stageOf, versionOf, verdictOf
  <2> QED
    BY <2>4, <2>8 DEF MapsTo, Contract!Next, Contract!Verdicts
<1> QED
  BY <1>2, <1>3

LEMMA DecideMaps == ASSUME IInv, NEW t \in Sessions, Decide(t) PROVE MapsTo
<1>1. PICK f \in Files : f = tx[t].file
  BY DEF IInv, RequestOK, Decide
<1>2. CASE UNCHANGED row
  BY <1>2, SameMaps DEF MapsTo
<1>3. CASE row' # row
  <2>1. PICK outcome \in Judgements[object[f].content] :
          /\ row[f].policy = "pending" /\ row[f].state = "confirmed"
          /\ row' = [row EXCEPT
               ![f].policy = outcome,
               ![f].state = IF outcome = "blocked" THEN "policy_blocked" ELSE @,
               ![f].replay = IF @ = None THEN outcome ELSE @]
    BY <1>1, <1>3 DEF Decide
  <2> DEFINE r == [row[f] EXCEPT
               !.policy = outcome,
               !.state = IF outcome = "blocked" THEN "policy_blocked" ELSE @,
               !.replay = IF @ = None THEN outcome ELSE @]
  <2>2. outcome \in Policies \ {"pending"} /\ row[f] \in Rows
    BY <2>1, Judged DEF IInv, TypeOK
  <2>3. row' = [row EXCEPT ![f] = r]
    BY <2>1 DEF IInv, TypeOK
  <2>4. /\ r.policy = outcome /\ r.version = row[f].version
        /\ r.state = IF outcome = "blocked" THEN "policy_blocked" ELSE row[f].state
    BY <2>1, <2>2 DEF Rows
  <2> HIDE DEF r
  <2>5. /\ stageOf[f] = "confirmed" /\ verdictOf[f] = "pending"
        /\ verdictOf' = [verdictOf EXCEPT ![f] = outcome] /\ versionOf' = versionOf
        /\ outcome # "blocked" => stageOf' = stageOf
        /\ outcome = "blocked" => stageOf' = [stageOf EXCEPT ![f] = "policy_blocked"]
    <3>1. EditsTo(f, r)
      BY <2>1, <2>3, <2>4, EditMaps
    <3> QED
      BY <2>1, <2>3, <2>4, <3>1 DEF EditsTo
  <2>6. Contract!Assess(f, outcome)
    BY <2>5 DEF Contract!Assess, stageOf, versionOf, verdictOf
  <2> QED
    BY <2>2, <2>6 DEF MapsTo, Contract!Next, Contract!Verdicts
<1> QED
  BY <1>2, <1>3

LEMMA BlockFileMaps == ASSUME IInv, NEW f \in Files, BlockFile(f) PROVE MapsTo
<1> DEFINE r == [row[f] EXCEPT !.policy = "blocked"]
<1>1. /\ row[f] \in Rows /\ row[f].state # "none" /\ row[f].policy = "pending"
      /\ row' = [row EXCEPT ![f] = r]
  BY DEF IInv, TypeOK, BlockFile
<1>2. /\ r.state = row[f].state /\ r.policy = "blocked"
      /\ r.version = row[f].version
  BY <1>1 DEF Rows
<1> HIDE DEF r
<1>3. /\ stageOf[f] # "none" /\ verdictOf[f] = "pending"
      /\ verdictOf' = [verdictOf EXCEPT ![f] = "blocked"]
      /\ stageOf' = stageOf /\ versionOf' = versionOf
  <2>1. EditsTo(f, r)
    BY <1>1, <1>2, EditMaps
  <2> QED
    BY <1>1, <1>2, <2>1 DEF EditsTo
<1>4. Contract!Block(f)
  BY <1>3 DEF Contract!Block, stageOf, versionOf, verdictOf
<1> QED
  BY <1>4 DEF MapsTo, Contract!Next

LEMMA ExpireMaps == ASSUME IInv, NEW f \in Files, Expire(f) PROVE MapsTo
<1> DEFINE r == [row[f] EXCEPT !.due = TRUE]
<1>1. row[f] \in Rows /\ row' = [row EXCEPT ![f] = r]
  BY DEF IInv, TypeOK, Expire
<1>2. /\ r.state = row[f].state /\ r.policy = row[f].policy
      /\ r.version = row[f].version
  BY <1>1 DEF Rows
<1> HIDE DEF r
<1> QED
  <2>1. EditsTo(f, r)
    BY <1>1, <1>2, EditMaps
  <2> QED
    BY <1>1, <1>2, <2>1 DEF EditsTo, MapsTo

LEMMA NextMaps == IInv /\ [Next]_vars => MapsTo
<1> SUFFICES ASSUME IInv, [Next]_vars PROVE MapsTo
  OBVIOUS
<1>1. CASE UNCHANGED row
  BY <1>1, SameMaps DEF MapsTo
<1>2. ASSUME NEW t \in Sessions, Continue(t) PROVE MapsTo
  <2>1. CASE InsertFile(t)
    BY <2>1, InsertFileMaps
  <2>2. ASSUME NEW k \in Transitions, WriteTransition(t, k) PROVE MapsTo
    BY <2>2, WriteTransitionMaps
  <2>3. CASE BindGeneration(t)
    BY <2>3, BindGenerationMaps
  <2>4. CASE Assess(t)
    BY <2>4, AssessMaps
  <2>5. CASE Decide(t)
    BY <2>5, DecideMaps
  <2> QED
    BY <1>1, <1>2, <2>1, <2>2, <2>3, <2>4, <2>5
    DEF Continue, CountActive, Locate, ReadTransition, ReadFacts
<1>3. ASSUME NEW f \in Clients, Client(f) PROVE MapsTo
  <2>1. f \in Files
    BY ClientsOfFiles
  <2>2. CASE BlockFile(f)
    BY <2>1, <2>2, BlockFileMaps
  <2>3. CASE Expire(f)
    BY <2>1, <2>3, ExpireMaps
  <2> QED
    BY <1>1, <1>3, <2>2, <2>3
    DEF Client, RequestUploadUrl, PutObject, BeginConfirm, BeginDecide
<1>4. ASSUME NEW t \in Sessions, Rollback(t) PROVE MapsTo
  BY <1>1, <1>4 DEF Rollback
<1>5. ASSUME NEW t \in Sessions, NEW f \in Files, BeginReserve(t, f) PROVE MapsTo
  BY <1>1, <1>5 DEF BeginReserve
<1>6. CASE UNCHANGED vars
  BY <1>1, <1>6 DEF vars
<1> QED
  BY <1>2, <1>3, <1>4, <1>5, <1>6 DEF Next, Work

\* Every behaviour of the confirmation pipeline is, in the columns the rest of
\* KAI reads, one of UploadContract.
THEOREM Refinement == Spec => ImplementsUploadContract
<1>1. UNCHANGED <<stageOf, versionOf, verdictOf>> <=> UNCHANGED Contract!vars
  BY DEF Contract!vars, stageOf, versionOf, verdictOf
<1>2. IInv /\ [Next]_vars => [Contract!Next]_(Contract!vars)
  BY <1>1, NextMaps DEF MapsTo
<1> QED
  BY <1>2, InitMaps, Invariance, PTL DEF Spec, ImplementsUploadContract, Contract!Spec

-----------------------------------------------------------------------------
(***************************************************************************)
(* The composition with the parser's workers (KaiIntake).                  *)
(***************************************************************************)

\* To the uploads, what a worker does is a stuttering step; to ParserRuns, a
\* step of the uploads is one of the contract.
LEMMA IntakeMaps ==
    ASSUME IInv, [IntakeNext]_intakeVars
    PROVE  [Next]_vars /\ [Parser!Next]_(Parser!vars)
<1>1. UNCHANGED <<stageOf, versionOf, verdictOf>> <=> UNCHANGED Parser!uploads
  BY DEF Parser!uploads, stageOf, versionOf, verdictOf
<1>2. CASE UploadPart
  <2>1. MapsTo
    BY <1>2, NextMaps DEF UploadPart
  <2>2. Contract!Next <=> Parser!Upload!Next
    BY DEF Contract!Next, Contract!Reserve, Contract!StartUpload, Contract!Confirm,
       Contract!Block, Contract!CompleteObjectVersion, Contract!Assess, Contract!Verdicts,
       Parser!Upload!Next, Parser!Upload!Reserve, Parser!Upload!StartUpload,
       Parser!Upload!Confirm, Parser!Upload!Block, Parser!Upload!CompleteObjectVersion,
       Parser!Upload!Assess, Parser!Upload!Verdicts
  <2>3. Parser!Upload!Next => Parser!Next
    BY <1>2 DEF UploadPart, Parser!Next, Parser!Work, Parser!UploadStep
  <2> QED
    BY <1>1, <1>2, <2>1, <2>2, <2>3
    DEF UploadPart, MapsTo, Parser!vars, Parser!uploads
<1>3. CASE ParserPart
  BY <1>3 DEF ParserPart, Parser!Next, Parser!Work
<1>4. CASE UNCHANGED intakeVars
  BY <1>4 DEF intakeVars, vars, Parser!vars
<1> QED
  BY <1>2, <1>3, <1>4 DEF IntakeNext

\* Uploads and workers in one system are, to the uploads, the uploads alone,
\* and, to the workers, uploads that keep their contract.  What is proved of
\* either therefore holds of the whole.
THEOREM Composition == IntakeSpec => Spec /\ Parser!Spec
<1>1. IntakeInit => Init /\ Parser!Init
  <2>1. Init => Parser!Upload!Init
    BY DEF Init, NoRow, Parser!Upload!Init
  <2> QED
    BY <2>1 DEF IntakeInit, Parser!Init
<1>2. IInv /\ [IntakeNext]_intakeVars => [Next]_vars /\ [Parser!Next]_(Parser!vars)
  BY IntakeMaps
<1> QED
  BY <1>1, <1>2, InitInv, NextInv, PTL DEF IntakeSpec, Spec, Parser!Spec

\* A verdict that is given is never taken back.
LEMMA PassedStays ==
    ASSUME IInv, [Next]_vars, NEW g \in Files, row[g].policy = "passed"
    PROVE  row'[g].policy = "passed"
<1>1. verdictOf[g] = "passed" /\ verdictOf'[g] = row'[g].policy
  BY DEF verdictOf
<1>2. MapsTo
  BY NextMaps
<1>3. CASE UNCHANGED verdictOf
  BY <1>1, <1>3
<1>4. ASSUME NEW f \in Files, NEW outcome, verdictOf[f] = "pending",
             verdictOf' = [verdictOf EXCEPT ![f] = outcome]
      PROVE  row'[g].policy = "passed"
  <2>1. f # g
    BY <1>1, <1>4
  <2>2. verdictOf'[g] = verdictOf[g]
    BY <1>4, <2>1 DEF verdictOf
  <2> QED
    BY <1>1, <2>2
<1>5. UNCHANGED verdictOf
      \/ \E f \in Files : \E outcome : /\ verdictOf[f] = "pending"
                                       /\ verdictOf' = [verdictOf EXCEPT ![f] = outcome]
  BY <1>2 DEF MapsTo, stageOf, versionOf, verdictOf, Contract!Next, Contract!Reserve,
     Contract!StartUpload, Contract!Confirm, Contract!Block,
     Contract!CompleteObjectVersion, Contract!Assess
<1> QED
  BY <1>3, <1>4, <1>5

\* The part of a run's type that its status needs.
RunRecords == [status: Parser!Statuses, retries: Nat, profiles: Nat,
               dictionary: BOOLEAN, sensitivity: BOOLEAN]
RunsTyped == run \in [Files -> RunRecords]

ParsedHasPassed == \A f \in Files : run[f].status # "none" => row[f].policy = "passed"

\* A run is new only for a file that has passed.
RunsStart ==
    /\ RunsTyped'
    /\ \A g \in Files : run'[g].status # "none" =>
                            run[g].status # "none" \/ row[g].policy = "passed"

LEMMA RunSet ==
    ASSUME RunsTyped, NEW f \in Files, NEW r \in RunRecords,
           run' = [run EXCEPT ![f] = r],
           r.status # "none" => run[f].status # "none" \/ row[f].policy = "passed"
    PROVE  RunsStart
<1>1. run'[f] = r /\ \A g \in Files \ {f} : run'[g] = run[g]
  BY DEF RunsTyped
<1>2. RunsTyped'
  BY DEF RunsTyped
<1> QED
  BY <1>1, <1>2 DEF RunsStart

LEMMA RecordEdits ==
    ASSUME NEW x \in RunRecords, NEW status \in Parser!Statuses, NEW n \in Nat
    PROVE  /\ [x EXCEPT !.status = status] \in RunRecords
           /\ [x EXCEPT !.status = status, !.profiles = n] \in RunRecords
           /\ [x EXCEPT !.status = status, !.retries = n] \in RunRecords
           /\ [x EXCEPT !.dictionary = TRUE] \in RunRecords
           /\ [x EXCEPT !.dictionary = TRUE].status = x.status
           /\ [x EXCEPT !.sensitivity = TRUE] \in RunRecords
           /\ [x EXCEPT !.sensitivity = TRUE].status = x.status
BY DEF RunRecords

LEMMA WorkersStart == ASSUME RunsTyped, ParserPart PROVE RunsStart
<1>1. CASE UNCHANGED run
  BY <1>1 DEF RunsStart, RunsTyped
<1>2. ASSUME NEW f, f \in Parser!Passed, run' = Parser!Queued(f)
      PROVE  RunsStart
  <2>1. f \in Files /\ row[f].policy = "passed"
    BY <1>2 DEF Parser!Passed
  <2> DEFINE r == [run[f] EXCEPT !.status = "queued"]
  <2>2. r \in RunRecords
    BY <2>1 DEF RunsTyped, RunRecords, Parser!Statuses
  <2>3. run' = run \/ run' = [run EXCEPT ![f] = r]
    BY <1>2, <2>1 DEF Parser!Queued, RunsTyped
  <2> HIDE DEF r
  <2> QED
    BY <1>1, <2>1, <2>2, <2>3, RunSet
<1>3. ASSUME NEW w \in Workers, Parser!Claim(w) PROVE RunsStart
  <2> DEFINE f == worker[w].file
             r == [run[f] EXCEPT !.status = "running"]
  <2>1. run' = [run EXCEPT ![f] = r] /\ run[f].status = "queued"
    BY <1>3 DEF Parser!Claim
  <2>2. f \in Files => r \in RunRecords
    BY DEF RunsTyped, RunRecords, Parser!Statuses
  <2> HIDE DEF f, r
  <2>3. f \notin Files => UNCHANGED run
    BY <2>1 DEF RunsTyped
  <2> QED
    BY <1>1, <2>1, <2>2, <2>3, RunSet
<1>4. ASSUME NEW w \in Workers, Parser!Complete(w), ~UNCHANGED run PROVE RunsStart
  <2> DEFINE f == worker[w].file
             r == [run[f] EXCEPT !.status = "completed", !.profiles = run[f].profiles + 1]
  <2>1. run' = [run EXCEPT ![f].status = "completed", ![f].profiles = @ + 1]
        /\ run[f].status = "running"
    BY <1>4 DEF Parser!Complete
  <2>2. f \notin Files => UNCHANGED run
    BY <2>1 DEF RunsTyped
  <2>3. f \in Files => run' = [run EXCEPT ![f] = r]
    BY <2>1 DEF RunsTyped
  <2>4. f \in Files => r \in RunRecords
    <3>1. f \in Files => /\ run[f] \in RunRecords
                         /\ run[f].profiles + 1 \in Nat /\ run[f].retries + 1 \in Nat
      BY DEF RunsTyped, RunRecords
    <3> QED
      BY <3>1, RecordEdits DEF Parser!Statuses
  <2> HIDE DEF f, r
  <2> QED
    BY <1>1, <2>1, <2>2, <2>3, <2>4, RunSet
<1>5. ASSUME NEW w \in Workers, Parser!FailRun(w), ~UNCHANGED run PROVE RunsStart
  <2> DEFINE f == worker[w].file
             r == [run[f] EXCEPT !.status = "failed", !.retries = run[f].retries + 1]
  <2>1. run' = [run EXCEPT ![f].status = "failed", ![f].retries = @ + 1]
        /\ run[f].status = "running"
    BY <1>5 DEF Parser!FailRun
  <2>2. f \notin Files => UNCHANGED run
    BY <2>1 DEF RunsTyped
  <2>3. f \in Files => run' = [run EXCEPT ![f] = r]
    BY <2>1 DEF RunsTyped
  <2>4. f \in Files => r \in RunRecords
    <3>1. f \in Files => /\ run[f] \in RunRecords
                         /\ run[f].profiles + 1 \in Nat /\ run[f].retries + 1 \in Nat
      BY DEF RunsTyped, RunRecords
    <3> QED
      BY <3>1, RecordEdits DEF Parser!Statuses
  <2> HIDE DEF f, r
  <2> QED
    BY <1>1, <2>1, <2>2, <2>3, <2>4, RunSet
<1>6. ASSUME NEW w \in Workers, Parser!Requeue(w), ~UNCHANGED run PROVE RunsStart
  <2> DEFINE f == worker[w].file
             r == [run[f] EXCEPT !.status = "queued"]
  <2>1. run' = [run EXCEPT ![f] = r] /\ run[f].status = "failed"
    BY <1>6 DEF Parser!Requeue
  <2>2. f \in Files => r \in RunRecords
    BY DEF RunsTyped, RunRecords, Parser!Statuses
  <2> HIDE DEF f, r
  <2>3. f \notin Files => UNCHANGED run
    BY <2>1 DEF RunsTyped
  <2> QED
    BY <1>1, <2>1, <2>2, <2>3, RunSet
<1>7. ASSUME NEW w \in Workers, Parser!DraftDictionary(w) \/ Parser!PersistSensitivity(w)
      PROVE  RunsStart
  <2> DEFINE f == worker[w].file
  <2>1. PICK r \in {[run[f] EXCEPT !.dictionary = TRUE],
                    [run[f] EXCEPT !.sensitivity = TRUE]} : run' = [run EXCEPT ![f] = r]
    BY <1>7 DEF Parser!DraftDictionary, Parser!PersistSensitivity
  <2>2. f \in Files => run[f] \in RunRecords
    BY DEF RunsTyped
  <2>3. f \in Files => r \in RunRecords /\ r.status = run[f].status
    BY <2>1, <2>2, RecordEdits DEF Parser!Statuses
  <2> HIDE DEF f
  <2>4. f \notin Files => UNCHANGED run
    BY <2>1 DEF RunsTyped
  <2> QED
    BY <1>1, <2>1, <2>3, <2>4, RunSet
<1>8. ASSUME NEW w \in Workers, Parser!Activate(w) PROVE RunsStart
  BY <1>2, <1>8 DEF Parser!Activate
<1>9. ASSUME NEW w \in Workers, NEW f \in Files, Parser!Retry(w, f) PROVE RunsStart
  BY <1>2, <1>9 DEF Parser!Retry
<1> QED
  BY <1>1, <1>3, <1>4, <1>5, <1>6, <1>7, <1>8, <1>9
  DEF ParserPart, Parser!Ticking, Parser!Failing, Parser!Continue, Parser!Sweep,
      Parser!LeaveRun, Parser!Profile, Parser!StageFails, Parser!Crash

IntakeInv == IInv /\ RunsTyped /\ ParsedHasPassed

LEMMA IntakeNextInv == IntakeInv /\ [IntakeNext]_intakeVars => IntakeInv'
<1> SUFFICES ASSUME IntakeInv, [IntakeNext]_intakeVars PROVE IntakeInv'
  OBVIOUS
<1>1. IInv /\ RunsTyped /\ ParsedHasPassed
  BY DEF IntakeInv
<1>2. [Next]_vars
  BY <1>1, IntakeMaps
<1>3. IInv'
  BY <1>1, <1>2, NextInv
<1>4. \A g \in Files : row[g].policy = "passed" => row'[g].policy = "passed"
  BY <1>1, <1>2, PassedStays
<1>5. RunsStart
  <2>1. CASE UNCHANGED run
    BY <1>1, <2>1 DEF RunsStart, RunsTyped
  <2> QED
    BY <1>1, <2>1, WorkersStart DEF IntakeNext, UploadPart, intakeVars
<1>6. ParsedHasPassed'
  BY <1>1, <1>4, <1>5 DEF ParsedHasPassed, RunsStart
<1> QED
  BY <1>3, <1>5, <1>6 DEF IntakeInv, RunsStart

\* Whatever the profiler reads are bytes the client declared and that can be
\* judged clean, and its own comparison of the checksum finds nothing: a run is
\* of a file that passed, a passed file is confirmed, and a confirmed file is
\* bound to a verified object that nothing replaces.
THEOREM DeclaredToTheProfile == IntakeSpec => []BytesAreDeclared
<1>1. IntakeInit => IntakeInv
  <2>1. IntakeInit => RunsTyped /\ ParsedHasPassed
    BY DEF IntakeInit, RunsTyped, RunRecords, ParsedHasPassed, Parser!NoRun, Parser!Statuses
  <2> QED
    BY <2>1, InitInv DEF IntakeInit, IntakeInv
<1>2. IntakeInv => BytesAreDeclared
  <2> SUFFICES ASSUME IntakeInv PROVE BytesAreDeclared
    OBVIOUS
  <2>1. \A f \in Files : RowOK(f)
    BY DEF IntakeInv, IInv
  <2>2. ConfirmedIsDeclared
    BY <2>1 DEF RowOK, ConfirmedIsDeclared
  <2>3. ASSUME NEW f \in Files, run[f].status # "none"
        PROVE  /\ row[f].version # None /\ row[f].gen # 0
               /\ object[f] = [gen |-> row[f].gen, content |-> Declared[f]]
               /\ "passed" \in Judgements[Declared[f]]
    <3>1. row[f].policy = "passed"
      BY <2>3 DEF IntakeInv, ParsedHasPassed
    <3>2. row[f].state = "confirmed" /\ "passed" \in Judgements[object[f].content]
      BY <2>1, <3>1 DEF RowOK
    <3>3. /\ row[f].version # None /\ row[f].gen # 0
          /\ object[f] = [gen |-> row[f].gen, content |-> Declared[f]]
      BY <2>1, <3>2 DEF RowOK
    <3> QED
      BY <3>2, <3>3
  <2> QED
    BY <2>2, <2>3 DEF BytesAreDeclared, ParsedIsDeclared
<1> QED
  BY <1>1, <1>2, IntakeNextInv, PTL DEF IntakeSpec

=============================================================================
