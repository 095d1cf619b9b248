--------------------------- MODULE UploadContract ---------------------------
(***************************************************************************)
(* What the upload lifecycle of an intake file promises to the rest of     *)
(* KAI, as its in-memory repository defines it: a file is reserved, its    *)
(* upload is started, completed with one object version and confirmed, in  *)
(* that order and each once; the object version never changes; the policy  *)
(* verdict is given once, and any verdict other than an administrator's    *)
(* block only to a confirmed file.                                         *)
(***************************************************************************)

CONSTANTS Files, Versions, None

VARIABLES
    stage,      \* upload_state, "none" while there is no row
    version,    \* object_version_id
    verdict     \* file_policy_status

vars == <<stage, version, verdict>>

Stages == {"none", "reserved", "upload_started", "uploaded_unconfirmed",
           "confirmed", "policy_blocked"}
Verdicts == {"pending", "passed", "failed", "blocked"}

Init ==
    /\ stage = [f \in Files |-> "none"]
    /\ version = [f \in Files |-> None]
    /\ verdict = [f \in Files |-> "pending"]

Reserve(f) ==
    /\ stage[f] = "none"
    /\ stage' = [stage EXCEPT ![f] = "reserved"]
    /\ UNCHANGED <<version, verdict>>

StartUpload(f) ==
    /\ stage[f] = "reserved"
    /\ stage' = [stage EXCEPT ![f] = "upload_started"]
    /\ UNCHANGED <<version, verdict>>

CompleteObjectVersion(f, v) ==
    /\ stage[f] = "upload_started"
    /\ stage' = [stage EXCEPT ![f] = "uploaded_unconfirmed"]
    /\ version' = [version EXCEPT ![f] = v]
    /\ UNCHANGED verdict

Confirm(f) ==
    /\ stage[f] = "uploaded_unconfirmed"
    /\ stage' = [stage EXCEPT ![f] = "confirmed"]
    /\ UNCHANGED <<version, verdict>>

\* An administrator blocks a file at any stage; only the verdict changes.
Block(f) ==
    /\ stage[f] # "none" /\ verdict[f] = "pending"
    /\ verdict' = [verdict EXCEPT ![f] = "blocked"]
    /\ UNCHANGED <<stage, version>>

\* The assessment of a confirmed file; a decision of the repository moves a
\* blocked file to "policy_blocked" as well.
Assess(f, outcome) ==
    /\ stage[f] = "confirmed" /\ verdict[f] = "pending"
    /\ verdict' = [verdict EXCEPT ![f] = outcome]
    /\ \/ UNCHANGED stage
       \/ outcome = "blocked" /\ stage' = [stage EXCEPT ![f] = "policy_blocked"]
    /\ UNCHANGED version

Next ==
    \E f \in Files :
        \/ Reserve(f) \/ StartUpload(f) \/ Confirm(f) \/ Block(f)
        \/ \E v \in Versions : CompleteObjectVersion(f, v)
        \/ \E outcome \in Verdicts \ {"pending"} : Assess(f, outcome)

Spec == Init /\ [][Next]_vars
=============================================================================
