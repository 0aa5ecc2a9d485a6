-------------------------- MODULE MCBackgroundJobs --------------------------
(* TLC instances of BackgroundJobs.  Each behaviour has one scope: a job   *)
(* and two decisions that may be deleted; two jobs; a job, agents and      *)
(* backups made at any time in one place; or a job and backups made at any *)
(* time in every place.  Where no backups are made, there are those of the *)
(* first state.                                                            *)
EXTENDS BackgroundJobs

VARIABLE scope

OneJob ==
    LET First == CHOOSE j \in Jobs : TRUE
    IN  requested \subseteq {First} /\ \A j \in Jobs \ {First} : kind[j] = "export"

OneDecision == Cardinality(live \cup gone \cup {d \in Decisions : del[d] # "none"}) <= 1

Fresh(a) == backups[a].row = [j \in Jobs |-> "none"]
FirstBackup == \A a, b \in Archives : Fresh(a) /\ backups[a] = backups[b]
OneBackup ==
    LET First == CHOOSE a \in Archives : TRUE
    IN  \A a \in Archives \ {First} : Fresh(a) /\ backups[a].live = {}

Alone == busy = {} /\ ~download
Quiet == Alone /\ \A d \in Decisions : del[d] = "none"

Within ==
    /\ scope = "deletions" => OneJob /\ FirstBackup
    /\ scope = "jobs" => OneDecision /\ FirstBackup /\ Quiet
    /\ scope = "agents" => OneJob /\ OneDecision /\ OneBackup
    /\ scope = "backups" => OneJob /\ OneDecision /\ Alone

ScopedInit == scope \in {"deletions", "jobs", "agents", "backups"} /\ Init /\ Within

ScopedSpec ==
    /\ ScopedInit
    /\ [][Next /\ UNCHANGED scope /\ Within']_<<vars, scope>>
    /\ Fairness
=============================================================================
