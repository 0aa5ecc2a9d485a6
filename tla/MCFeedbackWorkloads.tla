------------------------ MODULE MCFeedbackWorkloads -------------------------
(* FeedbackDelivery where the events of each behaviour are one workload.   *)
EXTENDS MCFeedbackDelivery

Workloads == {Scores, Reuse, Executions, Manifest}
AnyEvent == UNION Workloads

VARIABLE workload

\* Only decisions of the workload are begun.  With two events the replay task
\* may read both at once, and the decision may be queued or not recorded.
Within ==
    LET D == UNION {DecisionsOf(e) : e \in workload}
    IN  /\ stored \subseteq workload
        /\ {n.event : n \in outbox} \subseteq workload
        /\ \A d \in Decisions \ D : row[d] = "absent"
        /\ workload # Reuse => snapshots \cup unrecorded = {} /\ Cardinality(batch) <= 1

WorkloadSpec ==
    /\ Init /\ workload \in Workloads
    /\ [][Next /\ UNCHANGED workload /\ Within']_<<vars, workload>>
=============================================================================
