------------------------ MODULE MCDecisionRecording -------------------------
(* DecisionRecording with requests given as functions. *)
EXTENDS DecisionRecording, TLC

CONSTANTS a1, a2, d1, d2, t1, t2

\* Two attempts of one decision, with the same content.
RetryId == a1 :> d1 @@ a2 :> d1
RetryText == a1 :> t1 @@ a2 :> t1

\* Two attempts that reuse an id with different contents.
ReuseText == a1 :> t1 @@ a2 :> t2
=============================================================================
