------------------------- MODULE MCFeedbackDelivery -------------------------
(* Events for TLC instances of FeedbackDelivery.                           *)
EXTENDS FeedbackDelivery

CONSTANTS d1, d2, i1, i2, i3, t1, r1

Score(i, phase, sequence, target) ==
    [id |-> i, decision |-> d1, attempt |-> t1, kind |-> "review",
     phase |-> phase, sequence |-> sequence, target |-> target,
     run |-> Nothing, dispatch |-> Nothing, first |-> Nothing,
     evidence |-> {}, segments |-> {}, outcomes |-> {}]

First == Score(i1, "initial", 1, Nothing)
Revision == Score(i2, "revision", 2, i1)

\* A first score, its revision, and another first score of the same attempt.
Scores == {First, Revision, Score(i3, "initial", 2, Nothing)}

\* A first score, and an event that reuses its id.
Reuse == {First, Score(i1, "initial", 3, Nothing)}

Dispatch == [Score(i1, "initial", 1, Nothing) EXCEPT !.kind = "assignment", !.run = r1]
Outcome(i) == [Score(i, "none", 1, Nothing) EXCEPT
                    !.kind = "outcome", !.run = r1, !.dispatch = i1, !.first = i1]

\* An attempt is dispatched once and its outcome reported under two ids.
Executions == {Dispatch, Outcome(i2), Outcome(i3)}

Usage(i, d) == [Score(i, "none", 1, Nothing) EXCEPT !.kind = "usage", !.decision = d]

\* A run manifest of one decision counts the usage of another one too.
Manifest == {Usage(i1, d1), Usage(i2, d2),
             [Score(i3, "none", 1, Nothing) EXCEPT
                !.kind = "run_manifest",
                !.segments = {[decision |-> d1, attempt |-> t1, usage |-> i1],
                              [decision |-> d2, attempt |-> t1, usage |-> i2]}]}

OneEvent == {First}
=============================================================================
