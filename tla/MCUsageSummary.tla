--------------------------- MODULE MCUsageSummary ----------------------------
(* Reports and runs for TLC instances of UsageSummary.                      *)
EXTENDS UsageSummary

CONSTANTS d1, d2, t1, t2, s1, s2, r1, r2, r3, h1, h2, native, declared

Report(i, d, t, s, n, tokens) ==
    [kind |-> "usage", id |-> i, decision |-> d, attempt |-> t, stream |-> s,
     sequence |-> n, tokens |-> tokens, sound |-> TRUE, whole |-> TRUE,
     closed |-> TRUE, note |-> FALSE]

\* A stream with a repeated report, a contradicted one, one without a total,
\* and a stream that another attempt uses too.
Streamed ==
    {Report("u1", d1, t1, s1, 1, 10), Report("u2", d1, t1, s1, 2, 20),
     Report("u3", d1, t1, s1, 2, 20), Report("u4", d1, t1, s1, 1, 11),
     Report("u5", d2, t1, s2, 1, 5),
     [Report("u6", d2, t1, s2, 2, 6) EXCEPT !.closed = FALSE],
     Report("u7", d2, t1, s1, 1, 7), Report("u8", d2, t1, s2, 3, Nothing)}

\* Reports without a stream.
Plain ==
    {Report("u9", d2, t2, Nothing, 0, 7), [Report("u10", d2, t2, Nothing, 0, 7) EXCEPT !.note = TRUE],
     Report("u11", d2, t2, Nothing, 0, 110), Report("u11", d2, t2, Nothing, 0, 50),
     Report("u12", d1, t1, Nothing, 0, 20),
     Report("u14", d1, t2, Nothing, 0, 3),
     [Report("u13", d2, t2, Nothing, 0, 1) EXCEPT !.whole = FALSE]}

Segments(reports) ==
    {[decision |-> u.decision, attempt |-> u.attempt, usage |-> u.id] :
        u \in {u \in Streamed \cup Plain : u.id \in reports}}

Stages == << [growth |-> 2, output |-> 5, passes |-> 2],
             [growth |-> 3, output |-> 4, passes |-> 1],
             [growth |-> 0, output |-> 3, passes |-> 3] >>

Run(i, d, run, root, config, reports) ==
    [kind |-> "run_manifest", id |-> i, decision |-> d, run |-> run, root |-> root,
     laya |-> TRUE, metered |-> TRUE, complete |-> TRUE,
     scenario |-> [config |-> config, initial |-> 3, stages |-> Stages],
     segments |-> Segments(reports)]

\* Snapshots of one run: a later one, one with a decision more, and one of
\* another mode.
Snapshots ==
    {Run("m1", d1, r1, h1, native, {"u1"}), Run("m2", d1, r1, h1, native, {"u2"}),
     Run("m3", d1, r1, h1, native, {"u2", "u5"}),
     [Run("m10", d1, r1, h1, native, {"u2", "u5"}) EXCEPT !.laya = FALSE]}

\* Runs of other identities, with attempts in common and not; one without a
\* scenario, one of the mode baseline, and one that is short and not complete.
Others ==
    {Run("m4", d2, r2, h2, declared, {"u5"}), Run("m5", d2, r2, h1, declared, {"u9"}),
     [Run("m6", d2, r3, h2, declared, {"u9"}) EXCEPT !.laya = FALSE],
     [Run("m7", d1, r3, h2, declared, {"u1"}) EXCEPT !.scenario = Nothing],
     [Run("m8", d2, r3, h2, declared, {"u9"}) EXCEPT !.complete = FALSE,
                                                     !.scenario.stages = SubSeq(Stages, 1, 1)],
     Run("m9", d2, r2, h2, declared, {"u6"}), Run("m11", d1, r2, h1, declared, {"u14"})}

AllEvents == Streamed \cup Plain \cup Snapshots \cup Others
EventIds == {e.id : e \in AllEvents}
=============================================================================
