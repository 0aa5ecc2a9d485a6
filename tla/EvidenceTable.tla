---------------------------- MODULE EvidenceTable ----------------------------
(* What the store promises about the evidence of decisions: a table whose    *)
(* rows carry their text.  An operation changes all of its rows or none, and *)
(* a text is lost only when something outside the program harms it.          *)
CONSTANTS Decisions, Kinds, Texts, Mentions, Scrubbed, Owner, Archives, Nothing

VARIABLES table,     \* the rows, what became of each decision, and the case
          harmed,    \* rows whose text cannot be read
          archives   \* the backups, by name

Scrubbable == {"context", "output"}
Rows == [decision : Decisions, kind : Kinds, text : Texts]
Statuses == {"absent", "begun", "finished", "expired", "deleted"}
Tables == [rows : SUBSET Rows, status : [Decisions -> Statuses], withdrawn : BOOLEAN]

\* R without what mentions the withdrawn case.
Scrub(R) == {[r EXCEPT !.text = IF r.kind \in Scrubbable /\ @ \in Mentions
                                THEN Scrubbed[@] ELSE @] : r \in R}

RowsOf(R, D) == {r \in R : r.decision \in D}

Begun(t, d, x) ==
    [rows |-> t.rows \cup {[decision |-> d, kind |-> "request", text |-> x]},
     status |-> [t.status EXCEPT ![d] = "begun"], withdrawn |-> t.withdrawn]

Finished(t, d, R) ==
    [rows |-> t.rows \cup R,
     status |-> [t.status EXCEPT ![d] = "finished"], withdrawn |-> t.withdrawn]

\* The case is a row that comes with its decision's end and goes with its
\* deletion; the row carries the mark that the case was withdrawn.
CaseIn(t) == t.status[Owner] = "finished"

Withdrawn(t) == [rows |-> Scrub(t.rows), status |-> t.status, withdrawn |-> TRUE]

Deleted(t, d) ==
    LET rest == t.rows \ RowsOf(t.rows, {d})
    IN  [rows |-> IF d = Owner /\ CaseIn(t) THEN Scrub(rest) ELSE rest,
         status |-> [t.status EXCEPT ![d] = "deleted"],
         withdrawn |-> t.withdrawn /\ d # Owner]

Expired(t, D) ==
    [rows |-> t.rows \ RowsOf(t.rows, D),
     status |-> [d \in Decisions |-> IF d \in D THEN "expired" ELSE t.status[d]],
     withdrawn |-> t.withdrawn]

\* The table old, with everything taken back that was taken back in t: what t
\* deleted stays deleted, and what mentions a case that t withdrew, or that old
\* has and t deleted, is scrubbed.  Where old has no case there is no row to
\* mark, and the withdrawal is forgotten.
Reapplied(old, t) ==
    LET gone == {d \in Decisions : t.status[d] = "deleted"}
        rest == old.rows \ RowsOf(old.rows, gone)
        lost == Owner \in gone /\ CaseIn(old)
    IN  [rows |-> IF t.withdrawn \/ lost THEN Scrub(rest) ELSE rest,
         status |-> [d \in Decisions |-> IF d \in gone THEN "deleted" ELSE old.status[d]],
         withdrawn |-> /\ CaseIn(old) /\ Owner \notin gone
                       /\ old.withdrawn \/ t.withdrawn]

Changed(t, u) ==
    \/ \E d \in Decisions, x \in Texts : t.status[d] = "absent" /\ u = Begun(t, d, x)
    \/ \E d \in Decisions :
            /\ t.status[d] \in {"begun", "expired"}
            /\ u = Finished(t, d, RowsOf(u.rows, {d}))
    \/ CaseIn(t) /\ u = Withdrawn(t)
    \/ \E d \in Decisions : t.status[d] # "absent" /\ u = Deleted(t, d)
    \/ LET D == {d \in Decisions : t.status[d] = "finished" /\ u.status[d] = "expired"}
       IN  u = Expired(t, D)

-----------------------------------------------------------------------------
Init ==
    /\ table = [rows |-> {}, status |-> [d \in Decisions |-> "absent"], withdrawn |-> FALSE]
    /\ harmed = {}
    /\ archives = [b \in Archives |-> Nothing]

Change ==
    /\ Changed(table, table')
    /\ harmed' \subseteq harmed \cap table'.rows
    /\ UNCHANGED archives

Harm(r) ==
    /\ harmed' = harmed \cup {r}
    /\ UNCHANGED <<table, archives>>

Repair ==
    /\ harmed' \subseteq harmed
    /\ UNCHANGED <<table, archives>>

\* A backup that says it is complete has every text.
BackUp(b) ==
    /\ archives[b] = Nothing
    /\ archives' = [archives EXCEPT ![b] = [table |-> table, complete |-> harmed = {}]]
    /\ UNCHANGED <<table, harmed>>

DropBackup(b) ==
    /\ archives' = [archives EXCEPT ![b] = Nothing]
    /\ UNCHANGED <<table, harmed>>

\* A restored table has every text, and nothing that the present table has
\* taken back.  A withdrawal that an earlier restore forgot is no longer there
\* to be taken back again: what two restores may do is in WithdrawalHistory.
Restore(b) ==
    /\ archives[b] # Nothing /\ archives[b].complete
    /\ table' = Reapplied(archives[b].table, table)
    /\ harmed' = {}
    /\ UNCHANGED archives

Next ==
    \/ Change \/ Repair
    \/ \E r \in table.rows : Harm(r)
    \/ \E b \in Archives : BackUp(b) \/ DropBackup(b) \/ Restore(b)

Spec == Init /\ [][Next]_<<table, harmed, archives>>
=============================================================================
