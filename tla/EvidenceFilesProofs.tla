------------------------- MODULE EvidenceFilesProofs -------------------------
(***************************************************************************)
(* For every set of decisions, texts, names and backups: types, committed  *)
(* rows keep their text, nothing that was taken back stays on the disk,    *)
(* complete backups are complete, and the store implements EvidenceTable.  *)
(*                                                                         *)
(* The argument: a name is made for one row and never again (Made), so a   *)
(* file that a restore installs cannot hurt a row that has the name, and a *)
(* file that a transaction creates is nobody's.  The cleanup looks at the  *)
(* committed rows only, after the transaction (Cleaned).  What a           *)
(* transaction has written and still has to write is, at each step, one of *)
(* the changes of the table (Goal), and a stage is the table it was made   *)
(* of with everything taken back (StagedRight).                            *)
(***************************************************************************)
EXTENDS EvidenceFiles, TLAPS

\* A row's name was made for this row.
MadeFor(R) == \A r \in R : r.file # Inline => made[r.file] = Plain(r)

Made ==
    /\ MadeFor(db.rows) /\ MadeFor(draft.rows)
    /\ \A b \in Archives : archives[b] # Nothing => MadeFor(archives[b].db.rows)

\* New rows of a transaction have their text, or are about to.
DraftWritten ==
    Transaction => \A r \in draft.rows \ db.rows :
        r.file # Inline => files[r.file] \in {r.text, Partial}

\* A restore has installed what is no longer left to install.
Installed ==
    phase = "install" => \A r \in draft.rows :
        r.file = Inline \/ r.file \in left \/ files[r.file] = r.text

Catalogued ==
    /\ Referenced(db.rows) \subseteq db.catalog
    /\ Referenced(draft.rows) \subseteq draft.catalog

\* Where the names on the disk come from, in each phase.
Cleaned ==
    /\ phase = "saving" /\ ~cleanupError =>
        /\ OnDisk \subseteq Referenced(draft.rows)
        /\ temporaries = {}
        /\ draft.catalog = Referenced(draft.rows)
    /\ phase = "sweep" =>
        /\ OnDisk \subseteq Referenced(db.rows) \cup left
        /\ temporaries = {}
        /\ left \cap Referenced(db.rows) = {}

Goal == [rows |-> {Plain(r) : r \in draft.rows} \cup todo,
         status |-> draft.status, withdrawn |-> draft.withdrawn]

GoalRight == Transaction => Table!Changed(TableOf(db), Goal)

StagedRight ==
    phase = "install" => \E b \in Archives :
        /\ archives[b] # Nothing /\ archives[b].complete
        /\ TableOf(draft) = Table!Reapplied(TableOf(archives[b].db), TableOf(db))

Safe == TypeOK /\ Made /\ RowsReadable /\ DraftWritten /\ Installed
Clean == Catalogued /\ Cleaned /\ NothingLeft /\ BackupsComplete
Right == GoalRight /\ StagedRight
Inv == Safe /\ Clean /\ Right

-----------------------------------------------------------------------------
(* Rows.                                                                     *)

LEMMA PlainRow ==
    \A n \in NewRows, i \in Ids \cup {Inline} :
        /\ Row(n, i) \in Rows /\ Plain(Row(n, i)) = n
        /\ Row(n, i).file = i /\ Row(n, i).text = n.text
        /\ Row(n, i).decision = n.decision /\ Row(n, i).kind = n.kind
BY DEF Row, Rows, NewRows, Plain

LEMMA PlainType ==
    \A r \in Rows :
        /\ Plain(r) \in NewRows /\ Plain(r).text = r.text
        /\ Plain(r).decision = r.decision /\ Plain(r).kind = r.kind
BY DEF Plain, Rows, NewRows

LEMMA ScrubType ==
    \A R \in SUBSET Rows : \A r \in Touched(R) :
        r \in R /\ Scrub(r) \in NewRows /\ Scrub(r).text = Scrubbed[r.text]
        /\ Scrub(r).decision = r.decision /\ Scrub(r).kind = r.kind
BY ConstantsAssumption DEF Touched, Scrub, Plain, Rows, NewRows

LEMMA ReferencedType == \A R \in SUBSET Rows : Referenced(R) \subseteq Ids
BY DEF Referenced, Rows

\* Two rows with one name are the same row.
LEMMA OneRow ==
    ASSUME NEW R \in SUBSET Rows, NEW S \in SUBSET Rows, MadeFor(R), MadeFor(S),
           NEW r \in R, NEW s \in S, r.file # Inline, r.file = s.file
    PROVE  r = s
<1>1. Plain(r) = Plain(s)
  BY DEF MadeFor
<1>2. r.decision = s.decision /\ r.kind = s.kind /\ r.text = s.text
  BY <1>1, PlainType
<1> QED
  BY <1>2 DEF Rows

-----------------------------------------------------------------------------
(* Every operation opens a transaction of the same shape.                    *)

PlainRows(R) == {Plain(r) : r \in R}
TableWith(d, N) == [rows |-> PlainRows(d.rows) \cup N, status |-> d.status,
                    withdrawn |-> d.withdrawn]

Opens(next, N) ==
    /\ next \in Databases /\ N \in SUBSET NewRows
    /\ next.rows \subseteq db.rows /\ next.catalog = db.catalog
    /\ Open(next, N)
    /\ phase' \in {"saving", "removing"}
    /\ phase' = "saving" => next.rows = db.rows

Operation ==
    \/ \E d \in Decisions, x \in Texts : Begin(d, x)
    \/ \E d \in Decisions : \E K \in SUBSET (Kinds \ {"request"}) :
        \E text \in [K -> Texts] : Finish(d, text)
    \/ Withdraw
    \/ \E d \in Decisions : Delete(d)
    \/ \E D \in SUBSET Decisions : Retention(D)

\* Scrubbing row by row is scrubbing the table.
LEMMA ScrubRows ==
    ASSUME NEW R \in SUBSET Rows
    PROVE  PlainRows(R \ Touched(R)) \cup {Scrub(r) : r \in Touched(R)}
              = Table!Scrub(PlainRows(R))
<1> DEFINE S(n) == [n EXCEPT !.text = IF n.kind \in Table!Scrubbable /\ @ \in Mentions
                                      THEN Scrubbed[@] ELSE @]
<1>1. ASSUME NEW r \in R PROVE r \in Touched(R) => S(Plain(r)) = Scrub(r)
  BY <1>1 DEF Touched, Scrub, Plain, Scrubbable, Table!Scrubbable
<1>2. ASSUME NEW r \in R PROVE r \notin Touched(R) => S(Plain(r)) = Plain(r)
  BY <1>2 DEF Touched, Plain, Scrubbable, Table!Scrubbable
<1>3. Table!Scrub(PlainRows(R)) = {S(Plain(r)) : r \in R}
  BY DEF Table!Scrub, PlainRows
<1> HIDE DEF S
<1>4. {S(Plain(r)) : r \in R}
        = {Plain(r) : r \in R \ Touched(R)} \cup {Scrub(r) : r \in Touched(R)}
  BY <1>1, <1>2 DEF Touched
<1> QED
  BY <1>3, <1>4 DEF PlainRows

LEMMA BeginOpens ==
    ASSUME TypeOK, NEW d \in Decisions, NEW x \in Texts, Begin(d, x)
    PROVE  \E next, N : Opens(next, N) /\ Table!Changed(TableOf(db), TableWith(next, N))
<1> DEFINE next == [db EXCEPT !.status[d] = "begun"]
           N == {[decision |-> d, kind |-> "request", text |-> x]}
<1>1. db \in Databases /\ db.status[d] = "absent"
  BY DEF TypeOK, Begin
<1>2. /\ next \in Databases /\ next.rows = db.rows /\ next.catalog = db.catalog
      /\ next.withdrawn = db.withdrawn
      /\ next.status = [db.status EXCEPT ![d] = "begun"]
  BY <1>1 DEF Databases, Statuses
<1>3. N \in SUBSET NewRows
  BY ConstantsAssumption DEF NewRows
<1>4. Open(next, N) /\ phase' = "saving"
  BY DEF Begin
<1>5. Opens(next, N)
  BY <1>2, <1>3, <1>4 DEF Opens
<1> HIDE DEF next
<1>6. TableWith(next, N) = Table!Begun(TableOf(db), d, x)
  BY <1>2 DEF TableWith, PlainRows, Table!Begun, TableOf
<1>7. TableOf(db).status[d] = "absent"
  BY <1>1 DEF TableOf
<1>8. Table!Changed(TableOf(db), TableWith(next, N))
  BY <1>6, <1>7 DEF Table!Changed
<1> QED
  BY <1>5, <1>8

LEMMA FinishOpens ==
    ASSUME TypeOK, NEW d \in Decisions, NEW K \in SUBSET (Kinds \ {"request"}),
           NEW text \in [K -> Texts], Finish(d, text)
    PROVE  \E next, N : Opens(next, N) /\ Table!Changed(TableOf(db), TableWith(next, N))
<1> DEFINE next == [db EXCEPT !.status[d] = "finished"]
           N == {[decision |-> d, kind |-> k, text |-> text[k]] : k \in DOMAIN text}
           t == TableOf(db)
           u == TableWith(next, N)
<1>1. db \in Databases /\ db.status[d] \in {"begun", "expired"}
  BY DEF TypeOK, Finish
<1>2. /\ next \in Databases /\ next.rows = db.rows /\ next.catalog = db.catalog
      /\ next.withdrawn = db.withdrawn
      /\ next.status = [db.status EXCEPT ![d] = "finished"]
  BY <1>1 DEF Databases, Statuses
<1>3. N \in SUBSET NewRows /\ \A n \in N : n.decision = d
  BY DEF NewRows
<1>4. Open(next, N) /\ phase' = "saving"
  BY DEF Finish
<1> HIDE DEF next, N
<1>5. Opens(next, N)
  BY <1>2, <1>3, <1>4 DEF Opens
<1>6. /\ t.rows = PlainRows(db.rows) /\ t.status = db.status /\ t.withdrawn = db.withdrawn
      /\ u.rows = PlainRows(db.rows) \cup N
      /\ u = [rows |-> PlainRows(db.rows) \cup N,
              status |-> [db.status EXCEPT ![d] = "finished"], withdrawn |-> db.withdrawn]
  BY <1>2 DEF TableWith, PlainRows, TableOf
<1> HIDE DEF t, u
<1>7. t.rows \cup Table!RowsOf(u.rows, {d}) = u.rows
  BY <1>3, <1>6 DEF Table!RowsOf
<1>8. u = Table!Finished(t, d, Table!RowsOf(u.rows, {d}))
  BY <1>6, <1>7 DEF Table!Finished
<1>9. Table!Changed(t, u)
  BY <1>1, <1>6, <1>8 DEF Table!Changed
<1> QED
  BY <1>5, <1>9 DEF t, u

LEMMA ScrubbedType ==
    ASSUME NEW R \in SUBSET Rows
    PROVE  {Scrub(r) : r \in Touched(R)} \in SUBSET NewRows
BY ScrubType

LEMMA WithdrawOpens ==
    ASSUME TypeOK, Withdraw
    PROVE  \E next, N : Opens(next, N) /\ Table!Changed(TableOf(db), TableWith(next, N))
<1> DEFINE next == [db EXCEPT !.rows = @ \ Touched(@), !.withdrawn = TRUE]
           N == {Scrub(r) : r \in Touched(db.rows)}
<1>1. db \in Databases /\ db.rows \in SUBSET Rows
  BY DEF TypeOK, Databases
<1>2. /\ next \in Databases /\ next.rows = db.rows \ Touched(db.rows)
      /\ next.catalog = db.catalog /\ next.withdrawn = TRUE /\ next.status = db.status
  BY <1>1 DEF Databases
<1>3. N \in SUBSET NewRows
  BY <1>1, ScrubbedType
<1>4. Open(next, N) /\ phase' = "removing"
  BY DEF Withdraw
<1> HIDE DEF next
<1>5. Opens(next, N)
  BY <1>2, <1>3, <1>4 DEF Opens
<1>6. TableWith(next, N) = Table!Withdrawn(TableOf(db))
  BY <1>1, <1>2, ScrubRows DEF TableWith, TableOf, Table!Withdrawn, PlainRows
<1>7. Table!CaseIn(TableOf(db))
  BY DEF Withdraw, CaseIn, Table!CaseIn, TableOf
<1> QED
  BY <1>5, <1>6, <1>7 DEF Table!Changed

LEMMA WithoutRows ==
    ASSUME NEW R \in SUBSET Rows, NEW D \in SUBSET Decisions
    PROVE  PlainRows({r \in R : r.decision \notin D})
              = PlainRows(R) \ Table!RowsOf(PlainRows(R), D)
<1>1. \A r \in R : Plain(r).decision = r.decision
  BY PlainType
<1> QED
  BY <1>1 DEF PlainRows, Table!RowsOf

LEMMA DeleteOpens ==
    ASSUME TypeOK, NEW d \in Decisions, Delete(d)
    PROVE  \E next, N : Opens(next, N) /\ Table!Changed(TableOf(db), TableWith(next, N))
<1> DEFINE rest == {r \in db.rows : r.decision # d}
           lost == d = Owner /\ CaseIn(db)
           scrubbed == IF lost THEN Touched(rest) ELSE {}
           next == [db EXCEPT !.rows = rest \ scrubbed, !.status[d] = "deleted",
                              !.withdrawn = @ /\ d # Owner]
           N == {Scrub(r) : r \in scrubbed}
           t == TableOf(db)
<1>1. db \in Databases /\ rest \in SUBSET Rows /\ db.status[d] # "absent"
  BY DEF TypeOK, Databases, Delete
<1>2. /\ next \in Databases /\ next.rows = rest \ scrubbed
      /\ next.catalog = db.catalog /\ next.withdrawn = (db.withdrawn /\ d # Owner)
      /\ next.status = [db.status EXCEPT ![d] = "deleted"]
  BY <1>1 DEF Databases, Statuses
<1>3. N \in SUBSET NewRows
  <2>1. CASE lost
    BY <1>1, <2>1, ScrubbedType
  <2>2. CASE ~lost
    BY <2>2
  <2> QED
    BY <2>1, <2>2
<1>4. Open(next, N) /\ phase' = "removing"
  BY DEF Delete
<1>5. next.rows \subseteq db.rows
  BY <1>2
<1>6. PlainRows(rest) = PlainRows(db.rows) \ Table!RowsOf(PlainRows(db.rows), {d})
  <2>1. rest = {r \in db.rows : r.decision \notin {d}}
    OBVIOUS
  <2> QED
    BY <2>1, WithoutRows DEF TypeOK, Databases
<1>7. PlainRows(rest \ scrubbed) \cup N
        = IF lost THEN Table!Scrub(PlainRows(rest)) ELSE PlainRows(rest)
  <2>1. CASE lost
    BY <1>1, <2>1, ScrubRows
  <2>2. CASE ~lost
    BY <2>2 DEF PlainRows
  <2> QED
    BY <2>1, <2>2
<1> HIDE DEF next, N, rest
<1>8. Opens(next, N)
  BY <1>2, <1>3, <1>4, <1>5 DEF Opens
<1>9. TableWith(next, N) = Table!Deleted(t, d)
  <2>1. lost <=> d = Owner /\ Table!CaseIn(t)
    BY DEF CaseIn, Table!CaseIn, TableOf
  <2> HIDE DEF lost
  <2> QED
    BY <1>2, <1>6, <1>7, <2>1 DEF TableWith, TableOf, Table!Deleted, PlainRows
<1>10. Table!Changed(t, TableWith(next, N))
  BY <1>1, <1>9 DEF Table!Changed, TableOf
<1> QED
  BY <1>8, <1>10

LEMMA RetentionOpens ==
    ASSUME TypeOK, NEW D \in SUBSET Decisions, Retention(D)
    PROVE  \E next, N : Opens(next, N) /\ Table!Changed(TableOf(db), TableWith(next, N))
<1> DEFINE rest == {r \in db.rows : r.decision \notin D}
           status == [d \in Decisions |-> IF d \in D THEN "expired" ELSE db.status[d]]
           next == [db EXCEPT !.rows = rest, !.status = status]
           t == TableOf(db)
           u == TableWith(next, {})
           E == {d \in Decisions : t.status[d] = "finished" /\ u.status[d] = "expired"}
<1>1. db \in Databases /\ \A d \in D : db.status[d] = "finished"
  BY DEF TypeOK, Retention
<1>2. status \in [Decisions -> Statuses] /\ rest \subseteq db.rows
  BY <1>1 DEF Databases, Statuses
<1>3. /\ next \in Databases /\ next.rows = rest /\ next.catalog = db.catalog
      /\ next.withdrawn = db.withdrawn /\ next.status = status
  BY <1>1, <1>2 DEF Databases
<1>4. Open(next, {}) /\ phase' = "removing"
  <2>1. next = [db EXCEPT !.rows = {r \in @ : r.decision \notin D},
                          !.status = [d \in Decisions |-> IF d \in D THEN "expired" ELSE @[d]]]
    OBVIOUS
  <2> QED
    BY <2>1 DEF Retention
<1>5. PlainRows(rest) = t.rows \ Table!RowsOf(t.rows, D)
  BY <1>1, WithoutRows DEF TableOf, Databases, PlainRows
<1> HIDE DEF next, rest
<1>6. Opens(next, {})
  BY <1>2, <1>3, <1>4 DEF Opens
<1>7. u = [rows |-> PlainRows(rest), status |-> status, withdrawn |-> db.withdrawn]
  BY <1>3 DEF TableWith
<1>8. E = D
  BY <1>1, <1>7 DEF TableOf
<1>9. u = Table!Expired(t, E)
  BY <1>5, <1>7, <1>8 DEF Table!Expired, TableOf
<1>10. Table!Changed(t, u)
  BY <1>9 DEF Table!Changed
<1> QED
  BY <1>6, <1>10

LEMMA OperationOpens ==
    ASSUME TypeOK, Operation
    PROVE  \E next, N : Opens(next, N) /\ Table!Changed(TableOf(db), TableWith(next, N))
BY BeginOpens, FinishOpens, WithdrawOpens, DeleteOpens, RetentionOpens DEF Operation

-----------------------------------------------------------------------------
(* Types.                                                                    *)

LEMMA ArchiveType ==
    ASSUME TypeOK
    PROVE  Archive \in Copies
<1>1. Referenced({r \in db.rows : Readable(r)}) \in SUBSET Ids
  BY DEF TypeOK, Databases, Referenced, Rows
<1>2. [db EXCEPT !.catalog = @ \cap Referenced(db.rows)] \in Databases
  BY DEF TypeOK, Databases
<1> QED
  BY <1>1, <1>2 DEF Archive, Copies

\* Whether a stage of old loses what mentions the case, and whether its case is
\* marked as withdrawn.
Scrubs(old, gone) == db.withdrawn \/ (Owner \in gone /\ CaseIn(old))
Marks(old, gone) == CaseIn(old) /\ Owner \notin gone /\ (old.withdrawn \/ db.withdrawn)

\* What a restore stages, and what it makes new names for.
Stages(b, gone, scrubbed, id) ==
    /\ gone = {d \in Decisions : db.status[d] = "deleted"}
    /\ scrubbed = IF Scrubs(archives[b].db, gone)
                  THEN Touched({r \in archives[b].db.rows : r.decision \notin gone}) ELSE {}
    /\ id \in [scrubbed -> Ids \cup {Inline}]
    /\ \A r \in scrubbed : id[r] = Inline \/ (id[r] \in Ids /\ made[id[r]] = Nothing)
    /\ \A r, s \in scrubbed : id[r] = id[s] /\ id[r] # Inline => r = s
    /\ draft' = Staged(archives[b].db, gone, scrubbed, id)
    /\ made' = [i \in Ids |-> IF \E r \in scrubbed : id[r] = i
                              THEN Scrub(CHOOSE r \in scrubbed : id[r] = i)
                              ELSE made[i]]

LEMMA RestoreStages ==
    ASSUME NEW b, NEW s, RestoreStart(b, s)
    PROVE  \E gone, scrubbed, id : Stages(b, gone, scrubbed, id)
<1> DEFINE gone == {d \in Decisions : db.status[d] = "deleted"}
           scrubbed == IF Scrubs(archives[b].db, gone)
                       THEN Touched({r \in archives[b].db.rows : r.decision \notin gone})
                       ELSE {}
<1> HIDE DEF gone, scrubbed
<1>1. PICK id \in [scrubbed -> Ids \cup {Inline}] :
            /\ \A r \in scrubbed : IF Scrubbed[r.text] \in Large
                                   THEN id[r] \in Ids /\ made[id[r]] = Nothing
                                   ELSE id[r] = Inline
            /\ \A r, t \in scrubbed : id[r] = id[t] /\ id[r] # Inline => r = t
            /\ draft' = Staged(archives[b].db, gone, scrubbed, id)
            /\ made' = [i \in Ids |-> IF \E r \in scrubbed : id[r] = i
                                      THEN Scrub(CHOOSE r \in scrubbed : id[r] = i)
                                      ELSE made[i]]
  BY DEF RestoreStart, Scrubs, gone, scrubbed
<1>2. \A r \in scrubbed : id[r] = Inline \/ (id[r] \in Ids /\ made[id[r]] = Nothing)
  BY <1>1
<1>3. Stages(b, gone, scrubbed, id)
  BY <1>1, <1>2 DEF Stages, gone, scrubbed
<1> QED
  BY <1>3

\* The rows of a stage are rows of the backup and rows with new names.
LEMMA StageRows ==
    ASSUME TypeOK, NEW b \in Archives, archives[b] # Nothing,
           NEW gone, NEW scrubbed, NEW id, Stages(b, gone, scrubbed, id)
    PROVE  LET rest == {r \in archives[b].db.rows : r.decision \notin gone} \ scrubbed
           IN  /\ archives[b].db \in Databases
               /\ scrubbed \in SUBSET archives[b].db.rows /\ scrubbed \in SUBSET Rows
               /\ \A r \in scrubbed : Scrub(r) \in NewRows
               /\ draft'.rows = rest \cup {Row(Scrub(r), id[r]) : r \in scrubbed}
               /\ draft'.catalog = Referenced(draft'.rows)
               /\ draft' \in Databases
<1>1. archives[b].db \in Databases
  BY DEF TypeOK, Copies
<1>2. scrubbed \in SUBSET archives[b].db.rows /\ scrubbed \in SUBSET Rows
  BY <1>1 DEF Stages, Touched, Databases
<1>3. \A r \in scrubbed : Scrub(r) \in NewRows
  <2>1. CASE Scrubs(archives[b].db, gone)
    <3>1. {r \in archives[b].db.rows : r.decision \notin gone} \in SUBSET Rows
      BY <1>1 DEF Databases
    <3> QED
      BY <2>1, <3>1, ScrubType DEF Stages
  <2>2. CASE ~Scrubs(archives[b].db, gone)
    BY <2>2 DEF Stages
  <2> QED
    BY <2>1, <2>2
<1> DEFINE rest == {r \in archives[b].db.rows : r.decision \notin gone} \ scrubbed
           rows == rest \cup {Row(Scrub(r), id[r]) : r \in scrubbed}
           status == [d \in Decisions |-> IF d \in gone THEN "deleted"
                                          ELSE archives[b].db.status[d]]
<1>4. rows \in SUBSET Rows
  <2>1. \A r \in scrubbed : id[r] \in Ids \cup {Inline}
    BY DEF Stages
  <2>2. \A r \in scrubbed : Row(Scrub(r), id[r]) \in Rows
    BY <1>3, <2>1, PlainRow
  <2>3. rest \in SUBSET Rows
    BY <1>1 DEF Databases
  <2> QED
    BY <2>2, <2>3
<1>5. status \in [Decisions -> Statuses]
  BY <1>1 DEF Databases, Statuses
<1>6. Marks(archives[b].db, gone) \in BOOLEAN
  BY DEF Marks
<1>7. draft' = [rows |-> rows, catalog |-> Referenced(rows), status |-> status,
                withdrawn |-> Marks(archives[b].db, gone)]
  BY DEF Stages, Staged, Marks
<1> HIDE DEF rows, status
<1>8. draft' \in Databases
  BY <1>4, <1>5, <1>6, <1>7, ReferencedType DEF Databases
<1> QED
  BY <1>1, <1>2, <1>3, <1>7, <1>8 DEF rows

LEMMA StageMade ==
    ASSUME TypeOK, NEW b \in Archives, archives[b] # Nothing,
           NEW gone, NEW scrubbed, NEW id, Stages(b, gone, scrubbed, id)
    PROVE  /\ made' \in [Ids -> NewRows \cup {Nothing}]
           /\ \A r \in scrubbed : id[r] # Inline => made'[id[r]] = Scrub(r)
           /\ \A i \in Ids : made[i] # Nothing => made'[i] = made[i]
<1>1. \A r \in scrubbed : Scrub(r) \in NewRows
  BY StageRows
<1>2. ASSUME NEW r \in scrubbed, id[r] # Inline PROVE made'[id[r]] = Scrub(r)
  <2>1. id[r] \in Ids
    BY <1>2 DEF Stages
  <2>2. (CHOOSE s \in scrubbed : id[s] = id[r]) = r
    BY <1>2 DEF Stages
  <2> QED
    BY <2>1, <2>2 DEF Stages
<1>3. ASSUME NEW i \in Ids, made[i] # Nothing PROVE made'[i] = made[i]
  <2>1. \A r \in scrubbed : id[r] # i
    BY <1>3, ConstantsAssumption DEF Stages
  <2> QED
    BY <2>1 DEF Stages
<1>4. made' \in [Ids -> NewRows \cup {Nothing}]
  <2>1. ASSUME NEW i \in Ids, \E r \in scrubbed : id[r] = i
        PROVE  Scrub(CHOOSE r \in scrubbed : id[r] = i) \in NewRows
    BY <1>1, <2>1
  <2>2. ASSUME NEW i \in Ids PROVE made'[i] \in NewRows \cup {Nothing}
    BY <2>1 DEF Stages, TypeOK
  <2> QED
    BY <2>2 DEF Stages
<1> QED
  BY <1>2, <1>3, <1>4

LEMMA OpenedDraft ==
    ASSUME TypeOK, NEW next, NEW N, Opens(next, N)
    PROVE  /\ draft'.rows = next.rows
                \cup {Row(n, Inline) : n \in {n \in N : n.text \notin Large}}
           /\ draft'.catalog = db.catalog
           /\ draft'.status = next.status /\ draft'.withdrawn = next.withdrawn
           /\ draft' \in Databases
<1> DEFINE I == {Row(n, Inline) : n \in {n \in N : n.text \notin Large}}
<1>1. I \in SUBSET Rows
  BY PlainRow DEF Opens
<1>2. draft' = [next EXCEPT !.rows = next.rows \cup I]
  BY DEF Opens, Open
<1> HIDE DEF I
<1>3. draft'.rows = next.rows \cup I /\ draft' \in Databases
  BY <1>1, <1>2 DEF Opens, Databases
<1> QED
  BY <1>2, <1>3 DEF I, Opens, Databases

LEMMA TypeStep == TypeOK /\ [Next]_vars => TypeOK'
<1> SUFFICES ASSUME TypeOK, [Next]_vars PROVE TypeOK'
  OBVIOUS
<1> USE DEF TypeOK
<1>1. CASE Operation
  <2>1. PICK next, N : Opens(next, N)
    BY <1>1, OperationOpens
  <2>2. draft' \in Databases
    BY <2>1, OpenedDraft
  <2>3. todo' \subseteq NewRows /\ left' = {}
    BY <2>1 DEF Opens, Open
  <2> QED
    BY <2>1, <2>2, <2>3 DEF Opens, Open, Transaction
<1>2. CASE \E n \in todo, i \in Ids : CreateFile(n, i)
  <2>1. PICK n \in todo, i \in Ids : CreateFile(n, i)
    BY <1>2
  <2>2. Row(n, i) \in Rows
    BY PlainRow
  <2>3. draft' \in Databases
    BY <2>1, <2>2 DEF CreateFile, Databases
  <2>4. files' \in [Ids -> Texts \cup {Missing, Partial, Damaged}]
        /\ made' \in [Ids -> NewRows \cup {Nothing}]
    BY <2>1 DEF CreateFile
  <2> QED
    BY <2>1, <2>3, <2>4 DEF CreateFile, Transaction
<1>3. CASE \E r \in draft.rows : WriteFile(r)
  <2>1. PICK r \in draft.rows : WriteFile(r)
    BY <1>3
  <2>2. r.text \in Texts
    BY DEF Databases, Rows
  <2> QED
    BY <2>1, <2>2 DEF WriteFile, Transaction
<1>4. CASE \E r \in draft.rows : Install(r)
  <2>1. PICK r \in draft.rows : Install(r)
    BY <1>4
  <2>2. r.text \in Texts
    BY DEF Databases, Rows
  <2> QED
    BY <2>1, <2>2 DEF Install, Transaction
<1>5. CASE Commit
  BY <1>5 DEF Commit, Transaction, Databases
<1>6. CASE Fail
  BY <1>6 DEF Fail, Transaction
<1>7. CASE Refuse
  BY <1>7 DEF Refuse, Transaction
<1>8. CASE Scan
  BY <1>8 DEF Scan, Transaction, OnDisk
<1>9. CASE Forget
  <2>1. db' \in Databases
    BY <1>9 DEF Forget, Databases
  <2> QED
    BY <1>9, <2>1 DEF Forget, Transaction
<1>10. CASE CleanupFails
  BY <1>10 DEF CleanupFails, Transaction
<1>11. CASE \E i \in Ids : Remove(i)
  BY <1>11 DEF Remove, Transaction
<1>12. CASE \E b \in Archives : BackUp(b) \/ DeleteBackup(b)
  BY <1>12, ArchiveType DEF BackUp, DeleteBackup, Transaction
<1>13. CASE \E b, s \in Archives : RestoreStart(b, s)
  <2>1. PICK b \in Archives, s \in Archives : RestoreStart(b, s)
    BY <1>13
  <2>2. archives[b] # Nothing
    BY <2>1 DEF RestoreStart, Intact
  <2>3. PICK gone, scrubbed, id : Stages(b, gone, scrubbed, id)
    BY <2>1, RestoreStages
  <2>4. draft' \in Databases
    BY <2>2, <2>3, StageRows
  <2>5. left' \subseteq Ids
    BY <2>1, <2>4, ReferencedType DEF RestoreStart, Databases
  <2>6. made' \in [Ids -> NewRows \cup {Nothing}]
    BY <2>2, <2>3, StageMade
  <2> QED
    BY <2>1, <2>4, <2>5, <2>6, ArchiveType DEF RestoreStart, Transaction
<1>14. CASE Swap
  BY <1>14 DEF Swap, Transaction
<1>15. CASE RestoreFails
  BY <1>15 DEF RestoreFails, Transaction
<1>16. CASE Crash
  BY <1>16 DEF Crash, Transaction
<1>17. CASE Start
  BY <1>17 DEF Start, Transaction
<1>18. CASE \E r \in db.rows : Damage(r)
  BY <1>18 DEF Damage, Transaction
<1>19. CASE UNCHANGED vars
  BY <1>19 DEF vars, Transaction
<1> QED
  BY <1>1, <1>2, <1>3, <1>4, <1>5, <1>6, <1>7, <1>8, <1>9, <1>10, <1>11, <1>12,
     <1>13, <1>14, <1>15, <1>16, <1>17, <1>18, <1>19 DEF Next, Operation

-----------------------------------------------------------------------------
(* Names.                                                                    *)

LEMMA ArchiveDb ==
    ASSUME TypeOK
    PROVE  Archive.db.rows = db.rows /\ Archive.db.status = db.status
           /\ Archive.db.withdrawn = db.withdrawn
BY DEF Archive, TypeOK, Databases

\* A name that is made later is not the name of a row.
LEMMA MadeKept ==
    ASSUME NEW R \in SUBSET Rows, MadeFor(R),
           \A i \in Ids : made[i] # Nothing => made'[i] = made[i]
    PROVE  \A r \in R : r.file # Inline => made'[r.file] = Plain(r)
<1> SUFFICES ASSUME NEW r \in R, r.file # Inline PROVE made'[r.file] = Plain(r)
  OBVIOUS
<1>1. made[r.file] = Plain(r) /\ r.file \in Ids
  BY DEF MadeFor, Rows
<1>2. Plain(r) # Nothing
  BY PlainType, ConstantsAssumption DEF NewRows
<1> QED
  BY <1>1, <1>2

LEMMA MadeStep == TypeOK /\ Made /\ [Next]_vars => Made'
<1> SUFFICES ASSUME TypeOK, Made, [Next]_vars PROVE Made'
  OBVIOUS
<1>0. /\ db.rows \in SUBSET Rows /\ draft.rows \in SUBSET Rows
      /\ \A b \in Archives : archives[b] # Nothing => archives[b].db.rows \in SUBSET Rows
  BY DEF TypeOK, Databases, Copies
<1>1. CASE Operation
  <2>1. PICK next, N : Opens(next, N)
    BY <1>1, OperationOpens
  <2>2. draft'.rows \subseteq db.rows \cup {Row(n, Inline) : n \in N}
    BY <2>1, OpenedDraft DEF Opens
  <2>3. \A n \in N : Row(n, Inline).file = Inline
    BY <2>1, PlainRow DEF Opens
  <2>4. UNCHANGED <<db, made, archives>>
    BY <2>1 DEF Opens, Open
  <2> QED
    BY <2>2, <2>3, <2>4 DEF Made, MadeFor
<1>2. CASE \E n \in todo, i \in Ids : CreateFile(n, i)
  <2>1. PICK n \in todo, i \in Ids : CreateFile(n, i)
    BY <1>2
  <2>2. n \in NewRows /\ Row(n, i).file = i /\ Plain(Row(n, i)) = n
    BY PlainRow DEF TypeOK
  <2>3. \A j \in Ids : made[j] # Nothing => made'[j] = made[j]
    BY <2>1 DEF CreateFile, TypeOK
  <2>4. made'[i] = n /\ draft'.rows = draft.rows \cup {Row(n, i)}
    BY <2>1 DEF CreateFile, TypeOK, Databases
  <2>5. db' = db /\ archives' = archives
    BY <2>1 DEF CreateFile
  <2>6. /\ \A r \in db.rows : r.file # Inline => made'[r.file] = Plain(r)
        /\ \A r \in draft.rows : r.file # Inline => made'[r.file] = Plain(r)
    BY <1>0, <2>3, MadeKept DEF Made
  <2>7. \A b \in Archives : archives[b] # Nothing =>
            \A r \in archives[b].db.rows : r.file # Inline => made'[r.file] = Plain(r)
    BY <1>0, <2>3, MadeKept DEF Made
  <2> QED
    BY <2>2, <2>4, <2>5, <2>6, <2>7 DEF Made, MadeFor
<1>3. CASE \E b \in Archives : BackUp(b) \/ DeleteBackup(b)
  BY <1>3, ArchiveDb DEF BackUp, DeleteBackup, Made, MadeFor, TypeOK
<1>4. CASE \E b, s \in Archives : RestoreStart(b, s)
  <2>1. PICK b \in Archives, s \in Archives : RestoreStart(b, s)
    BY <1>4
  <2>2. archives[b] # Nothing
    BY <2>1 DEF RestoreStart, Intact
  <2>3. PICK gone, scrubbed, id : Stages(b, gone, scrubbed, id)
    BY <2>1, RestoreStages
  <2>4. /\ \A r \in scrubbed : id[r] # Inline => made'[id[r]] = Scrub(r)
        /\ \A i \in Ids : made[i] # Nothing => made'[i] = made[i]
    BY <2>2, <2>3, StageMade
  <2>5. /\ \A r \in db.rows : r.file # Inline => made'[r.file] = Plain(r)
        /\ \A c \in Archives : archives[c] # Nothing =>
              \A r \in archives[c].db.rows : r.file # Inline => made'[r.file] = Plain(r)
    BY <1>0, <2>4, MadeKept DEF Made
  <2>6. archives' = [archives EXCEPT ![s] = Archive] /\ db' = db
    BY <2>1 DEF RestoreStart
  <2>7. \A r \in scrubbed : LET n == Row(Scrub(r), id[r])
                            IN  n.file = id[r] /\ Plain(n) = Scrub(r)
    <3>1. \A r \in scrubbed : id[r] \in Ids \cup {Inline}
      BY <2>3 DEF Stages
    <3>2. \A r \in scrubbed : Scrub(r) \in NewRows
      BY <2>2, <2>3, StageRows
    <3> QED
      BY <3>1, <3>2, PlainRow
  <2>8. draft'.rows \subseteq archives[b].db.rows \cup {Row(Scrub(r), id[r]) : r \in scrubbed}
    BY <2>2, <2>3, StageRows
  <2>9. \A r \in draft'.rows : r.file # Inline => made'[r.file] = Plain(r)
    BY <2>2, <2>4, <2>5, <2>7, <2>8
  <2>10. \A c \in Archives : archives'[c] # Nothing =>
            \A r \in archives'[c].db.rows : r.file # Inline => made'[r.file] = Plain(r)
    BY <2>5, <2>6, ArchiveDb DEF TypeOK
  <2> QED
    BY <2>5, <2>6, <2>9, <2>10 DEF Made, MadeFor
<1>5. CASE \/ Commit \/ Swap \/ Fail \/ RestoreFails \/ Crash
  BY <1>5 DEF Commit, Swap, Fail, RestoreFails, Crash, Made, MadeFor
<1>6. CASE Forget
  BY <1>6 DEF Forget, Made, MadeFor, TypeOK, Databases
<1>7. CASE \/ \E r \in draft.rows : WriteFile(r) \/ Install(r)
           \/ Refuse \/ Scan \/ CleanupFails \/ Start
           \/ \E i \in Ids : Remove(i)
           \/ \E r \in db.rows : Damage(r)
           \/ UNCHANGED vars
  BY <1>7 DEF WriteFile, Install, Refuse, Scan, CleanupFails, Start, Remove, Damage, vars,
              Made, MadeFor
<1> QED
  BY <1>1, <1>2, <1>3, <1>4, <1>5, <1>6, <1>7 DEF Next, Operation

-----------------------------------------------------------------------------
(* Texts.                                                                    *)

Texted == RowsReadable /\ DraftWritten /\ Installed

LEMMA TextStep == TypeOK /\ Made /\ Texted /\ Cleaned /\ [Next]_vars => Texted'
<1> SUFFICES ASSUME TypeOK, Made, Texted, Cleaned, [Next]_vars PROVE Texted'
  OBVIOUS
<1> USE DEF Texted, Transaction
<1>0. /\ db.rows \in SUBSET Rows /\ draft.rows \in SUBSET Rows
      /\ \A r \in Rows : r.text \in Texts /\ r.file \in Ids \cup {Inline}
      /\ files \in [Ids -> Texts \cup {Missing, Partial, Damaged}]
  BY DEF TypeOK, Databases, Rows
<1>00. /\ \A x \in Texts : x # Missing /\ x # Partial /\ x # Damaged
       /\ Partial # Damaged
  BY ConstantsAssumption
<1>1. CASE Operation
  <2>1. PICK next, N : Opens(next, N)
    BY <1>1, OperationOpens
  <2>2. draft'.rows \subseteq db.rows \cup {Row(n, Inline) : n \in N}
    BY <2>1, OpenedDraft DEF Opens
  <2>3. \A n \in N : Row(n, Inline).file = Inline
    BY <2>1, PlainRow DEF Opens
  <2> QED
    BY <2>1, <2>2, <2>3 DEF Opens, Open, RowsReadable, DraftWritten, Installed
<1>2. CASE \E n \in todo, i \in Ids : CreateFile(n, i)
  <2>1. PICK n \in todo, i \in Ids : CreateFile(n, i)
    BY <1>2
  <2>2. n \in NewRows /\ Row(n, i).file = i
    BY PlainRow DEF TypeOK
  <2>3. draft'.rows = draft.rows \cup {Row(n, i)}
    BY <2>1 DEF CreateFile, TypeOK, Databases
  <2>4. ASSUME NEW r \in Rows, r.file # Inline, made[r.file] = Plain(r) PROVE r.file # i
    <3>1. Plain(r) # Nothing
      BY PlainType, ConstantsAssumption DEF NewRows
    <3> QED
      BY <2>1, <2>4, <3>1 DEF CreateFile
  <2>5. \A r \in db.rows \cup draft.rows : r.file # Inline => files'[r.file] = files[r.file]
    BY <1>0, <2>1, <2>4 DEF CreateFile, Made, MadeFor
  <2>6. files'[i] = Partial
    BY <1>0, <2>1 DEF CreateFile
  <2>7. RowsReadable'
    BY <2>1, <2>5 DEF CreateFile, RowsReadable
  <2>8. DraftWritten'
    BY <2>1, <2>2, <2>3, <2>5, <2>6 DEF CreateFile, DraftWritten
  <2> QED
    BY <2>1, <2>7, <2>8 DEF CreateFile, Installed
<1>3. CASE \E r \in draft.rows : WriteFile(r)
  <2>1. PICK r \in draft.rows : WriteFile(r)
    BY <1>3
  <2>2. r.file \in Ids /\ files[r.file] = Partial /\ files' = [files EXCEPT ![r.file] = r.text]
    BY <1>0, <2>1 DEF WriteFile, Unwritten
  <2>3. \A s \in db.rows : s.file # r.file
    BY <1>0, <1>00, <2>2, ConstantsAssumption DEF RowsReadable
  <2>4. \A s \in draft.rows : s.file = r.file => s = r
    BY <1>0, <2>2, OneRow, ConstantsAssumption DEF Made
  <2>5. RowsReadable'
    BY <1>0, <2>1, <2>2, <2>3 DEF WriteFile, RowsReadable
  <2>6. DraftWritten'
    BY <1>0, <2>1, <2>2, <2>4 DEF WriteFile, DraftWritten
  <2> QED
    BY <2>1, <2>5, <2>6 DEF WriteFile, Installed
<1>4. CASE \E r \in draft.rows : Install(r)
  <2>1. PICK r \in draft.rows : Install(r)
    BY <1>4
  <2>2. r.file \in Ids /\ r.file # Inline /\ files' = [files EXCEPT ![r.file] = r.text]
    BY <2>1, ConstantsAssumption DEF Install, TypeOK
  <2>3. \A s \in db.rows \cup draft.rows : s.file = r.file => s = r
    BY <1>0, <2>2, OneRow DEF Made
  <2>4. RowsReadable'
    BY <1>0, <2>1, <2>2, <2>3 DEF Install, RowsReadable
  <2>5. Installed'
    BY <1>0, <2>1, <2>2, <2>3 DEF Install, Installed
  <2> QED
    BY <2>1, <2>4, <2>5 DEF Install, DraftWritten
<1>5. CASE Commit
  <2>1. RowsReadable'
    BY <1>5 DEF Commit, RowsReadable, DraftWritten, Unwritten
  <2> QED
    BY <1>5, <2>1 DEF Commit, DraftWritten, Installed
<1>6. CASE Fail
  <2>1. \A r \in db.rows : r.file # Inline => files[r.file] # Partial
    BY <1>0, <1>00 DEF RowsReadable
  <2>2. \A i \in Referenced(Unwritten) : files[i] = Partial
    BY DEF Referenced, Unwritten
  <2>3. \A r \in db.rows : r.file # Inline => files'[r.file] = files[r.file]
    BY <1>0, <1>6, <2>1, <2>2 DEF Fail
  <2>4. RowsReadable'
    BY <1>6, <2>3 DEF Fail, RowsReadable
  <2> QED
    BY <1>6, <2>4 DEF Fail, DraftWritten, Installed
<1>7. CASE \E i \in Ids : Remove(i)
  <2>1. PICK i \in Ids : Remove(i)
    BY <1>7
  <2>2. \A r \in db.rows : r.file # i
    BY <2>1, ConstantsAssumption DEF Remove, Cleaned, Referenced
  <2>3. RowsReadable'
    BY <1>0, <2>1, <2>2 DEF Remove, RowsReadable
  <2> QED
    BY <2>1, <2>3 DEF Remove, DraftWritten, Installed
<1>8. CASE \E b, s \in Archives : RestoreStart(b, s)
  <2>1. PICK b \in Archives, s \in Archives : RestoreStart(b, s)
    BY <1>8
  <2>2. \A r \in draft'.rows : r.file = Inline \/ r.file \in left'
    BY <2>1 DEF RestoreStart, Referenced
  <2> QED
    BY <2>1, <2>2 DEF RestoreStart, RowsReadable, DraftWritten, Installed
<1>9. CASE Swap
  <2>1. RowsReadable'
    BY <1>9 DEF Swap, RowsReadable, Installed
  <2> QED
    BY <1>9, <2>1 DEF Swap, DraftWritten, Installed
<1>10. CASE \E r \in db.rows : Damage(r)
  <2>1. PICK r \in db.rows : Damage(r)
    BY <1>10
  <2>2. \A s \in draft.rows : s.file = r.file => s = r
    BY <1>0, <2>1, OneRow DEF Made, Damage
  <2>3. r.file \in Ids
    BY <1>0, <2>1 DEF Damage
  <2>4. RowsReadable'
    BY <1>0, <2>1, <2>3 DEF Damage, RowsReadable
  <2>5. DraftWritten'
    BY <1>0, <2>1, <2>2, <2>3 DEF Damage, DraftWritten
  <2> QED
    BY <2>1, <2>4, <2>5 DEF Damage, Installed
<1>11. CASE Forget
  <2>1. db'.rows = db.rows
    BY <1>11 DEF Forget, TypeOK, Databases
  <2> QED
    BY <1>11, <2>1 DEF Forget, RowsReadable, DraftWritten, Installed
<1>12. CASE \/ Refuse \/ Scan \/ CleanupFails \/ RestoreFails \/ Crash \/ Start
            \/ \E b \in Archives : BackUp(b) \/ DeleteBackup(b)
            \/ UNCHANGED vars
  BY <1>12 DEF Refuse, Scan, CleanupFails, RestoreFails, Crash, Start, BackUp, DeleteBackup,
               vars, RowsReadable, DraftWritten, Installed
<1> QED
  BY <1>1, <1>2, <1>3, <1>4, <1>5, <1>6, <1>7, <1>8, <1>9, <1>10, <1>11, <1>12
     DEF Next, Operation

-----------------------------------------------------------------------------
(* The directory.                                                            *)

LEMMA CatalogStep == TypeOK /\ Catalogued /\ [Next]_vars => Catalogued'
<1> SUFFICES ASSUME TypeOK, Catalogued, [Next]_vars PROVE Catalogued'
  OBVIOUS
<1> USE DEF Catalogued
<1>1. CASE Operation
  <2>1. PICK next, N : Opens(next, N)
    BY <1>1, OperationOpens
  <2>2. draft'.rows \subseteq db.rows \cup {Row(n, Inline) : n \in N}
        /\ draft'.catalog = db.catalog
    BY <2>1, OpenedDraft DEF Opens
  <2>3. \A n \in N : Row(n, Inline).file = Inline
    BY <2>1, PlainRow DEF Opens
  <2>4. Referenced(draft'.rows) \subseteq Referenced(db.rows)
    BY <2>2, <2>3 DEF Referenced
  <2> QED
    BY <2>1, <2>2, <2>4 DEF Opens, Open
<1>2. CASE \E n \in todo, i \in Ids : CreateFile(n, i)
  <2>1. PICK n \in todo, i \in Ids : CreateFile(n, i)
    BY <1>2
  <2>2. Row(n, i).file = i
    BY PlainRow DEF TypeOK
  <2>3. draft'.rows = draft.rows \cup {Row(n, i)} /\ draft'.catalog = draft.catalog \cup {i}
    BY <2>1 DEF CreateFile, TypeOK, Databases
  <2> QED
    BY <2>1, <2>2, <2>3 DEF CreateFile, Referenced
<1>3. CASE \E b, s \in Archives : RestoreStart(b, s)
  <2>1. PICK b \in Archives, s \in Archives : RestoreStart(b, s)
    BY <1>3
  <2>2. PICK gone, scrubbed, id : Stages(b, gone, scrubbed, id)
    BY <2>1, RestoreStages
  <2>3. draft'.catalog = Referenced(draft'.rows)
    BY <2>1, <2>2, StageRows DEF RestoreStart, Intact
  <2> QED
    BY <2>1, <2>3 DEF RestoreStart
<1>4. CASE Forget
  <2>1. db'.rows = db.rows /\ db'.catalog = db.catalog \cap Referenced(db.rows) /\ draft' = db'
    BY <1>4 DEF Forget, TypeOK, Databases
  <2> QED
    BY <2>1
<1>5. CASE \/ Commit \/ Swap \/ Fail \/ RestoreFails \/ Crash
  BY <1>5 DEF Commit, Swap, Fail, RestoreFails, Crash
<1>6. CASE \/ \E r \in draft.rows : WriteFile(r) \/ Install(r)
           \/ Refuse \/ Scan \/ CleanupFails \/ Start
           \/ \E i \in Ids : Remove(i)
           \/ \E b \in Archives : BackUp(b) \/ DeleteBackup(b)
           \/ \E r \in db.rows : Damage(r)
           \/ UNCHANGED vars
  BY <1>6 DEF WriteFile, Install, Refuse, Scan, CleanupFails, Start, Remove, BackUp,
              DeleteBackup, Damage, vars
<1> QED
  BY <1>1, <1>2, <1>3, <1>4, <1>5, <1>6 DEF Next, Operation

LEMMA DiskStep == TypeOK /\ Catalogued /\ Cleaned /\ NothingLeft /\ [Next]_vars
                    => Cleaned' /\ NothingLeft'
<1> SUFFICES ASSUME TypeOK, Catalogued, Cleaned, NothingLeft, [Next]_vars
             PROVE  Cleaned' /\ NothingLeft'
  OBVIOUS
<1>0. /\ db.rows \in SUBSET Rows /\ draft.rows \in SUBSET Rows
      /\ files \in [Ids -> Texts \cup {Missing, Partial, Damaged}]
      /\ \A r \in Rows : r.text \in Texts /\ r.file \in Ids \cup {Inline}
  BY DEF TypeOK, Databases, Rows
<1>00. /\ \A x \in Texts : x # Missing
       /\ Partial # Missing /\ Damaged # Missing
  BY ConstantsAssumption
<1>1. CASE Operation
  <2>1. PICK next, N : Opens(next, N)
    BY <1>1, OperationOpens
  <2>2. draft'.rows = next.rows \cup {Row(n, Inline) : n \in {n \in N : n.text \notin Large}}
        /\ draft'.catalog = db.catalog
    BY <2>1, OpenedDraft
  <2>3. \A n \in N : Row(n, Inline).file = Inline
    BY <2>1, PlainRow DEF Opens
  <2>4. phase' = "saving" => Referenced(draft'.rows) = Referenced(db.rows)
    <3>1. ASSUME phase' = "saving" PROVE Referenced(draft'.rows) = Referenced(db.rows)
      <4>1. next.rows = db.rows
        BY <2>1, <3>1 DEF Opens
      <4> QED
        BY <2>2, <2>3, <4>1 DEF Referenced
    <3> QED
      BY <3>1
  <2>5. OnDisk' = OnDisk
    BY <2>1 DEF Opens, Open, OnDisk
  <2>6. phase = "idle" /\ phase' \in {"saving", "removing"}
        /\ UNCHANGED <<db, temporaries, cleanupError, left>>
    BY <2>1 DEF Opens, Open
  <2> QED
    BY <2>2, <2>4, <2>5, <2>6 DEF Cleaned, NothingLeft
<1>2. CASE \E n \in todo, i \in Ids : CreateFile(n, i)
  <2>1. PICK n \in todo, i \in Ids : CreateFile(n, i)
    BY <1>2
  <2>2. Row(n, i).file = i /\ i # Inline
    BY PlainRow, ConstantsAssumption DEF TypeOK
  <2>3. draft'.rows = draft.rows \cup {Row(n, i)} /\ draft'.catalog = draft.catalog \cup {i}
    BY <2>1 DEF CreateFile, TypeOK, Databases
  <2>4. Referenced(draft'.rows) = Referenced(draft.rows) \cup {i}
    BY <2>2, <2>3 DEF Referenced
  <2>5. OnDisk' \subseteq OnDisk \cup {i}
    BY <1>0, <2>1 DEF CreateFile, OnDisk
  <2>6. Transaction /\ UNCHANGED <<phase, temporaries, cleanupError>>
    BY <2>1 DEF CreateFile
  <2> QED
    BY <2>3, <2>4, <2>5, <2>6 DEF Transaction, Cleaned, NothingLeft
<1>3. CASE \E r \in draft.rows : WriteFile(r)
  <2>1. PICK r \in draft.rows : WriteFile(r)
    BY <1>3
  <2>2. OnDisk' = OnDisk
    BY <1>0, <1>00, <2>1 DEF WriteFile, Unwritten, OnDisk
  <2> QED
    BY <2>1, <2>2 DEF WriteFile, Transaction, Cleaned, NothingLeft
<1>4. CASE \E r \in draft.rows : Install(r)
  BY <1>4 DEF Install, Cleaned, NothingLeft
<1>5. CASE Commit
  <2>1. OnDisk' = OnDisk
    BY <1>5 DEF Commit, OnDisk
  <2>2. phase' = "sweep" =>
          /\ phase = "saving" /\ ~cleanupError
          /\ db' = draft /\ left' = draft.catalog \ Referenced(draft.rows)
          /\ temporaries' = temporaries
    BY <1>5 DEF Commit, Transaction
  <2>3. phase' \in {"scan", "sweep"}
    BY <1>5 DEF Commit
  <2> QED
    BY <2>1, <2>2, <2>3 DEF Cleaned, NothingLeft
<1>6. CASE Scan
  <2>1. OnDisk' = OnDisk
    BY <1>6 DEF Scan, OnDisk
  <2> QED
    BY <1>6, <2>1 DEF Scan, Cleaned, NothingLeft
<1>7. CASE \E i \in Ids : Remove(i)
  <2>1. PICK i \in Ids : Remove(i)
    BY <1>7
  <2>2. OnDisk' \subseteq OnDisk \ {i}
    BY <1>0, <2>1 DEF Remove, OnDisk
  <2> QED
    BY <2>1, <2>2 DEF Remove, Cleaned, NothingLeft
<1>8. CASE Forget
  <2>1. OnDisk' = OnDisk
    BY <1>8 DEF Forget, OnDisk
  <2>2. db'.rows = db.rows /\ db'.catalog = db.catalog \cap Referenced(db.rows)
    BY <1>8 DEF Forget, TypeOK, Databases
  <2> QED
    BY <1>8, <2>1, <2>2 DEF Forget, Cleaned, NothingLeft, Catalogued
<1>9. CASE \E r \in db.rows : Damage(r)
  <2>1. PICK r \in db.rows : Damage(r)
    BY <1>9
  <2>2. OnDisk' = OnDisk
    BY <1>0, <1>00, <2>1 DEF Damage, OnDisk
  <2> QED
    BY <2>1, <2>2 DEF Damage, Cleaned, NothingLeft
<1>10. CASE \E b \in Archives : BackUp(b) \/ DeleteBackup(b)
  <2>1. OnDisk' = OnDisk
    BY <1>10 DEF BackUp, DeleteBackup, OnDisk
  <2> QED
    BY <1>10, <2>1 DEF BackUp, DeleteBackup, Cleaned, NothingLeft
<1>11. CASE UNCHANGED vars
  <2>1. OnDisk' = OnDisk
    BY <1>11 DEF vars, OnDisk
  <2> QED
    BY <1>11, <2>1 DEF vars, Cleaned, NothingLeft
<1>12. CASE \E b, s \in Archives : RestoreStart(b, s)
  BY <1>12 DEF RestoreStart, Cleaned, NothingLeft
<1>13. CASE Fail \/ Refuse \/ CleanupFails \/ Swap \/ RestoreFails \/ Crash \/ Start
  BY <1>13 DEF Fail, Refuse, CleanupFails, Swap, RestoreFails, Crash, Start, Cleaned, NothingLeft
<1> QED
  BY <1>1, <1>2, <1>3, <1>4, <1>5, <1>6, <1>7, <1>8, <1>9, <1>10, <1>11, <1>12, <1>13
     DEF Next, Operation

LEMMA BackupStep == TypeOK /\ BackupsComplete /\ [Next]_vars => BackupsComplete'
<1> SUFFICES ASSUME TypeOK, BackupsComplete, [Next]_vars PROVE BackupsComplete'
  OBVIOUS
<1>1. Archive.complete => Archive.kept = Referenced(Archive.db.rows)
  <2>1. Archive.complete => {r \in db.rows : Readable(r)} = db.rows
    BY DEF Archive
  <2> QED
    BY <2>1, ArchiveDb DEF Archive
<1>2. CASE \E b \in Archives : BackUp(b) \/ DeleteBackup(b)
  BY <1>1, <1>2 DEF BackUp, DeleteBackup, BackupsComplete, TypeOK
<1>3. CASE \E b, s \in Archives : RestoreStart(b, s)
  BY <1>1, <1>3 DEF RestoreStart, BackupsComplete, TypeOK
<1>4. CASE Operation
  <2>1. PICK next, N : Opens(next, N)
    BY <1>4, OperationOpens
  <2> QED
    BY <2>1 DEF Opens, Open, BackupsComplete
<1>5. CASE \/ \E n \in todo, i \in Ids : CreateFile(n, i)
           \/ \E r \in draft.rows : WriteFile(r) \/ Install(r)
           \/ Commit \/ Fail \/ Refuse \/ Scan \/ Forget \/ CleanupFails
           \/ \E i \in Ids : Remove(i)
           \/ Swap \/ RestoreFails \/ Crash \/ Start
           \/ \E r \in db.rows : Damage(r)
           \/ UNCHANGED vars
  BY <1>5 DEF CreateFile, WriteFile, Install, Commit, Fail, Refuse, Scan, Forget, CleanupFails,
              Remove, Swap, RestoreFails, Crash, Start, Damage, vars, BackupsComplete
<1> QED
  BY <1>2, <1>3, <1>4, <1>5 DEF Next, Operation

-----------------------------------------------------------------------------
(* What a transaction and a stage amount to.                                 *)

\* An operation's goal is set when its transaction opens.
LEMMA OpenedGoal ==
    ASSUME TypeOK, NEW next, NEW N, Opens(next, N)
    PROVE  Goal' = TableWith(next, N)
<1> DEFINE short == {n \in N : n.text \notin Large}
           long == {n \in N : n.text \in Large}
<1>1. /\ draft'.rows = next.rows \cup {Row(n, Inline) : n \in short}
      /\ draft'.status = next.status /\ draft'.withdrawn = next.withdrawn
  BY OpenedDraft
<1>2. todo' = long
  BY DEF Opens, Open
<1>3. \A n \in N : Plain(Row(n, Inline)) = n
  BY PlainRow DEF Opens
<1>4. short \cup long = N
  OBVIOUS
<1> HIDE DEF short, long
<1>5. {Plain(r) : r \in draft'.rows} = PlainRows(next.rows) \cup short
  <2>1. short \in SUBSET N
    BY <1>4
  <2> QED
    BY <1>1, <1>3, <2>1 DEF PlainRows
<1>6. {Plain(r) : r \in draft'.rows} \cup todo' = PlainRows(next.rows) \cup N
  BY <1>2, <1>4, <1>5
<1> QED
  BY <1>1, <1>6 DEF Goal, TableWith

\* A stage is the table of the backup, with everything taken back.
LEMMA StagedTable ==
    ASSUME TypeOK, NEW b \in Archives, archives[b] # Nothing,
           NEW gone, NEW scrubbed, NEW id, Stages(b, gone, scrubbed, id)
    PROVE  TableOf(draft') = Table!Reapplied(TableOf(archives[b].db), TableOf(db))
<1> DEFINE old == archives[b].db
           kept == {r \in old.rows : r.decision \notin gone}
           new == {Row(Scrub(r), id[r]) : r \in scrubbed}
           P == PlainRows(old.rows) \ Table!RowsOf(PlainRows(old.rows), gone)
<1>1. /\ old \in Databases /\ kept \in SUBSET Rows
      /\ gone = {d \in Decisions : db.status[d] = "deleted"}
      /\ scrubbed = IF Scrubs(old, gone) THEN Touched(kept) ELSE {}
  <2>1. old \in Databases
    BY StageRows
  <2>2. kept \in SUBSET Rows
    BY <2>1 DEF Databases
  <2> QED
    BY <2>1, <2>2 DEF Stages
<1>2. draft'.rows = (kept \ scrubbed) \cup new
  BY StageRows
<1>3. PlainRows(kept) = P
  BY <1>1, WithoutRows DEF Databases
<1>4. \A r \in scrubbed : Plain(Row(Scrub(r), id[r])) = Scrub(r)
  <2>1. \A r \in scrubbed : id[r] \in Ids \cup {Inline}
    BY DEF Stages
  <2>2. \A r \in scrubbed : Scrub(r) \in NewRows
    BY StageRows
  <2> QED
    BY <2>1, <2>2, PlainRow
<1>5. PlainRows(new) = {Scrub(r) : r \in scrubbed}
  BY <1>4 DEF PlainRows
<1>6. PlainRows(draft'.rows) = PlainRows(kept \ scrubbed) \cup {Scrub(r) : r \in scrubbed}
  <2>1. PlainRows(draft'.rows) = PlainRows(kept \ scrubbed) \cup PlainRows(new)
    BY <1>2 DEF PlainRows
  <2> QED
    BY <1>5, <2>1
<1>7. PlainRows(draft'.rows) = IF Scrubs(old, gone) THEN Table!Scrub(P) ELSE P
  <2>1. CASE Scrubs(old, gone)
    BY <1>1, <1>3, <1>6, <2>1, ScrubRows
  <2>2. CASE ~Scrubs(old, gone)
    BY <1>1, <1>3, <1>6, <2>2
  <2> QED
    BY <2>1, <2>2
<1>8. /\ draft'.status = [d \in Decisions |-> IF d \in gone THEN "deleted" ELSE old.status[d]]
      /\ draft'.withdrawn = Marks(old, gone)
  BY DEF Stages, Staged, Marks
<1> HIDE DEF kept, new
<1>9. TableOf(draft') = [rows |-> PlainRows(draft'.rows), status |-> draft'.status,
                         withdrawn |-> draft'.withdrawn]
  BY DEF TableOf, PlainRows
<1>10. /\ TableOf(old).rows = PlainRows(old.rows) /\ TableOf(old).status = old.status
       /\ TableOf(old).withdrawn = old.withdrawn
       /\ TableOf(db).status = db.status /\ TableOf(db).withdrawn = db.withdrawn
  BY DEF TableOf, PlainRows
<1> HIDE DEF old
<1>11. Table!Reapplied(TableOf(old), TableOf(db)) =
          [rows |-> IF Scrubs(old, gone) THEN Table!Scrub(P) ELSE P,
           status |-> [d \in Decisions |-> IF d \in gone THEN "deleted" ELSE old.status[d]],
           withdrawn |-> Marks(old, gone)]
  BY <1>1, <1>10 DEF Table!Reapplied, Table!CaseIn, CaseIn, Scrubs, Marks
<1> QED
  BY <1>7, <1>8, <1>9, <1>11 DEF old

LEMMA RightStep == TypeOK /\ Right /\ [Next]_vars => Right'
<1> SUFFICES ASSUME TypeOK, Right, [Next]_vars PROVE GoalRight' /\ StagedRight'
  BY DEF Right
<1> USE DEF Right
<1>1. CASE Operation
  <2>1. PICK next, N : Opens(next, N) /\ Table!Changed(TableOf(db), TableWith(next, N))
    BY <1>1, OperationOpens
  <2>2. Goal' = TableWith(next, N) /\ db' = db
    BY <2>1, OpenedGoal DEF Opens, Open
  <2>3. TableOf(db') = TableOf(db)
    BY <2>2
  <2>4. Table!Changed(TableOf(db'), Goal')
    BY <2>1, <2>2, <2>3
  <2> QED
    BY <2>1, <2>4 DEF Opens, GoalRight, StagedRight
<1>2. CASE \E n \in todo, i \in Ids : CreateFile(n, i)
  <2>1. PICK n \in todo, i \in Ids : CreateFile(n, i)
    BY <1>2
  <2>2. Plain(Row(n, i)) = n
    BY PlainRow DEF TypeOK
  <2>3. /\ draft'.rows = draft.rows \cup {Row(n, i)}
        /\ draft'.status = draft.status /\ draft'.withdrawn = draft.withdrawn
    BY <2>1 DEF CreateFile, TypeOK, Databases
  <2>4. {Plain(r) : r \in draft'.rows} \cup todo' = {Plain(r) : r \in draft.rows} \cup todo
    BY <2>1, <2>2, <2>3 DEF CreateFile
  <2>5. Goal' = Goal /\ db' = db
    BY <2>1, <2>3, <2>4 DEF Goal, CreateFile
  <2>6. Table!Changed(TableOf(db'), Goal')
    BY <2>1, <2>5 DEF CreateFile, GoalRight
  <2>7. phase' # "install"
    BY <2>1 DEF CreateFile, Transaction
  <2> QED
    BY <2>6, <2>7 DEF GoalRight, StagedRight
<1>3. CASE \E b, s \in Archives : RestoreStart(b, s)
  <2>1. PICK b \in Archives, s \in Archives : RestoreStart(b, s)
    BY <1>3
  <2>2. archives[b] # Nothing /\ archives[b].complete /\ archives[s] = Nothing
    BY <2>1 DEF RestoreStart, Intact
  <2>3. archives'[b] = archives[b] /\ db' = db /\ phase' = "install"
    BY <2>1, <2>2 DEF RestoreStart
  <2>4. PICK gone, scrubbed, id : Stages(b, gone, scrubbed, id)
    BY <2>1, RestoreStages
  <2>5. TableOf(draft') = Table!Reapplied(TableOf(archives[b].db), TableOf(db))
    BY <2>2, <2>4, StagedTable
  <2>6. TableOf(draft') = Table!Reapplied(TableOf(archives'[b].db), TableOf(db'))
    BY <2>3, <2>5
  <2>7. StagedRight'
    BY <2>2, <2>3, <2>6 DEF StagedRight
  <2> QED
    BY <2>3, <2>7 DEF GoalRight, Transaction
<1>4. CASE \/ \E r \in draft.rows : WriteFile(r) \/ Install(r)
           \/ \E r \in db.rows : Damage(r)
           \/ UNCHANGED vars
  <2>1. UNCHANGED <<db, draft, archives, phase, todo>>
    BY <1>4 DEF WriteFile, Install, Damage, vars
  <2>2. Goal' = Goal /\ TableOf(db') = TableOf(db) /\ TableOf(draft') = TableOf(draft)
    BY <2>1 DEF Goal
  <2> QED
    BY <2>1, <2>2 DEF GoalRight, StagedRight, Transaction
<1>5. CASE \/ Commit \/ Fail \/ Refuse \/ Scan \/ Forget \/ CleanupFails
           \/ \E i \in Ids : Remove(i)
           \/ \E b \in Archives : BackUp(b) \/ DeleteBackup(b)
           \/ Swap \/ RestoreFails \/ Crash \/ Start
  <2>1. phase' \notin {"saving", "removing", "install"}
    BY <1>5 DEF Commit, Fail, Refuse, Scan, Forget, CleanupFails, Remove, BackUp, DeleteBackup,
                Swap, RestoreFails, Crash, Start
  <2> QED
    BY <2>1 DEF GoalRight, StagedRight, Transaction
<1> QED
  BY <1>1, <1>2, <1>3, <1>4, <1>5 DEF Next, Operation

LEMMA InitInv == Init => Inv
<1> SUFFICES ASSUME Init PROVE Inv
  OBVIOUS
<1>1. db \in Databases /\ db.rows = {} /\ db.catalog = {}
  BY DEF Init, Databases, Statuses
<1>2. TypeOK
  BY <1>1 DEF Init, TypeOK, Transaction
<1>3. Made
  BY <1>1 DEF Init, Made, MadeFor
<1>4. RowsReadable /\ DraftWritten /\ Installed
  BY <1>1 DEF Init, RowsReadable, DraftWritten, Installed, Transaction
<1>5. OnDisk = {} /\ Referenced(db.rows) = {}
  BY <1>1 DEF Init, OnDisk, Referenced
<1>6. Catalogued /\ Cleaned /\ NothingLeft /\ BackupsComplete
  BY <1>1, <1>5 DEF Init, Catalogued, Cleaned, NothingLeft, BackupsComplete
<1>7. GoalRight /\ StagedRight
  BY DEF Init, GoalRight, StagedRight, Transaction
<1> QED
  BY <1>2, <1>3, <1>4, <1>6, <1>7 DEF Inv, Safe, Clean, Right

LEMMA InvStep == Inv /\ [Next]_vars => Inv'
<1> SUFFICES ASSUME Inv, [Next]_vars PROVE Inv'
  OBVIOUS
<1>1. TypeOK'
  BY TypeStep DEF Inv, Safe
<1>2. Made'
  BY MadeStep DEF Inv, Safe
<1>3. RowsReadable' /\ DraftWritten' /\ Installed'
  BY TextStep DEF Inv, Safe, Clean, Texted
<1>4. Catalogued'
  BY CatalogStep DEF Inv, Safe, Clean
<1>5. Cleaned' /\ NothingLeft'
  BY DiskStep DEF Inv, Safe, Clean
<1>6. BackupsComplete'
  BY BackupStep DEF Inv, Safe, Clean
<1>7. Right'
  BY RightStep DEF Inv, Safe
<1> QED
  BY <1>1, <1>2, <1>3, <1>4, <1>5, <1>6, <1>7 DEF Inv, Safe, Clean

LEMMA AlwaysInv == Spec => []Inv
<1>1. Init => Inv
  BY InitInv
<1>2. Inv /\ [Next]_vars => Inv'
  BY InvStep
<1> QED
  BY <1>1, <1>2, PTL DEF Spec

\* The types hold in every state (TypeOK): whatever call of the store was
\* interrupted, no transaction is left open after it.
THEOREM TypeCorrect == Spec => []TypeOK
<1>1. Inv => TypeOK
  BY DEF Inv, Safe
<1> QED
  BY <1>1, AlwaysInv, PTL

\* Committed rows keep their text (RowsReadable): neither the cleanup after a
\* call nor a restore nor a crash takes the file of a row away.
THEOREM RowsAlwaysReadable == Spec => []RowsReadable
<1>1. Inv => RowsReadable
  BY DEF Inv, Safe
<1> QED
  BY <1>1, AlwaysInv, PTL

\* Nothing that was taken back stays on the disk (NothingLeft): the cleanup
\* that did not fail has removed every file that no row names.
THEOREM NothingEverLeft == Spec => []NothingLeft
<1>1. Inv => NothingLeft
  BY DEF Inv, Clean
<1> QED
  BY <1>1, AlwaysInv, PTL

\* A backup that can be restored has every text (BackupsComplete): the safety
\* archive of a damaged database never passes for one.
THEOREM BackupsAlwaysComplete == Spec => []BackupsComplete
<1>1. Inv => BackupsComplete
  BY DEF Inv, Clean
<1> QED
  BY <1>1, AlwaysInv, PTL

-----------------------------------------------------------------------------
(* The refinement.                                                           *)

Abstract == <<TableOf(db), Harmed, Backups>>

\* A row of the table is harmed if its text cannot be read.
LEMMA HarmedRows ==
    ASSUME TypeOK
    PROVE  Harmed = {n \in TableOf(db).rows :
                        \E r \in db.rows : Plain(r) = n /\ ~Readable(r)}
BY DEF Harmed, TableOf

\* A step that leaves the rows, their files and the backups alone.
LEMMA Stutter ==
    ASSUME db'.rows = db.rows, db'.status = db.status, db'.withdrawn = db.withdrawn,
           archives' = archives,
           \A r \in db.rows : r.file # Inline => files'[r.file] = files[r.file]
    PROVE  UNCHANGED Abstract
<1>1. TableOf(db') = TableOf(db)
  BY DEF TableOf
<1>2. \A r \in db.rows : Readable(r)' <=> Readable(r)
  BY DEF Readable
<1>3. Harmed' = Harmed
  BY <1>2 DEF Harmed
<1>4. Backups' = Backups
  BY DEF Backups
<1> QED
  BY <1>1, <1>3, <1>4 DEF Abstract

LEMMA BackUpSteps ==
    ASSUME TypeOK, NEW b \in Archives, archives[b] = Nothing,
           archives' = [archives EXCEPT ![b] = Archive], UNCHANGED <<db, files>>
    PROVE  Table!BackUp(b)
<1>1. TableOf(db') = TableOf(db) /\ Harmed' = Harmed
  BY DEF Harmed, Readable
<1>2. TableOf(Archive.db) = TableOf(db)
  BY ArchiveDb DEF TableOf
<1>3. Archive.complete <=> Harmed = {}
  BY DEF Archive, Harmed
<1>4. Archive # Nothing
  BY ArchiveType, ConstantsAssumption
<1> DEFINE B == [table |-> TableOf(db), complete |-> Harmed = {}]
           Entry(a) == IF a = Nothing THEN Nothing
                       ELSE [table |-> TableOf(a.db), complete |-> a.complete]
<1>5. Backups' = [Backups EXCEPT ![b] = B]
  <2>1. Entry(Archive) = B
    BY <1>2, <1>3, <1>4 DEF Archive
  <2>2. archives' = [c \in Archives |-> IF c = b THEN Archive ELSE archives[c]]
    BY DEF TypeOK
  <2>3. Backups = [c \in Archives |-> Entry(archives[c])]
    BY DEF Backups
  <2>4. Backups' = [c \in Archives |-> Entry(archives'[c])]
    BY DEF Backups
  <2> HIDE DEF Entry, B
  <2> QED
    BY <2>1, <2>2, <2>3, <2>4
<1>6. Backups[b] = Nothing
  BY DEF Backups
<1> QED
  BY <1>1, <1>5, <1>6 DEF Table!BackUp

LEMMA TableType == \A d \in Databases : TableOf(d) \in Table!Tables
<1> SUFFICES ASSUME NEW d \in Databases PROVE TableOf(d) \in Table!Tables
  OBVIOUS
<1>1. PlainRows(d.rows) \in SUBSET Table!Rows
  <2>1. Table!Rows = NewRows
    BY DEF Table!Rows, NewRows
  <2>2. d.rows \in SUBSET Rows
    BY DEF Databases
  <2> QED
    BY <2>1, <2>2, PlainType DEF PlainRows
<1>2. d.status \in [Decisions -> Table!Statuses] /\ d.withdrawn \in BOOLEAN
  BY DEF Databases, Statuses, Table!Statuses
<1> QED
  BY <1>1, <1>2 DEF TableOf, PlainRows, Table!Tables

\* A commit makes one change of the table.
LEMMA CommitSteps ==
    ASSUME TypeOK, RowsReadable, DraftWritten, GoalRight, Commit
    PROVE  Table!Change
<1>1. Transaction /\ db' = draft /\ todo = {} /\ Unwritten = {}
      /\ UNCHANGED <<files, archives>>
  BY DEF Commit
<1>2. Goal = TableOf(draft)
  BY <1>1 DEF Goal, TableOf
<1>3. Table!Changed(TableOf(db), TableOf(db'))
  BY <1>1, <1>2 DEF GoalRight
<1>4. \A r \in draft.rows \ db.rows : Readable(r)
  BY <1>1 DEF DraftWritten, Unwritten, Readable
<1>5. Harmed' \subseteq Harmed \cap TableOf(db').rows
  <2>1. Harmed' = {Plain(r) : r \in {r \in draft.rows : ~Readable(r)}}
    BY <1>1 DEF Harmed, Readable
  <2>2. Harmed' \subseteq Harmed
    BY <1>4, <2>1 DEF Harmed
  <2>3. Harmed' \subseteq TableOf(db').rows
    BY <1>1, <2>1 DEF TableOf
  <2> QED
    BY <2>2, <2>3
<1>6. Backups' = Backups
  BY <1>1 DEF Backups
<1> QED
  BY <1>3, <1>5, <1>6 DEF Table!Change

\* The replacement of the tables is the restore of a backup.
LEMMA SwapSteps ==
    ASSUME TypeOK, Installed, StagedRight, Swap
    PROVE  \E b \in Archives : Table!Restore(b)
<1>1. phase = "install" /\ left = {} /\ db' = draft /\ UNCHANGED <<files, archives>>
  BY DEF Swap
<1>2. PICK b \in Archives :
        /\ archives[b] # Nothing /\ archives[b].complete
        /\ TableOf(draft) = Table!Reapplied(TableOf(archives[b].db), TableOf(db))
  BY <1>1 DEF StagedRight
<1>3. Backups[b] = [table |-> TableOf(archives[b].db), complete |-> archives[b].complete]
  BY <1>2 DEF Backups
<1>4. Backups[b] # Nothing
  <2>1. archives[b].db \in Databases /\ archives[b].complete \in BOOLEAN
    BY <1>2 DEF TypeOK, Copies
  <2>2. TableOf(archives[b].db) \in Table!Tables
    BY <2>1, TableType
  <2>3. Backups[b] \in [table : Table!Tables, complete : BOOLEAN]
    BY <1>3, <2>1, <2>2
  <2> QED
    BY <2>3, ConstantsAssumption
<1>5. Harmed' = {}
  <2>1. \A r \in draft.rows : Readable(r)
    BY <1>1 DEF Installed, Readable
  <2> QED
    BY <1>1, <2>1 DEF Harmed, Readable
<1>6. TableOf(db') = Table!Reapplied(Backups[b].table, TableOf(db))
  BY <1>1, <1>2, <1>3
<1>7. Backups' = Backups
  BY <1>1 DEF Backups
<1> QED
  BY <1>2, <1>3, <1>4, <1>5, <1>6, <1>7 DEF Table!Restore

LEMMA DeleteBackupSteps ==
    ASSUME NEW b \in Archives, DeleteBackup(b), TypeOK
    PROVE  Table!DropBackup(b)
<1>1. archives' = [archives EXCEPT ![b] = Nothing] /\ UNCHANGED <<db, files>>
  BY DEF DeleteBackup
<1> DEFINE Entry(a) == IF a = Nothing THEN Nothing
                       ELSE [table |-> TableOf(a.db), complete |-> a.complete]
<1>2. Backups' = [Backups EXCEPT ![b] = Nothing]
  <2>1. Entry(Nothing) = Nothing
    OBVIOUS
  <2>2. archives' = [c \in Archives |-> IF c = b THEN Nothing ELSE archives[c]]
    BY <1>1 DEF TypeOK
  <2>3. Backups = [c \in Archives |-> Entry(archives[c])]
    BY DEF Backups
  <2>4. Backups' = [c \in Archives |-> Entry(archives'[c])]
    BY DEF Backups
  <2> HIDE DEF Entry
  <2> QED
    BY <2>1, <2>2, <2>3, <2>4
<1>3. TableOf(db') = TableOf(db) /\ Harmed' = Harmed
  BY <1>1 DEF Harmed, Readable
<1> QED
  BY <1>2, <1>3 DEF Table!DropBackup

\* A file that is installed is nobody's, or gets the text it had.
LEMMA InstallSteps ==
    ASSUME TypeOK, Made, NEW r \in draft.rows, Install(r)
    PROVE  Table!Repair
<1>1. /\ db' = db /\ archives' = archives
      /\ files' = [files EXCEPT ![r.file] = r.text]
      /\ r.file \in Ids /\ r.file # Inline
  BY ConstantsAssumption DEF Install, TypeOK
<1>2. \A s \in db.rows : Readable(s) => Readable(s)'
  <2>1. ASSUME NEW s \in db.rows, Readable(s), s.file # Inline PROVE files'[s.file] = s.text
    <3>1. CASE s.file = r.file
      <4>1. s = r
        BY <1>1, <3>1, OneRow DEF Made, TypeOK, Databases
      <4> QED
        BY <1>1, <4>1 DEF TypeOK
    <3>2. CASE s.file # r.file
      <4>1. files'[s.file] = files[s.file]
        BY <1>1, <3>2 DEF TypeOK
      <4> QED
        BY <2>1, <4>1 DEF Readable
    <3> QED
      BY <3>1, <3>2
  <2> QED
    BY <2>1 DEF Readable
<1>3. TableOf(db') = TableOf(db) /\ Backups' = Backups
  BY <1>1 DEF Backups
<1>4. Harmed' \subseteq Harmed
  BY <1>1, <1>2 DEF Harmed
<1> QED
  BY <1>3, <1>4 DEF Table!Repair

\* Only the row that has the file is harmed.
LEMMA DamageSteps ==
    ASSUME TypeOK, Made, NEW r \in db.rows, Damage(r)
    PROVE  \E n \in TableOf(db).rows : Table!Harm(n)
<1>1. /\ db' = db /\ archives' = archives
      /\ files' = [files EXCEPT ![r.file] = Damaged]
      /\ r.file # Inline /\ r.file \in Ids
  BY ConstantsAssumption DEF Damage, TypeOK, Databases, Rows
<1>2. \A s \in db.rows : s # r => (Readable(s)' <=> Readable(s))
  <2>1. ASSUME NEW s \in db.rows, s # r, s.file # Inline PROVE files'[s.file] = files[s.file]
    <3>1. s.file # r.file
      BY <1>1, <2>1, OneRow DEF Made, TypeOK, Databases
    <3> QED
      BY <1>1, <3>1 DEF TypeOK
  <2> QED
    BY <2>1 DEF Readable
<1>3. ~Readable(r)'
  <2>1. r.text \in Texts
    BY DEF TypeOK, Databases, Rows
  <2> QED
    BY <1>1, <2>1, ConstantsAssumption DEF Readable, TypeOK
<1>4. Harmed' = Harmed \cup {Plain(r)}
  BY <1>1, <1>2, <1>3 DEF Harmed
<1>5. TableOf(db') = TableOf(db) /\ Backups' = Backups
  BY <1>1 DEF Backups
<1>6. Plain(r) \in TableOf(db).rows
  BY DEF TableOf
<1> QED
  BY <1>4, <1>5, <1>6 DEF Table!Harm

LEMMA AbstractStep ==
    ASSUME Inv, [Next]_vars
    PROVE  [Table!Next]_Abstract
<1> USE DEF Inv, Safe, Clean, Right
<1>0. /\ db.rows \in SUBSET Rows /\ draft.rows \in SUBSET Rows
      /\ \A r \in Rows : r.text \in Texts /\ r.file \in Ids \cup {Inline}
      /\ files \in [Ids -> Texts \cup {Missing, Partial, Damaged}]
  BY DEF TypeOK, Databases, Rows
<1>00. Partial # Damaged /\ \A x \in Texts : x # Partial
  BY ConstantsAssumption
<1>1. CASE Operation
  <2>1. PICK next, N : Opens(next, N)
    BY <1>1, OperationOpens
  <2> QED
    BY <2>1, Stutter DEF Opens, Open
<1>2. CASE \E n \in todo, i \in Ids : CreateFile(n, i)
  <2>1. PICK n \in todo, i \in Ids : CreateFile(n, i)
    BY <1>2
  <2>2. \A r \in db.rows : r.file # Inline => made[r.file] # Nothing
    BY <1>0, PlainType, ConstantsAssumption DEF Made, MadeFor, NewRows
  <2>3. \A r \in db.rows : r.file # Inline => files'[r.file] = files[r.file]
    BY <1>0, <2>1, <2>2 DEF CreateFile
  <2> QED
    BY <2>1, <2>3, Stutter DEF CreateFile
<1>3. CASE \E r \in draft.rows : WriteFile(r)
  <2>1. PICK r \in draft.rows : WriteFile(r)
    BY <1>3
  <2>2. r.file \in Ids /\ files[r.file] = Partial /\ files' = [files EXCEPT ![r.file] = r.text]
    BY <1>0, <2>1 DEF WriteFile, Unwritten
  <2>3. \A s \in db.rows : s.file # Inline => files'[s.file] = files[s.file]
    BY <1>0, <1>00, <2>2 DEF RowsReadable
  <2> QED
    BY <2>1, <2>3, Stutter DEF WriteFile
<1>4. CASE Fail
  <2>1. \A i \in Referenced(Unwritten) : files[i] = Partial
    BY DEF Referenced, Unwritten
  <2>2. \A r \in db.rows : r.file # Inline => files[r.file] # Partial
    BY <1>0, <1>00 DEF RowsReadable
  <2>3. \A r \in db.rows : r.file # Inline => files'[r.file] = files[r.file]
    BY <1>0, <1>4, <2>1, <2>2 DEF Fail
  <2> QED
    BY <1>4, <2>3, Stutter DEF Fail
<1>5. CASE \E i \in Ids : Remove(i)
  <2>1. PICK i \in Ids : Remove(i)
    BY <1>5
  <2>2. \A r \in db.rows : r.file # Inline => files'[r.file] = files[r.file]
    BY <1>0, <2>1 DEF Remove, Cleaned, Referenced
  <2> QED
    BY <2>1, <2>2, Stutter DEF Remove
<1>6. CASE Forget
  <2>1. db'.rows = db.rows /\ db'.status = db.status /\ db'.withdrawn = db.withdrawn
    BY <1>6 DEF Forget, TypeOK, Databases
  <2> QED
    BY <1>6, <2>1, Stutter DEF Forget
<1>7. CASE \/ Refuse \/ Scan \/ CleanupFails \/ RestoreFails \/ Crash \/ Start
           \/ UNCHANGED vars
  <2>1. UNCHANGED <<db, files, archives>>
    BY <1>7 DEF Refuse, Scan, CleanupFails, RestoreFails, Crash, Start, vars
  <2> QED
    BY <2>1, Stutter
<1>8. CASE Commit
  BY <1>8, CommitSteps DEF Table!Next
<1>9. CASE Swap
  BY <1>9, SwapSteps DEF Table!Next
<1>10. CASE \E r \in draft.rows : Install(r)
  BY <1>10, InstallSteps DEF Table!Next
<1>11. CASE \E r \in db.rows : Damage(r)
  BY <1>11, DamageSteps DEF Table!Next
<1>12. CASE \E b \in Archives : BackUp(b)
  BY <1>12, BackUpSteps DEF BackUp, Table!Next
<1>13. CASE \E b \in Archives : DeleteBackup(b)
  BY <1>13, DeleteBackupSteps DEF Table!Next
<1>14. CASE \E b, s \in Archives : RestoreStart(b, s)
  BY <1>14, BackUpSteps DEF RestoreStart, Table!Next
<1> QED
  BY <1>1, <1>2, <1>3, <1>4, <1>5, <1>6, <1>7, <1>8, <1>9, <1>10, <1>11, <1>12, <1>13,
     <1>14 DEF Next, Operation

\* The store implements the table that carries its texts (Promise): with every
\* file that is written, lost in a crash, cleaned up or installed on the way,
\* operations and restores change the table as a whole or not at all, and a
\* restored table is Table!Reapplied, whichever backup it is made from: also one
\* older than the case, whose withdrawal it forgets (store.rs:848).
THEOREM ImplementsTable == Spec => Promise
<1>1. Init => Table!Init
  <2> SUFFICES ASSUME Init PROVE Table!Init
    OBVIOUS
  <2>1. TableOf(db) = [rows |-> {}, status |-> [d \in Decisions |-> "absent"],
                       withdrawn |-> FALSE]
    BY DEF Init, TableOf
  <2>2. Harmed = {} /\ Backups = [b \in Archives |-> Nothing]
    BY DEF Init, Harmed, Backups
  <2> QED
    BY <2>1, <2>2 DEF Table!Init
<1>2. Inv /\ [Next]_vars => [Table!Next]_Abstract
  BY AbstractStep
<1> QED
  BY <1>1, <1>2, AlwaysInv, PTL DEF Spec, Promise, Table!Spec, Abstract
=============================================================================
