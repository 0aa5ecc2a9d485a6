---------------------------- MODULE EvidenceFiles ----------------------------
(* Snapshots of decisions whose text is too long for a row of the database   *)
(* (evidence.rs).  The text is a file beside the database; the row has the   *)
(* name and the hash of the file.  A file is written before the transaction  *)
(* that refers to it commits and removed after the one that takes the last   *)
(* reference away, so a crash or an error between the two leaves files that  *)
(* nothing refers to.                                                        *)
EXTENDS Naturals, FiniteSets

CONSTANTS
    Decisions, Kinds,
    Texts, Large,        \* Large: texts that need a file
    Mentions, Scrubbed,  \* texts that mention the case, and what is left of each
    Owner,               \* the decision the case was made from
    Ids, Archives,
    Inline, Nothing, Missing, Partial, Damaged

VARIABLES
    db,            \* what is committed
    files,         \* the evidence directory: what each name holds
    temporaries,   \* replacements that were not renamed
    archives,      \* the backups, by name
    made,          \* history: what each id was made for; no UUID is made twice
    cleanupError,  \* the last cleanup failed
    phase,         \* what the thread of the store does
    draft,         \* the open transaction, or the database a restore has staged
    todo,          \* rows of the transaction whose file is not created yet
    left           \* files still to be removed, or to be installed

vars == <<db, files, temporaries, archives, made, cleanupError, phase, draft, todo, left>>

Scrubbable == {"context", "output"}
Statuses == {"absent", "begun", "finished", "expired", "deleted"}
Rows == [decision : Decisions, kind : Kinds, text : Texts, file : Ids \cup {Inline}]
NewRows == [decision : Decisions, kind : Kinds, text : Texts]
Databases == [rows : SUBSET Rows, catalog : SUBSET Ids,
              status : [Decisions -> Statuses], withdrawn : BOOLEAN]
Copies == [db : Databases, kept : SUBSET Ids, complete : BOOLEAN]

Row(n, i) == [decision |-> n.decision, kind |-> n.kind, text |-> n.text, file |-> i]

Referenced(R) == {r.file : r \in R} \ {Inline}
Readable(r) == r.file # Inline => files[r.file] = r.text
OnDisk == {i \in Ids : files[i] # Missing}

\* The table a reader sees: rows with their texts, and those that are damaged.
Plain(r) == [decision |-> r.decision, kind |-> r.kind, text |-> r.text]
TableOf(d) == [rows |-> {Plain(r) : r \in d.rows}, status |-> d.status, withdrawn |-> d.withdrawn]
Harmed == {Plain(r) : r \in {r \in db.rows : ~Readable(r)}}
Backups == [b \in Archives |->
    IF archives[b] = Nothing THEN Nothing
    ELSE [table |-> TableOf(archives[b].db), complete |-> archives[b].complete]]

Table == INSTANCE EvidenceTable WITH table <- TableOf(db), harmed <- Harmed, archives <- Backups

ASSUME ConstantsAssumption ==
    /\ "request" \in Kinds
    /\ Large \subseteq Texts /\ Mentions \subseteq Texts
    /\ Scrubbed \in [Mentions -> Texts \ Mentions]
    /\ Owner \in Decisions
    /\ Inline \notin Ids
    /\ Nothing \notin NewRows \cup Copies \cup [table : Table!Tables, complete : BOOLEAN]
    /\ {Missing, Partial, Damaged} \cap Texts = {}
    /\ Missing # Partial /\ Missing # Damaged /\ Partial # Damaged

Touched(R) == {r \in R : r.kind \in Scrubbable /\ r.text \in Mentions}
Scrub(r) == [decision |-> r.decision, kind |-> r.kind, text |-> Scrubbed[r.text]]

Init ==
    /\ db = [rows |-> {}, catalog |-> {},
             status |-> [d \in Decisions |-> "absent"], withdrawn |-> FALSE]
    /\ files = [i \in Ids |-> Missing]
    /\ temporaries = {}
    /\ archives = [b \in Archives |-> Nothing]
    /\ made = [i \in Ids |-> Nothing]
    /\ cleanupError = FALSE
    /\ phase = "idle"
    /\ draft = db
    /\ todo = {} /\ left = {}

-----------------------------------------------------------------------------
(* Transactions.                                                             *)

\* Start a transaction that makes next of the database and adds the rows N.
Open(next, N) ==
    /\ phase = "idle"
    /\ draft' = [next EXCEPT !.rows = @ \cup {Row(n, Inline) : n \in {n \in N : n.text \notin Large}}]
    /\ todo' = {n \in N : n.text \in Large}
    /\ UNCHANGED <<db, files, temporaries, archives, made, cleanupError, left>>

\* What the decision of the case was made from is older than the case.
Possible(d, x) == x \in Mentions => d # Owner

Begin(d, x) ==
    /\ db.status[d] = "absent"
    /\ Open([db EXCEPT !.status[d] = "begun"],
            {[decision |-> d, kind |-> "request", text |-> x]})
    /\ phase' = "saving"

\* Retention takes finished_at away: such a decision can be finished again.
Finish(d, text) ==
    /\ db.status[d] \in {"begun", "expired"}
    /\ \A k \in DOMAIN text : Possible(d, text[k])
    /\ Open([db EXCEPT !.status[d] = "finished"],
            {[decision |-> d, kind |-> k, text |-> text[k]] : k \in DOMAIN text})
    /\ phase' = "saving"

\* The case, withdrawn or not, is a row until its decision is deleted.  The
\* review that makes it comes with the finish of the decision.
CaseIn(d) == d.status[Owner] = "finished"

\* A withdrawal reads every context and output, and fails if it cannot.
CanScrub == \A r \in db.rows : r.kind \in Scrubbable => Readable(r)

Withdraw ==
    /\ CaseIn(db) /\ CanScrub
    /\ Open([db EXCEPT !.rows = @ \ Touched(@), !.withdrawn = TRUE],
            {Scrub(r) : r \in Touched(db.rows)})
    /\ phase' = "removing"

Delete(d) ==
    /\ db.status[d] # "absent"
    /\ LET rest == {r \in db.rows : r.decision # d}
           lost == d = Owner /\ CaseIn(db)
           scrubbed == IF lost THEN Touched(rest) ELSE {}
       IN  /\ lost => CanScrub
           /\ Open([db EXCEPT !.rows = rest \ scrubbed, !.status[d] = "deleted",
                              !.withdrawn = @ /\ d # Owner],
                   {Scrub(r) : r \in scrubbed})
    /\ phase' = "removing"

\* The decision of a case was reviewed, which protects it.
Retention(D) ==
    /\ Owner \notin D
    /\ \A d \in D : db.status[d] = "finished"
    /\ Open([db EXCEPT !.rows = {r \in @ : r.decision \notin D},
                       !.status = [d \in Decisions |-> IF d \in D THEN "expired" ELSE @[d]]], {})
    /\ phase' = "removing"

Transaction == phase \in {"saving", "removing"}
Unwritten == {r \in draft.rows : r.file # Inline /\ files[r.file] = Partial}

CreateFile(n, i) ==
    /\ Transaction /\ Unwritten = {}
    /\ n \in todo /\ made[i] = Nothing
    /\ made' = [made EXCEPT ![i] = n]
    /\ files' = [files EXCEPT ![i] = Partial]
    /\ todo' = todo \ {n}
    /\ draft' = [draft EXCEPT !.rows = @ \cup {Row(n, i)}, !.catalog = @ \cup {i}]
    /\ UNCHANGED <<db, temporaries, archives, cleanupError, phase, left>>

WriteFile(r) ==
    /\ Transaction /\ r \in Unwritten
    /\ files' = [files EXCEPT ![r.file] = r.text]
    /\ UNCHANGED <<db, temporaries, archives, made, cleanupError, phase, draft, todo, left>>

\* The commit does not wait for the file.
Commit_Unsynced ==
    /\ Transaction /\ todo = {}
    /\ db' = draft
    /\ IF phase = "removing" \/ cleanupError
       THEN phase' = "scan" /\ UNCHANGED left
       ELSE phase' = "sweep" /\ left' = draft.catalog \ Referenced(draft.rows)
    /\ UNCHANGED <<files, temporaries, archives, made, cleanupError, draft, todo>>

Commit ==
    /\ Transaction /\ todo = {} /\ Unwritten = {}
    /\ db' = draft
    /\ IF phase = "removing" \/ cleanupError
       THEN phase' = "scan" /\ UNCHANGED left
       ELSE phase' = "sweep" /\ left' = draft.catalog \ Referenced(draft.rows)
    /\ UNCHANGED <<files, temporaries, archives, made, cleanupError, draft, todo>>

\* Any error: the transaction is rolled back.  The file that was being
\* written is removed, if that succeeds.
Fail ==
    /\ Transaction
    /\ \/ UNCHANGED files
       \/ files' = [i \in Ids |-> IF i \in Referenced(Unwritten) THEN Missing ELSE files[i]]
    /\ draft' = db /\ todo' = {}
    /\ phase' = "scan"
    /\ UNCHANGED <<db, temporaries, archives, made, cleanupError, left>>

\* A call is refused before it writes anything.
Refuse ==
    /\ phase = "idle"
    /\ phase' = "scan"
    /\ UNCHANGED <<db, files, temporaries, archives, made, cleanupError, draft, todo, left>>

-----------------------------------------------------------------------------
(* The cleanup that ends every call.                                         *)

\* Only files of the catalog are looked for.
Scan_CatalogOnly ==
    /\ phase = "scan"
    /\ temporaries' = {}
    /\ left' = db.catalog \ Referenced(db.rows)
    /\ phase' = "sweep"
    /\ UNCHANGED <<db, files, archives, made, cleanupError, draft, todo>>

Scan ==
    /\ phase = "scan"
    /\ temporaries' = {}
    /\ left' = OnDisk \ Referenced(db.rows)
    /\ phase' = "sweep"
    /\ UNCHANGED <<db, files, archives, made, cleanupError, draft, todo>>

Remove(i) ==
    /\ phase = "sweep" /\ i \in left
    /\ files' = [files EXCEPT ![i] = Missing]
    /\ left' = left \ {i}
    /\ UNCHANGED <<db, temporaries, archives, made, cleanupError, phase, draft, todo>>

\* With every file gone, the catalog forgets them.
Forget ==
    /\ phase = "sweep" /\ left = {}
    /\ db' = [db EXCEPT !.catalog = @ \cap Referenced(db.rows)]
    /\ draft' = db'
    /\ cleanupError' = FALSE
    /\ phase' = "idle"
    /\ UNCHANGED <<files, temporaries, archives, made, todo, left>>

\* The call is answered with the error; what it committed stays.
CleanupFails ==
    /\ phase \in {"scan", "sweep"}
    /\ temporaries' \in SUBSET temporaries
    /\ phase = "sweep" => UNCHANGED temporaries
    /\ left' = {}
    /\ cleanupError' = TRUE
    /\ phase' = "idle"
    /\ UNCHANGED <<db, files, archives, made, draft, todo>>

-----------------------------------------------------------------------------
(* Backups.                                                                  *)

\* Damage is not noted.
Archive_AlwaysComplete ==
    LET kept == Referenced({r \in db.rows : Readable(r)})
    IN  [db |-> [db EXCEPT !.catalog = @ \cap Referenced(db.rows)],
         kept |-> kept, complete |-> TRUE]

Archive ==
    LET kept == Referenced({r \in db.rows : Readable(r)})
    IN  [db |-> [db EXCEPT !.catalog = @ \cap Referenced(db.rows)],
         kept |-> kept, complete |-> \A r \in db.rows : Readable(r)]

\* A backup reads every file, and fails if one is damaged.
BackUp(b) ==
    /\ phase = "idle" /\ archives[b] = Nothing
    /\ \A r \in db.rows : Readable(r)
    /\ archives' = [archives EXCEPT ![b] = Archive]
    /\ UNCHANGED <<db, files, temporaries, made, cleanupError, phase, draft, todo, left>>

DeleteBackup(b) ==
    /\ phase = "idle" /\ archives[b] # Nothing
    /\ archives' = [archives EXCEPT ![b] = Nothing]
    /\ UNCHANGED <<db, files, temporaries, made, cleanupError, phase, draft, todo, left>>

\* The tables of old in the stage, where what the database has taken back is
\* taken back again; a scrubbed text gets a new file, named by id.  The mark of
\* a withdrawal is an update of the case, lost where old has none.
Staged(old, gone, scrubbed, id) ==
    LET rest == {r \in old.rows : r.decision \notin gone} \ scrubbed
        rows == rest \cup {Row(Scrub(r), id[r]) : r \in scrubbed}
    IN  [rows |-> rows, catalog |-> Referenced(rows),
         status |-> [d \in Decisions |-> IF d \in gone THEN "deleted" ELSE old.status[d]],
         withdrawn |-> /\ CaseIn(old) /\ Owner \notin gone
                       /\ old.withdrawn \/ db.withdrawn]

\* A backup can be restored when it has the text of each of its rows.
Intact(b) ==
    /\ archives[b] # Nothing /\ archives[b].complete
    /\ Referenced(archives[b].db.rows) = archives[b].kept

\* Stage b beside the database, and keep a copy of the database as it is.
RestoreStart(b, safety) ==
    /\ phase = "idle"
    /\ Intact(b) /\ archives[safety] = Nothing
    /\ archives' = [archives EXCEPT ![safety] = Archive]
    /\ LET old == archives[b].db
           gone == {d \in Decisions : db.status[d] = "deleted"}
           lost == Owner \in gone /\ CaseIn(old)
           scrubbed == IF db.withdrawn \/ lost
                       THEN Touched({r \in old.rows : r.decision \notin gone}) ELSE {}
       IN  \E id \in [scrubbed -> Ids \cup {Inline}] :
            /\ \A r \in scrubbed : IF Scrubbed[r.text] \in Large
                                   THEN id[r] \in Ids /\ made[id[r]] = Nothing
                                   ELSE id[r] = Inline
            /\ \A r, s \in scrubbed : id[r] = id[s] /\ id[r] # Inline => r = s
            /\ draft' = Staged(old, gone, scrubbed, id)
            /\ made' = [i \in Ids |-> IF \E r \in scrubbed : id[r] = i
                                      THEN Scrub(CHOOSE r \in scrubbed : id[r] = i)
                                      ELSE made[i]]
    /\ left' = Referenced(draft'.rows)
    /\ phase' = "install"
    /\ UNCHANGED <<db, files, temporaries, cleanupError, todo>>

\* The verified text is written beside the file and renamed over it.
Install(r) ==
    /\ phase = "install" /\ r \in draft.rows /\ r.file \in left
    /\ files' = [files EXCEPT ![r.file] = r.text]
    /\ left' = left \ {r.file}
    /\ UNCHANGED <<db, temporaries, archives, made, cleanupError, phase, draft, todo>>

\* The tables are replaced before every file is there.
Swap_Early ==
    /\ phase = "install"
    /\ db' = draft
    /\ phase' = "scan"
    /\ UNCHANGED <<files, temporaries, archives, made, cleanupError, draft, todo, left>>

\* The staged tables replace those of the database.
Swap ==
    /\ phase = "install" /\ left = {}
    /\ db' = draft
    /\ phase' = "scan"
    /\ UNCHANGED <<files, temporaries, archives, made, cleanupError, draft, todo, left>>

RestoreFails ==
    /\ phase = "install"
    /\ \E T \in SUBSET left : Cardinality(T) <= 1 /\ temporaries' = temporaries \cup T
    /\ draft' = db /\ left' = {}
    /\ phase' = "scan"
    /\ UNCHANGED <<db, files, archives, made, cleanupError, todo>>

-----------------------------------------------------------------------------
(* What happens to the program.                                              *)

Crash ==
    /\ phase # "down"
    /\ phase' = "down"
    /\ \E T \in SUBSET left :
        /\ T # {} => phase = "install" /\ Cardinality(T) = 1
        /\ temporaries' = temporaries \cup T
    /\ draft' = db /\ todo' = {} /\ left' = {}
    /\ cleanupError' = FALSE
    /\ UNCHANGED <<db, files, archives, made>>

\* Opening the store removes stages that were left and cleans up.
Start ==
    /\ phase = "down"
    /\ phase' = "scan"
    /\ UNCHANGED <<db, files, temporaries, archives, made, cleanupError, draft, todo, left>>

\* Something outside changes a file; not in the middle of a restore.
Damage(r) ==
    /\ phase # "install"
    /\ r \in db.rows /\ r.file # Inline /\ files[r.file] = r.text
    /\ files' = [files EXCEPT ![r.file] = Damaged]
    /\ UNCHANGED <<db, temporaries, archives, made, cleanupError, phase, draft, todo, left>>

Next ==
    \/ \E d \in Decisions, x \in Texts : Begin(d, x)
    \/ \E d \in Decisions : \E K \in SUBSET (Kinds \ {"request"}) :
        \E text \in [K -> Texts] : Finish(d, text)
    \/ Withdraw
    \/ \E d \in Decisions : Delete(d)
    \/ \E D \in SUBSET Decisions : Retention(D)
    \/ \E n \in todo, i \in Ids : CreateFile(n, i)
    \/ \E r \in draft.rows : WriteFile(r) \/ Install(r)
    \/ Commit \/ Fail \/ Refuse
    \/ Scan \/ Forget \/ CleanupFails
    \/ \E i \in Ids : Remove(i)
    \/ \E b \in Archives : BackUp(b) \/ DeleteBackup(b)
    \/ \E b, s \in Archives : RestoreStart(b, s)
    \/ Swap \/ RestoreFails
    \/ Crash \/ Start
    \/ \E r \in db.rows : Damage(r)

Spec == Init /\ [][Next]_vars

-----------------------------------------------------------------------------
\* Types; a call that ended has left neither a transaction nor work to do.
TypeOK ==
    /\ db \in Databases /\ draft \in Databases
    /\ files \in [Ids -> Texts \cup {Missing, Partial, Damaged}]
    /\ temporaries \subseteq Ids /\ left \subseteq Ids
    /\ archives \in [Archives -> Copies \cup {Nothing}]
    /\ made \in [Ids -> NewRows \cup {Nothing}]
    /\ cleanupError \in BOOLEAN
    /\ phase \in {"idle", "saving", "removing", "scan", "sweep", "install", "down"}
    /\ todo \subseteq NewRows
    /\ ~Transaction => todo = {}
    /\ phase \in {"idle", "scan", "sweep", "down"} => draft = db
    /\ phase \notin {"sweep", "install"} => left = {}

\* Whatever is interrupted, a committed row finds its text: the cleanup
\* removes no file that a row names, and no row names a file half written.
RowsReadable ==
    \A r \in db.rows : r.file # Inline => files[r.file] \in {r.text, Damaged}

\* Between two calls, unless the last cleanup failed, the directory holds the
\* files of rows and no others: what was deleted, scrubbed, expired, rolled
\* back or left by a crash is off the disk and out of the catalog.
NothingLeft ==
    phase = "idle" /\ ~cleanupError =>
        /\ OnDisk \subseteq Referenced(db.rows)
        /\ temporaries = {}
        /\ db.catalog = Referenced(db.rows)

\* A backup that is offered for restoring has the text of every row it has.
BackupsComplete ==
    \A b \in Archives : archives[b] # Nothing /\ archives[b].complete =>
        archives[b].kept = Referenced(archives[b].db.rows)

\* The store implements the table that carries its texts: operations and
\* restores are all or nothing, and only what is outside harms a text.  What a
\* restore takes back again, and what it forgets, is Table!Reapplied.
Promise == Table!Spec
=============================================================================
