------------------------ MODULE BackgroundJobsProofs ------------------------
(***************************************************************************)
(* For every set of jobs, decisions, callers and backups: types, exports   *)
(* forget deleted decisions, a job that was stopped leaves nothing, and    *)
(* one that says it is completed has its result.                           *)
(*                                                                         *)
(* The argument: a job that writes and a deletion that clears exclude each *)
(* other, so a deletion in its last step sees no whole file, and a file is *)
(* whole only with live decisions in it.  A restore may bring an old row   *)
(* back, so what is said of the rows is said of those in every backup as   *)
(* well; an id is never used again, so nothing there is about a job still  *)
(* to come.                                                                *)
(***************************************************************************)
EXTENDS BackgroundJobs, TLAPS

Locked == {"locked", "cleared"}

\* A deletion has the maintenance lock alone, and once it has cleared the
\* directory there is nothing to download.
Excluded ==
    /\ pc \notin {"none", "waiting"} => \A d \in Decisions : del[d] \notin Locked
    /\ (\E d \in Decisions : del[d] = "cleared") => \A f \in files : ~f.whole

\* A file that is being written has live decisions.
Written ==
    /\ live \cap gone = {}
    /\ pc \in Exporting => \A f \in files : f.job = guard => f.decisions \subseteq live

Stopped == {"cancelled", "failed"}

NoTrace(j, rep) == rep # j /\ \A f \in files : f.job # j

\* What the database and the backups say of jobs that stopped, have not been
\* requested, or are running.
RowsTrue ==
    \A j \in Jobs :
       /\ row[j] \in Stopped => NoTrace(j, report) /\ guard # j
       /\ \A a \in Archives :
             backups[a].row[j] \in Stopped => NoTrace(j, backups[a].report) /\ guard # j

FreshJobs ==
    \A j \in Jobs \ requested :
       /\ NoTrace(j, report) /\ guard # j /\ row[j] = "none"
       /\ \A a \in Archives : NoTrace(j, backups[a].report) /\ backups[a].row[j] = "none"

\* The running job: what it has reported and the file it has.
TaskTrue ==
    guard # Nobody =>
       /\ guard \in requested
       /\ (\E a \in Archives : backups[a].report = guard) => pc = "completed"
       /\ report = guard => pc = "completed"
       /\ (\E f \in files : f.job = guard) => pc \in Exporting \cup {"completed"}

\* The running job is not completed yet, and has its result when it will be.
ResultThere ==
    guard # Nobody =>
       /\ row[guard] # "completed"
       /\ \A a \in Archives : backups[a].row[guard] # "completed"
       /\ pc \in {"opening"} \cup Exporting => kind[guard] = "export"
       /\ pc = "evaluating" => kind[guard] = "evaluation"
       /\ pc = "completed" =>
             IF kind[guard] = "export"
             THEN \E f \in files : f.job = guard /\ f.whole
             ELSE report = guard

Inv ==
    /\ TypeOK /\ Excluded /\ Written /\ ExportsForget
    /\ RowsTrue /\ FreshJobs /\ TaskTrue /\ ResultThere

-----------------------------------------------------------------------------

\* A job that exports has one file, which is whole once it is published.
LEMMA OneFile ==
    ASSUME TypeOK, NEW j \in Jobs, guard = j, pc \in Exporting
    PROVE  /\ FileOf(j) \in files /\ FileOf(j) \in Files /\ FileOf(j).job = j
           /\ FileOf(j).whole <=> pc = "published"
           /\ \A f \in files : f.job = j => f = FileOf(j)
  <1>1. PICK f \in files : f.job = guard /\ (f.whole <=> pc = "published")
    BY DEF TypeOK
  <1>2. FileOf(j) \in files /\ FileOf(j).job = j
    BY <1>1 DEF FileOf
  <1>3. \A g \in files : g.job = j => g = FileOf(j)
    BY <1>2 DEF TypeOK
  <1>. QED  BY <1>1, <1>2, <1>3 DEF TypeOK

\* Interrupting jobs gives statuses, stops no job and requests none.
LEMMA InterruptedRows ==
    ASSUME NEW r \in [Jobs -> Statuses]
    PROVE  /\ Interrupted(r) \in [Jobs -> Statuses]
           /\ \A j \in Jobs : /\ Interrupted(r)[j] \in Stopped => r[j] \in Stopped
                              /\ Interrupted(r)[j] = "completed" => r[j] = "completed"
                              /\ r[j] = "none" => Interrupted(r)[j] = "none"
  BY DEF Interrupted, Statuses, Final, Stopped

\* An update of a row gives rows, and changes this one only.
LEMMA UpdatedRows ==
    ASSUME NEW j \in Jobs, NEW status \in Statuses, row \in [Jobs -> Statuses],
           Update(j, status)
    PROVE  /\ row' \in [Jobs -> Statuses]
           /\ \A k \in Jobs \ {j} : row'[k] = row[k]
           /\ row'[j] \in {row[j], status}
  BY DEF Update

\* A file of the guard's job is changed in one place.
LEMMA FileReplaced ==
    ASSUME TypeOK, NEW j \in Jobs, guard = j, pc \in Exporting,
           NEW g \in Files, g.job = j, files' = (files \ {FileOf(j)}) \cup {g}
    PROVE  /\ files' \subseteq Files /\ g \in files'
           /\ \A f \in files' : f.job = j => f = g
           /\ \A f \in files' : f # g => f \in files
           /\ \A e, f \in files' : e.job = f.job => e = f
  BY OneFile DEF TypeOK

\* Every step keeps the types.
LEMMA TypeStep == Inv /\ [Next]_vars => TypeOK'
  <1> SUFFICES ASSUME Inv, [Next]_vars PROVE TypeOK'
    OBVIOUS
  <1> USE NobodyAssumption DEF Inv
  <1>1. ASSUME NEW j \in Jobs, Start(j) PROVE TypeOK'
    BY <1>1, RoundsAssumption DEF TypeOK, Start, tables, Exporting, Places, Final
  <1>2. ASSUME NEW j \in Jobs, Create(j) PROVE TypeOK'
    BY <1>2 DEF TypeOK, Create, Statuses, Exporting, Places, Final
  <1>3. ASSUME NEW j \in Jobs, StartFails(j) PROVE TypeOK'
    BY <1>3 DEF TypeOK, StartFails, Statuses, Exporting, Places, Final
  <1>4. ASSUME NEW j \in Jobs, Lock(j) PROVE TypeOK'
    BY <1>4 DEF TypeOK, Lock, tables, Exporting, Places, Final
  <1>5. ASSUME NEW j \in Jobs, MarkRunning(j) PROVE TypeOK'
    <2>1. row' \in [Jobs -> Statuses]
      BY <1>5, UpdatedRows DEF MarkRunning, TypeOK, Statuses
    <2>. QED  BY <1>5, <2>1 DEF TypeOK, MarkRunning, Exporting, Places, Final
  <1>6. ASSUME NEW j \in Jobs, Infer(j) PROVE TypeOK'
    BY <1>6, RoundsAssumption DEF TypeOK, Infer, tables, Exporting, Places, Final
  <1>7. ASSUME NEW j \in Jobs, Report(j) PROVE TypeOK'
    BY <1>7 DEF TypeOK, Report, Exporting, Places, Final
  <1>8. ASSUME NEW j \in Jobs, Open(j) PROVE TypeOK'
    <2>1. \A f \in files : f.job # j
      BY <1>8 DEF Open, TaskTrue, Exporting
    <2>2. [job |-> j, whole |-> FALSE, decisions |-> {}] \in Files
      BY DEF Files
    <2>. DEFINE g == [job |-> j, whole |-> FALSE, decisions |-> {}]
    <2>3. g.job = j /\ ~g.whole
      OBVIOUS
    <2>4. files' = files \cup {g}
      BY <1>8 DEF Open
    <2>. HIDE DEF g
    <2>5. files' \subseteq Files /\ \A e, f \in files' : e.job = f.job => e = f
      BY <2>1, <2>2, <2>3, <2>4 DEF TypeOK, g
    <2>6. \E f \in files' : f.job = j /\ (f.whole <=> FALSE)
      BY <2>3, <2>4
    <2>. QED
      BY <1>8, <2>5, <2>6 DEF TypeOK, Open, tables, Exporting, Places, Final
  <1>9. ASSUME NEW j \in Jobs, WriteDecision(j) PROVE TypeOK'
    <2>1. PICK d \in live \ FileOf(j).decisions :
             files' = (files \ {FileOf(j)}) \cup {[FileOf(j) EXCEPT !.decisions = @ \cup {d}]}
      BY <1>9 DEF WriteDecision
    <2>2. pc \in Exporting /\ guard = j
      BY <1>9 DEF WriteDecision, Exporting
    <2>. DEFINE g == [FileOf(j) EXCEPT !.decisions = @ \cup {d}]
    <2>3. g \in Files /\ g.job = j /\ g.whole = FileOf(j).whole
      BY <2>2, OneFile DEF Files, TypeOK
    <2>4. /\ files' \subseteq Files /\ g \in files'
          /\ \A e, f \in files' : e.job = f.job => e = f
      BY <2>1, <2>2, <2>3, FileReplaced
    <2>5. g.whole <=> pc = "published"
      BY <2>2, <2>3, OneFile
    <2>. HIDE DEF g
    <2>. QED  BY <1>9, <2>2, <2>3, <2>4, <2>5 DEF TypeOK, WriteDecision, task, tables
  <1>10. ASSUME NEW j \in Jobs, Publish(j) PROVE TypeOK'
    <2>1. pc \in Exporting /\ guard = j
      BY <1>10 DEF Publish, Exporting
    <2>. DEFINE g == [FileOf(j) EXCEPT !.whole = TRUE]
    <2>2. g \in Files /\ g.job = j /\ g.whole
      BY <2>1, OneFile DEF Files
    <2>3. /\ files' \subseteq Files /\ g \in files'
          /\ \A e, f \in files' : e.job = f.job => e = f
      BY <1>10, <2>1, <2>2, FileReplaced DEF Publish
    <2>. HIDE DEF g
    <2>. QED  BY <1>10, <2>2, <2>3 DEF TypeOK, Publish, tables, Exporting, Places, Final
  <1>11. ASSUME NEW j \in Jobs, Complete(j) PROVE TypeOK'
    BY <1>11 DEF TypeOK, Complete, tables, Exporting, Places, Final
  <1>12. ASSUME NEW j \in Jobs, NEW how \in Final, Stop(j, how) PROVE TypeOK'
    BY <1>12 DEF TypeOK, Stop, tables, Exporting, Working, Places, Final
  <1>13. ASSUME NEW j \in Jobs, Finish(j) PROVE TypeOK'
    <2>1. row' \in [Jobs -> Statuses]
      BY <1>13, UpdatedRows DEF Finish, TypeOK, Statuses
    <2>. QED  BY <1>13, <2>1 DEF TypeOK, Finish, Exporting, Places, Final
  <1>14. ASSUME NEW j \in Jobs, Cancel(j) PROVE TypeOK'
    BY <1>14 DEF TypeOK, Cancel, task
  <1>15. ASSUME NEW c \in Callers, Ask(c) PROVE TypeOK'
    BY <1>15 DEF TypeOK, Ask, task, tables
  <1>16. ASSUME NEW c \in Callers, Leave(c) PROVE TypeOK'
    BY <1>16 DEF TypeOK, Leave, Answer, Unrecorded, task, tables
  <1>17. ASSUME NEW d \in Decisions, AskDelete(d) \/ LockDelete(d) \/ DropDelete(d) PROVE TypeOK'
    BY <1>17 DEF TypeOK, AskDelete, LockDelete, DropDelete, task, tables
  <1>18. ASSUME NEW d \in Decisions, ClearExports(d) PROVE TypeOK'
    BY <1>18 DEF TypeOK, ClearExports, Cleared, PrivacyFree, task, tables
  <1>19. ASSUME NEW d \in Decisions, Delete(d) PROVE TypeOK'
    BY <1>19 DEF TypeOK, Delete, task
  <1>20. CASE Download \/ Downloaded
    <2>1. download' \in BOOLEAN /\ UNCHANGED <<kind, requested, task, files, tables, del, busy, backups>>
      BY <1>20, Zenon DEF Download, Downloaded
    <2>. QED  BY <2>1 DEF TypeOK, task, tables
  <1>21. ASSUME NEW a \in Archives, BackUp(a) PROVE TypeOK'
    BY <1>21 DEF TypeOK, BackUp, Now, Tables, task, tables
  <1>22. ASSUME NEW a \in Archives, Restore(a) PROVE TypeOK'
    <2>1. Interrupted(backups[a].row) \in [Jobs -> Statuses]
      BY InterruptedRows DEF TypeOK, Tables
    <2>. QED  BY <1>22, <2>1 DEF TypeOK, Restore, Cleared, Tables, PrivacyFree, task
  <1>23. CASE Crash
    <2>1. row' \in [Jobs -> Statuses]
      BY <1>23, InterruptedRows DEF TypeOK, Crash
    <2>. QED  BY <1>23, <2>1 DEF TypeOK, Crash, Exporting, Places
  <1>24. CASE UNCHANGED vars
    BY <1>24 DEF TypeOK, vars, task, tables
  <1>. QED
    BY <1>1, <1>2, <1>3, <1>4, <1>5, <1>6, <1>7, <1>8, <1>9, <1>10, <1>11, <1>12, <1>13,
       <1>14, <1>15, <1>16, <1>17, <1>18, <1>19, <1>20, <1>21, <1>22, <1>23, <1>24
       DEF Next, Proceed, Deleting, StopCancelled, StopMissing, StopFailed, Final

\* Every step keeps a deletion that clears apart from a job that writes.
LEMMA ExcludedStep == Inv /\ [Next]_vars => Excluded'
  <1> SUFFICES ASSUME Inv, [Next]_vars PROVE Excluded'
    OBVIOUS
  <1> USE DEF Inv, Locked
  <1>1. ASSUME pc \notin {"none", "waiting"}, del' = del PROVE Excluded'
    BY <1>1 DEF Excluded
  <1>2. ASSUME NEW j \in Jobs, Start(j) \/ Lock(j) PROVE Excluded'
    BY <1>2 DEF Excluded, Start, Lock, MayRead
  <1>3. ASSUME NEW j \in Jobs, Create(j) \/ StartFails(j) \/ MarkRunning(j) \/ Infer(j)
                                  \/ Report(j)
        PROVE  Excluded'
    BY <1>1, <1>3 DEF Create, StartFails, MarkRunning, Infer, Report
  <1>4. ASSUME NEW j \in Jobs, Open(j) \/ WriteDecision(j) \/ Publish(j) \/ Complete(j)
        PROVE  Excluded'
    BY <1>1, <1>4 DEF Open, WriteDecision, Publish, Complete
  <1>5. ASSUME NEW j \in Jobs, NEW how \in Final, Stop(j, how) PROVE Excluded'
    BY <1>1, <1>5 DEF Stop, Working, Exporting
  <1>6. ASSUME NEW j \in Jobs, Finish(j) PROVE Excluded'
    BY <1>1, <1>6 DEF Finish, Final
  <1>7. ASSUME NEW j \in Jobs, Cancel(j) PROVE Excluded'
    BY <1>7 DEF Excluded, Cancel, task
  <1>8. ASSUME NEW c \in Callers, Ask(c) \/ Leave(c) PROVE Excluded'
    BY <1>8 DEF Excluded, Ask, Leave, Answer, Unrecorded, task
  <1>9. ASSUME NEW d \in Decisions, AskDelete(d) \/ DropDelete(d) PROVE Excluded'
    BY <1>9 DEF Excluded, AskDelete, DropDelete, task, TypeOK
  <1>10. ASSUME NEW d \in Decisions, LockDelete(d) PROVE Excluded'
    BY <1>10 DEF Excluded, LockDelete, Readers, task, TypeOK
  <1>11. ASSUME NEW d \in Decisions, ClearExports(d) PROVE Excluded'
    BY <1>11 DEF Excluded, ClearExports, Cleared, task, TypeOK
  <1>12. ASSUME NEW d \in Decisions, Delete(d) PROVE Excluded'
    BY <1>12 DEF Excluded, Delete, task, TypeOK
  <1>13. CASE Download \/ Downloaded
    <2>1. UNCHANGED <<pc, del, files>>
      BY <1>13, Zenon DEF Download, Downloaded, task
    <2>. QED  BY <2>1 DEF Excluded
  <1>14. ASSUME NEW a \in Archives, BackUp(a) PROVE Excluded'
    BY <1>14 DEF Excluded, BackUp, task
  <1>15. ASSUME NEW a \in Archives, Restore(a) PROVE Excluded'
    BY <1>15 DEF Excluded, Restore, Cleared, task
  <1>16. CASE Crash
    BY <1>16 DEF Excluded, Crash
  <1>17. CASE UNCHANGED vars
    BY <1>17 DEF Excluded, vars, task
  <1>. QED
    BY <1>2, <1>3, <1>4, <1>5, <1>6, <1>7, <1>8, <1>9, <1>10, <1>11, <1>12, <1>13, <1>14,
       <1>15, <1>16, <1>17
       DEF Next, Proceed, Deleting, StopCancelled, StopMissing, StopFailed, Final

\* Every step keeps what was deleted out of the files: a file that is written
\* has live decisions, and a deletion finds no whole file.
LEMMA WrittenStep == Inv /\ [Next]_vars => Written' /\ ExportsForget'
  <1> SUFFICES ASSUME Inv, [Next]_vars PROVE Written' /\ ExportsForget'
    OBVIOUS
  <1> USE DEF Inv
  <1>1. ASSUME UNCHANGED <<files, live, gone, guard>>, pc' \in Exporting => pc \in Exporting
        PROVE  Written' /\ ExportsForget'
    BY <1>1 DEF Written, ExportsForget
  <1>2. ASSUME files' \subseteq files, UNCHANGED <<live, gone>>, pc' \notin Exporting
        PROVE  Written' /\ ExportsForget'
    BY <1>2 DEF Written, ExportsForget
  <1>3. ASSUME NEW j \in Jobs, Start(j) \/ Create(j) \/ StartFails(j) \/ Lock(j) \/ MarkRunning(j)
                                  \/ Infer(j) \/ Report(j) \/ Complete(j) \/ Finish(j)
        PROVE  Written' /\ ExportsForget'
    <2>1. files' \subseteq files /\ UNCHANGED <<live, gone>>
      BY <1>3 DEF Start, Create, StartFails, Lock, MarkRunning, Infer, Report, Complete,
                  Finish, tables
    <2>2. pc' \notin Exporting
      BY <1>3 DEF Start, Create, StartFails, Lock, MarkRunning, Infer, Report, Complete,
                  Finish, Exporting
    <2>. QED  BY <1>2, <2>1, <2>2
  <1>4. ASSUME NEW j \in Jobs, Open(j) PROVE Written' /\ ExportsForget'
    <2>1. \A f \in files : f.job # j
      BY <1>4 DEF Open, TaskTrue, TypeOK, Exporting, NobodyAssumption
    <2>. DEFINE g == [job |-> j, whole |-> FALSE, decisions |-> {}]
    <2>2. g.job = j /\ ~g.whole /\ g.decisions = {}
      OBVIOUS
    <2>3. files' = files \cup {g} /\ UNCHANGED <<live, gone>> /\ guard' = j
      BY <1>4 DEF Open, tables
    <2>. HIDE DEF g
    <2>. QED  BY <2>1, <2>2, <2>3 DEF Written, ExportsForget
  <1>5. ASSUME NEW j \in Jobs, WriteDecision(j) PROVE Written' /\ ExportsForget'
    <2>1. PICK d \in live \ FileOf(j).decisions :
             files' = (files \ {FileOf(j)}) \cup {[FileOf(j) EXCEPT !.decisions = @ \cup {d}]}
      BY <1>5 DEF WriteDecision
    <2>2. pc = "writing" /\ pc \in Exporting /\ guard = j
      BY <1>5 DEF WriteDecision, Exporting
    <2>. DEFINE g == [FileOf(j) EXCEPT !.decisions = @ \cup {d}]
    <2>3. FileOf(j) \in files /\ FileOf(j) \in Files /\ FileOf(j).job = j
      BY <2>2, OneFile
    <2>4. g \in Files /\ g.job = j /\ ~g.whole /\ g.decisions \subseteq live
      BY <2>1, <2>2, <2>3, OneFile DEF Files, TypeOK, Written
    <2>. HIDE DEF g
    <2>0. files' = (files \ {FileOf(j)}) \cup {g}
      BY <2>1 DEF g
    <2>5. /\ \A f \in files' : f.job = j => f = g
          /\ \A f \in files' : f # g => f \in files
      BY <2>0, <2>2, <2>4, FileReplaced
    <2>6. UNCHANGED <<live, gone, guard, pc>>
      BY <1>5 DEF WriteDecision, task, tables
    <2>. QED  BY <2>2, <2>4, <2>5, <2>6 DEF Written, ExportsForget
  <1>6. ASSUME NEW j \in Jobs, Publish(j) PROVE Written' /\ ExportsForget'
    <2>1. pc \in Exporting /\ guard = j
      BY <1>6 DEF Publish, Exporting
    <2>. DEFINE g == [FileOf(j) EXCEPT !.whole = TRUE]
    <2>2. g \in Files /\ g.job = j /\ g.decisions = live
      BY <1>6, <2>1, OneFile DEF Files, Publish
    <2>3. /\ \A f \in files' : f.job = j => f = g
          /\ \A f \in files' : f # g => f \in files
      BY <1>6, <2>1, <2>2, FileReplaced DEF Publish
    <2>4. UNCHANGED <<live, gone, guard>>
      BY <1>6 DEF Publish, tables
    <2>. HIDE DEF g
    <2>. QED  BY <2>1, <2>2, <2>3, <2>4 DEF Written, ExportsForget
  <1>7. ASSUME NEW j \in Jobs, NEW how \in Final, Stop(j, how) PROVE Written' /\ ExportsForget'
    BY <1>2, <1>7 DEF Stop, Final, Exporting, tables
  <1>8. ASSUME NEW j \in Jobs, Cancel(j) PROVE Written' /\ ExportsForget'
    BY <1>1, <1>8 DEF Cancel, task
  <1>9. ASSUME NEW c \in Callers, Ask(c) \/ Unrecorded(c) PROVE Written' /\ ExportsForget'
    BY <1>1, <1>9 DEF Ask, Unrecorded, task, tables
  <1>10. ASSUME NEW c \in Callers, Answer(c) PROVE Written' /\ ExportsForget'
    BY <1>10 DEF Answer, PrivacyFree, task, Written, ExportsForget
  <1>11. ASSUME NEW d \in Decisions, AskDelete(d) \/ LockDelete(d) \/ DropDelete(d)
         PROVE  Written' /\ ExportsForget'
    BY <1>1, <1>11 DEF AskDelete, LockDelete, DropDelete, task, tables
  <1>12. ASSUME NEW d \in Decisions, ClearExports(d) PROVE Written' /\ ExportsForget'
    BY <1>2, <1>12 DEF ClearExports, Cleared, PrivacyFree, task, tables
  <1>13. ASSUME NEW d \in Decisions, Delete(d) PROVE Written' /\ ExportsForget'
    <2>1. pc \in {"none", "waiting"} /\ \A f \in files : ~f.whole
      BY <1>13 DEF Delete, Excluded, Locked
    <2>. QED  BY <1>13, <2>1 DEF Delete, task, Written, ExportsForget, Exporting
  <1>14. CASE Download \/ Downloaded
    <2>1. UNCHANGED <<files, live, gone, guard, pc>>
      BY <1>14, Zenon DEF Download, Downloaded, task, tables
    <2>. QED  BY <1>1, <2>1
  <1>15. ASSUME NEW a \in Archives, BackUp(a) PROVE Written' /\ ExportsForget'
    BY <1>1, <1>15 DEF BackUp, task, tables
  <1>16. ASSUME NEW a \in Archives, Restore(a) PROVE Written' /\ ExportsForget'
    BY <1>16 DEF Restore, Cleared, Readers, PrivacyFree, task, Written, ExportsForget
  <1>17. CASE Crash
    BY <1>2, <1>17 DEF Crash, Exporting
  <1>18. CASE UNCHANGED vars
    BY <1>1, <1>18 DEF vars, task, tables
  <1>. QED
    BY <1>3, <1>4, <1>5, <1>6, <1>7, <1>8, <1>9, <1>10, <1>11, <1>12, <1>13, <1>14,
       <1>15, <1>16, <1>17, <1>18
       DEF Next, Proceed, Deleting, Leave, StopCancelled, StopMissing, StopFailed, Final

Rows == RowsTrue /\ FreshJobs /\ TaskTrue

\* Every step keeps the rows true: a job that stopped, or is still to come, has
\* neither a file nor a report, in the database as in the backups.
LEMMA RowsStep == Inv /\ [Next]_vars => Rows'
  <1> SUFFICES ASSUME Inv, [Next]_vars PROVE Rows'
    OBVIOUS
  <1> USE NobodyAssumption DEF Inv, Rows
  <1>1. ASSUME UNCHANGED <<row, report, requested, guard, backups>>, files' \subseteq files,
               guard # Nobody => pc' = pc
        PROVE  Rows'
    BY <1>1 DEF RowsTrue, FreshJobs, TaskTrue, NoTrace
  <1>2. ASSUME NEW j \in Jobs, Start(j) PROVE Rows'
    BY <1>2 DEF Start, tables, RowsTrue, FreshJobs, TaskTrue, NoTrace, Stopped, TypeOK
  <1>3. ASSUME NEW j \in Jobs, Create(j) \/ StartFails(j) PROVE Rows'
    BY <1>3 DEF Create, StartFails, RowsTrue, FreshJobs, TaskTrue, NoTrace, Stopped, Exporting,
                TypeOK
  <1>4. ASSUME NEW j \in Jobs, Lock(j) \/ Infer(j) PROVE Rows'
    BY <1>4 DEF Lock, Infer, tables, RowsTrue, FreshJobs, TaskTrue, NoTrace, Exporting
  <1>5. ASSUME NEW j \in Jobs, MarkRunning(j) PROVE Rows'
    <2>1. /\ \A k \in Jobs \ {j} : row'[k] = row[k]
          /\ row'[j] \in {row[j], "running"}
      BY <1>5, UpdatedRows DEF MarkRunning, TypeOK, Statuses
    <2>. QED
      BY <1>5, <2>1 DEF MarkRunning, RowsTrue, FreshJobs, TaskTrue, NoTrace, Stopped, Exporting
  <1>6. ASSUME NEW j \in Jobs, Report(j) PROVE Rows'
    BY <1>6 DEF Report, RowsTrue, FreshJobs, TaskTrue, NoTrace, Stopped, Exporting
  <1>7. ASSUME NEW j \in Jobs, Open(j) PROVE Rows'
    <2>. DEFINE g == [job |-> j, whole |-> FALSE, decisions |-> {}]
    <2>1. g.job = j
      OBVIOUS
    <2>2. files' = files \cup {g}
      BY <1>7 DEF Open
    <2>. HIDE DEF g
    <2>. QED
      BY <1>7, <2>1, <2>2 DEF Open, tables, RowsTrue, FreshJobs, TaskTrue, NoTrace, Exporting
  <1>8. ASSUME NEW j \in Jobs, WriteDecision(j) \/ Publish(j) PROVE Rows'
    <2>1. pc \in Exporting /\ guard = j /\ pc' \in Exporting
      BY <1>8 DEF WriteDecision, Publish, Exporting, task
    <2>2. UNCHANGED <<row, report, requested, guard, backups>>
      BY <1>8 DEF WriteDecision, Publish, tables, task
    <2>3. FileOf(j) \in files /\ FileOf(j) \in Files /\ FileOf(j).job = j
      BY <2>1, OneFile
    <2>4. PICK g \in Files : g.job = j /\ files' = (files \ {FileOf(j)}) \cup {g}
      <3>1. CASE WriteDecision(j)
        <4>1. PICK d \in live \ FileOf(j).decisions :
                 files' = (files \ {FileOf(j)}) \cup {[FileOf(j) EXCEPT !.decisions = @ \cup {d}]}
          BY <3>1 DEF WriteDecision
        <4>2. /\ [FileOf(j) EXCEPT !.decisions = @ \cup {d}] \in Files
              /\ [FileOf(j) EXCEPT !.decisions = @ \cup {d}].job = j
          BY <2>3 DEF Files, TypeOK
        <4>. QED  BY <4>1, <4>2
      <3>2. CASE Publish(j)
        <4>1. /\ [FileOf(j) EXCEPT !.whole = TRUE] \in Files
              /\ [FileOf(j) EXCEPT !.whole = TRUE].job = j
          BY <2>3 DEF Files
        <4>. QED  BY <3>2, <4>1 DEF Publish
      <3>. QED  BY <1>8, <3>1, <3>2
    <2>5. \A f \in files' : f \in files \/ f.job = j
      BY <2>4
    <2>. QED  BY <2>1, <2>2, <2>3, <2>5 DEF RowsTrue, FreshJobs, TaskTrue, NoTrace, Exporting
  <1>9. ASSUME NEW j \in Jobs, Complete(j) PROVE Rows'
    BY <1>9 DEF Complete, tables, RowsTrue, FreshJobs, TaskTrue, NoTrace, Exporting
  <1>10. ASSUME NEW j \in Jobs, NEW how \in Final, Stop(j, how) PROVE Rows'
    BY <1>10 DEF Stop, Working, tables, RowsTrue, FreshJobs, TaskTrue, NoTrace, Exporting, Final
  <1>11. ASSUME NEW j \in Jobs, Finish(j) PROVE Rows'
    <2>1. /\ \A k \in Jobs \ {j} : row'[k] = row[k]
          /\ row'[j] \in {row[j], pc}
      BY <1>11, UpdatedRows DEF Finish, TypeOK, Statuses
    <2>2. pc \in Stopped => NoTrace(j, report)
      BY <1>11 DEF Finish, TaskTrue, NoTrace, Stopped, Exporting
    <2>. QED
      BY <1>11, <2>1, <2>2
         DEF Finish, RowsTrue, FreshJobs, TaskTrue, NoTrace
  <1>12. ASSUME NEW j \in Jobs, Cancel(j) PROVE Rows'
    BY <1>1, <1>12 DEF Cancel, task
  <1>13. ASSUME NEW c \in Callers, Ask(c) \/ Leave(c) PROVE Rows'
    BY <1>1, <1>13 DEF Ask, Leave, Answer, Unrecorded, task, tables
  <1>14. ASSUME NEW d \in Decisions, AskDelete(d) \/ LockDelete(d) \/ DropDelete(d) \/ Deleting(d)
         PROVE  Rows'
    BY <1>1, <1>14 DEF AskDelete, LockDelete, DropDelete, Deleting, ClearExports, Cleared, Delete,
                       task, tables
  <1>15. CASE Download \/ Downloaded
    <2>1. UNCHANGED <<task, files, tables, requested, backups>>
      BY <1>15, Zenon DEF Download, Downloaded
    <2>. QED  BY <1>1, <2>1 DEF task, tables
  <1>16. ASSUME NEW a \in Archives, BackUp(a) PROVE Rows'
    <2>1. /\ backups'[a].row = row /\ backups'[a].report = report
          /\ \A b \in Archives \ {a} : backups'[b] = backups[b]
      BY <1>16 DEF BackUp, Now, TypeOK
    <2>2. UNCHANGED <<row, report, requested, guard, pc, files>>
      BY <1>16 DEF BackUp, task, tables
    <2>3. ASSUME NEW b \in Archives
          PROVE  \/ backups'[b].row = row /\ backups'[b].report = report
                 \/ backups'[b].row = backups[b].row /\ backups'[b].report = backups[b].report
      BY <2>1
    <2>. QED
      BY <2>2, <2>3 DEF RowsTrue, FreshJobs, TaskTrue, NoTrace
  <1>17. ASSUME NEW a \in Archives, Restore(a) PROVE Rows'
    <2>1. \A j \in Jobs : /\ row'[j] \in Stopped => backups[a].row[j] \in Stopped
                          /\ backups[a].row[j] = "none" => row'[j] = "none"
      BY <1>17, InterruptedRows DEF Restore, TypeOK, Tables
    <2>2. /\ files' \subseteq files /\ report' = backups[a].report
          /\ UNCHANGED <<guard, pc, requested, backups>>
      BY <1>17 DEF Restore, Cleared, task
    <2>3. ASSUME NEW j \in Jobs, NEW b \in Archives
          PROVE  NoTrace(j, backups[b].report) => NoTrace(j, backups[b].report)'
      BY <2>2 DEF NoTrace
    <2>4. ASSUME NEW j \in Jobs PROVE NoTrace(j, backups[a].report) => NoTrace(j, report)'
      BY <2>2 DEF NoTrace
    <2>5. RowsTrue'
      BY <2>1, <2>2, <2>3, <2>4 DEF RowsTrue
    <2>6. FreshJobs'
      BY <2>1, <2>2, <2>3, <2>4 DEF FreshJobs
    <2>. QED  BY <2>2, <2>5, <2>6 DEF TaskTrue
  <1>18. CASE Crash
    <2>1. \A j \in Jobs : /\ row'[j] \in Stopped => row[j] \in Stopped
                          /\ row[j] = "none" => row'[j] = "none"
      BY <1>18, InterruptedRows DEF Crash, TypeOK
    <2>2. UNCHANGED <<files, report, requested, backups>> /\ guard' = Nobody
      BY <1>18 DEF Crash
    <2>3. RowsTrue' /\ FreshJobs'
      BY <2>1, <2>2 DEF RowsTrue, FreshJobs, NoTrace
    <2>. QED  BY <2>2, <2>3 DEF TaskTrue
  <1>19. CASE UNCHANGED vars
    BY <1>1, <1>19 DEF vars, task, tables
  <1>. QED
    BY <1>2, <1>3, <1>4, <1>5, <1>6, <1>7, <1>8, <1>9, <1>10, <1>11, <1>12, <1>13, <1>14,
       <1>15, <1>16, <1>17, <1>18, <1>19
       DEF Next, Proceed, StopCancelled, StopMissing, StopFailed, Final

\* Every step keeps the result of the running job where it is: no deletion and no
\* restore comes between its publication and the update of its row.
LEMMA ResultStep == Inv /\ [Next]_vars => ResultThere'
  <1> SUFFICES ASSUME Inv, [Next]_vars PROVE ResultThere'
    OBVIOUS
  <1> USE NobodyAssumption DEF Inv
  <1>1. ASSUME UNCHANGED <<kind, row, report, files, guard, backups>>,
               guard # Nobody => pc' = pc
        PROVE  ResultThere'
    BY <1>1 DEF ResultThere
  <1>2. ASSUME guard' = Nobody PROVE ResultThere'
    BY <1>2 DEF ResultThere
  <1>3. ASSUME NEW j \in Jobs, Start(j) PROVE ResultThere'
    BY <1>3 DEF Start, tables, ResultThere, FreshJobs, Exporting
  <1>4. ASSUME NEW j \in Jobs, Create(j) PROVE ResultThere'
    BY <1>4 DEF Create, ResultThere, Exporting, TypeOK
  <1>5. ASSUME NEW j \in Jobs, StartFails(j) \/ Finish(j) PROVE ResultThere'
    BY <1>2, <1>5 DEF StartFails, Finish
  <1>6. ASSUME NEW j \in Jobs, Lock(j) \/ Infer(j) PROVE ResultThere'
    BY <1>6 DEF Lock, Infer, tables, ResultThere, Exporting
  <1>7. ASSUME NEW j \in Jobs, MarkRunning(j) PROVE ResultThere'
    <2>1. row'[j] \in {row[j], "running"}
      BY <1>7, UpdatedRows DEF MarkRunning, TypeOK, Statuses
    <2>2. kind[j] \in {"evaluation", "export"}
      BY DEF TypeOK
    <2>. QED  BY <1>7, <2>1, <2>2 DEF MarkRunning, ResultThere, Exporting
  <1>8. ASSUME NEW j \in Jobs, Report(j) PROVE ResultThere'
    BY <1>8 DEF Report, ResultThere, Exporting
  <1>9. ASSUME NEW j \in Jobs, Open(j) \/ WriteDecision(j) \/ Publish(j) PROVE ResultThere'
    BY <1>9 DEF Open, WriteDecision, Publish, task, tables, ResultThere, Exporting
  <1>10. ASSUME NEW j \in Jobs, Complete(j) PROVE ResultThere'
    <2>1. \E f \in files : f.job = j /\ f.whole
      BY <1>10 DEF Complete, Exporting, TypeOK
    <2>. QED  BY <1>10, <2>1 DEF Complete, tables, ResultThere, Exporting
  <1>11. ASSUME NEW j \in Jobs, NEW how \in Stopped, Stop(j, how) PROVE ResultThere'
    BY <1>11 DEF Stop, tables, ResultThere, Exporting, Stopped
  <1>12. ASSUME NEW j \in Jobs, Cancel(j) PROVE ResultThere'
    BY <1>1, <1>12 DEF Cancel, task
  <1>13. ASSUME NEW c \in Callers, Ask(c) \/ Leave(c) PROVE ResultThere'
    BY <1>1, <1>13 DEF Ask, Leave, Answer, Unrecorded, task, tables
  <1>14. ASSUME NEW d \in Decisions, AskDelete(d) \/ LockDelete(d) \/ DropDelete(d) \/ Delete(d)
         PROVE  ResultThere'
    BY <1>1, <1>14 DEF AskDelete, LockDelete, DropDelete, Delete, task, tables
  <1>15. ASSUME NEW d \in Decisions, ClearExports(d) PROVE ResultThere'
    <2>1. pc \in {"none", "waiting"}
      BY <1>15 DEF ClearExports, Excluded, Locked
    <2>. QED  BY <1>15, <2>1 DEF ClearExports, task, tables, ResultThere, Exporting
  <1>16. CASE Download \/ Downloaded
    <2>1. UNCHANGED <<kind, task, files, tables, backups>>
      BY <1>16, Zenon DEF Download, Downloaded
    <2>. QED  BY <1>1, <2>1 DEF task, tables
  <1>17. ASSUME NEW a \in Archives, BackUp(a) PROVE ResultThere'
    <2>1. \A b \in Archives : backups'[b].row \in {row, backups[b].row}
      BY <1>17 DEF BackUp, Now, TypeOK
    <2>. QED  BY <1>17, <2>1 DEF BackUp, task, tables, ResultThere
  <1>18. ASSUME NEW a \in Archives, Restore(a) PROVE ResultThere'
    <2>1. \A j \in Jobs : row'[j] = "completed" => backups[a].row[j] = "completed"
      BY <1>18, InterruptedRows DEF Restore, TypeOK, Tables
    <2>2. pc \in {"none", "waiting"} /\ guard \in Jobs \cup {Nobody}
      BY <1>18 DEF Restore, Readers, TypeOK
    <2>3. UNCHANGED <<kind, guard, pc, backups>>
      BY <1>18 DEF Restore, task
    <2>. QED  BY <2>1, <2>2, <2>3 DEF ResultThere, Exporting
  <1>19. CASE Crash
    BY <1>2, <1>19 DEF Crash
  <1>20. CASE UNCHANGED vars
    BY <1>1, <1>20 DEF vars, task, tables
  <1>. QED
    BY <1>3, <1>4, <1>5, <1>6, <1>7, <1>8, <1>9, <1>10, <1>11, <1>12, <1>13, <1>14,
       <1>15, <1>16, <1>17, <1>18, <1>19, <1>20
       DEF Next, Proceed, Deleting, StopCancelled, StopMissing, StopFailed, Stopped

LEMMA InitInv == Init => Inv
  <1> SUFFICES ASSUME Init PROVE Inv
    OBVIOUS
  <1> USE NobodyAssumption
  <1>1. backups \in [Archives -> Tables]
    BY DEF Init, Now, Tables, Statuses
  <1>2. TypeOK
    <2>1. /\ kind \in [Jobs -> {"evaluation", "export"}]
          /\ row \in [Jobs -> Statuses]
          /\ del \in [Decisions -> {"none", "waiting", "locked", "cleared"}]
      BY DEF Init, Statuses
    <2>2. requested \subseteq Jobs /\ cancel \subseteq Jobs /\ busy \subseteq Callers
      BY DEF Init
    <2>3. /\ guard = Nobody /\ pc = "none" /\ pc \in Places /\ pc \notin Exporting
          /\ round \in 0..Rounds /\ report = Nobody /\ files = {}
          /\ live \subseteq Decisions /\ gone \subseteq Decisions
      BY RoundsAssumption DEF Init, Places, Exporting
    <2>4. download \in BOOLEAN
      BY DEF Init
    <2>. QED  BY <1>1, <2>1, <2>2, <2>3, <2>4 DEF TypeOK
  <1>3. Excluded /\ Written /\ ExportsForget
    BY DEF Init, Excluded, Written, ExportsForget, Locked, Exporting
  <1>4. RowsTrue /\ FreshJobs /\ TaskTrue
    BY DEF Init, Now, RowsTrue, FreshJobs, TaskTrue, NoTrace, Stopped
  <1>5. ResultThere
    BY DEF Init, ResultThere
  <1>. QED  BY <1>2, <1>3, <1>4, <1>5 DEF Inv

LEMMA AlwaysInv == Spec => []Inv
  <1>1. Inv /\ [Next]_vars => Inv'
    BY TypeStep, ExcludedStep, WrittenStep, RowsStep, ResultStep DEF Inv, Rows
  <1>. QED  BY InitInv, <1>1, PTL DEF Spec

\* Types; one file for each job, and the task that writes one has it
\* (export in evaluation.rs).
THEOREM TypeCorrect == Spec => []TypeOK
  BY AlwaysInv, PTL DEF Inv

\* No export shows a deleted decision, and a job whose row says cancelled or
\* failed left neither a file nor a report, whichever backups were restored in
\* whatever order (start and export in evaluation.rs, backup_restore).
THEOREM OnlyTrueEverLeft == Spec => []OnlyTrueLeft
  <1>1. Inv => ExportsForget /\ StoppedLeavesNothing
    BY DEF Inv, RowsTrue, NoTrace, Stopped, StoppedLeavesNothing
  <1>. QED  BY AlwaysInv, <1>1, PTL DEF OnlyTrueLeft

\* When the row of a job becomes completed, its export is there with no deleted
\* decision in it, or its report is stored (the last update of start in
\* evaluation.rs).
THEOREM CompletedAlwaysThere == Spec => CompletedIsThere
  <1>1. Inv /\ [Next]_vars =>
          [\A j \in Jobs : guard = j /\ row[j] # "completed" /\ row'[j] = "completed" =>
              IF kind[j] = "export"
              THEN \E f \in files : f.job = j /\ f.whole /\ f.decisions \cap gone = {}
              ELSE report = j]_vars
    <2> SUFFICES ASSUME Inv, Next, NEW j \in Jobs,
                        guard = j, row[j] # "completed", row'[j] = "completed"
                 PROVE  IF kind[j] = "export"
                        THEN \E f \in files : f.job = j /\ f.whole /\ f.decisions \cap gone = {}
                        ELSE report = j
      BY DEF vars
    <2>1. ASSUME pc = "completed"
          PROVE  IF kind[j] = "export"
                 THEN \E f \in files : f.job = j /\ f.whole /\ f.decisions \cap gone = {}
                 ELSE report = j
      BY <2>1, NobodyAssumption DEF Inv, ResultThere, ExportsForget
    <2>2. ASSUME NEW k \in Jobs, Finish(k) PROVE pc = "completed"
      BY <2>2, UpdatedRows DEF Finish, Inv, TypeOK, Statuses
    <2>3. ASSUME NEW k \in Jobs, MarkRunning(k) PROVE FALSE
      BY <2>3, UpdatedRows DEF MarkRunning, Inv, TypeOK, Statuses
    <2>4. ASSUME NEW k \in Jobs, Create(k) \/ StartFails(k) PROVE FALSE
      BY <2>4 DEF Create, StartFails, Inv, TypeOK
    <2>5. ASSUME NEW a \in Archives, Restore(a) PROVE FALSE
      BY <2>5, InterruptedRows, NobodyAssumption DEF Restore, Inv, TypeOK, Tables, ResultThere
    <2>6. ASSUME Crash PROVE FALSE
      BY <2>6, InterruptedRows DEF Crash, Inv, TypeOK
    <2>7. row' # row
      OBVIOUS
    <2>. QED
      BY <2>1, <2>2, <2>3, <2>4, <2>5, <2>6, <2>7
         DEF Next, Proceed, Deleting, Leave, Start, Lock, Infer, Report, Open, WriteDecision,
             Publish, Complete, Stop, StopCancelled, StopMissing, StopFailed, Cancel, Ask,
             Answer, Unrecorded, AskDelete, LockDelete, DropDelete, ClearExports, Delete,
             Download, Downloaded, BackUp, tables
  <1>. QED  BY <1>1, AlwaysInv, PTL DEF Spec, CompletedIsThere
=============================================================================
