----------------------- MODULE FeedbackDeliveryProofs -----------------------
(***************************************************************************)
(* For any set of events, agents, decisions and backups: types, that the   *)
(* stored evidence is sound, that a deletion leaves nothing, that no event *)
(* is replaced or dropped, and that a receipt is true.                     *)
(*                                                                         *)
(* The argument: the tables of the main database, and those of every       *)
(* backup, are sound by themselves (TableOK).  The store accepts an event  *)
(* only if they stay so, and Purged keeps them so for any decisions, hence *)
(* a restore may purge a backup with the deletions of the present.  What   *)
(* Purged takes away counts a deleted decision, because in sound tables a  *)
(* manifest names the decision of every event it refers to.  So an event   *)
(* once committed stays committed (Committed), and a receipt that was true *)
(* when an answer was given is true when it is written down, whatever      *)
(* happened between.                                                       *)
(***************************************************************************)
EXTENDS FeedbackDelivery, TLAPS

UniqueIn(events) == \A e, f \in events : e.id = f.id => e = f

NamedIn(events, i) == {f \in events : f.id = i}

\* Two events of an attempt agree.
Agree(e, f) ==
    SameAttempt(e, f) /\ e # f =>
        /\ e.phase = "initial" => f.phase # "initial"
        /\ e.phase # "none" /\ f.phase # "none" => e.sequence # f.sequence
        /\ e.run # Nothing /\ f.run # Nothing => e.run = f.run
        /\ e.dispatch # Nothing => f.dispatch = Nothing

\* What an event refers to is among the events, and fits.
Supported(e, events) ==
    /\ \A i \in References(e) : \E f \in NamedIn(events, i) : ~Misfit(e, f)
    /\ e.target # Nothing => \E f \in NamedIn(events, e.target) :
          SameAttempt(e, f) /\ f.phase # "none" /\ f.sequence < e.sequence
    /\ \A s \in e.segments : \E f \in NamedIn(events, s.usage) :
          f.kind = "usage" /\ SameAttempt(f, s)
    /\ \A i \in e.outcomes : \E f \in NamedIn(events, i), s \in e.segments :
          f.kind = "outcome" /\ SameAttempt(f, s)

SoundIn(events) ==
    \A e \in events : Supported(e, events) /\ \A f \in events : Agree(e, f)

\* No event is of a decision that is deleted, or unknown.
BegunIn(rows, events) == \A e \in events : \A d \in DecisionsOf(e) : rows[d] = "begun"

\* The contents of a main database.
TableOK(rows, events) ==
    /\ rows \in [Decisions -> {"absent", "begun", "deleted"}]
    /\ events \subseteq Events
    /\ UniqueIn(events)
    /\ SoundIn(events)
    /\ BegunIn(rows, events)

\* The main database and every backup of it.
TablesOK ==
    /\ TableOK(row, stored)
    /\ \A a \in Archives :
          archive[a] # Nothing => TableOK(archive[a].row, archive[a].stored)

\* A deletion starts with its tombstone.
DeletionMarked == deleting # Nothing => deleting \in tombstones

\* The outbox has nothing of a deleted decision.
EntriesClean ==
    \A n \in outbox :
        /\ n.event.decision \notin tombstones
        /\ n.state # "acknowledged" => ~Gone(n.event)

Committed(e) == e \in stored \/ Gone(e) \/ e \in rolledBack

Kept(e) == Gone(e) \/ \E n \in outbox : n.event = e

\* The answer a sender has is still true, and an agent offers what it queued.
SendersHonest ==
    /\ \A s \in Senders :
          /\ work[s] = Nothing => reply[s] = Nothing
          /\ reply[s] # Nothing /\ reply[s] = "stored" => Committed(work[s])
    /\ \A a \in Agents : work[a] # Nothing => Kept(work[a])

Inv ==
    /\ TypeOK
    /\ TablesOK
    /\ DeletionMarked
    /\ EntriesClean
    /\ SendersHonest
    /\ ReceiptsHonest

-----------------------------------------------------------------------------
(* Tables: operators of a set of events.                                   *)

\* What EventsAssumption says of an event that the proofs use.
LEMMA EventFacts ==
    ASSUME NEW e \in Events
    PROVE  /\ e.id \in Ids /\ e.decision \in Decisions /\ e.sequence \in Nat
           /\ e.segments \subseteq [decision : Decisions, attempt : Attempts, usage : Ids]
           /\ e.outcomes \subseteq Ids
           /\ e.run # Nothing => e.kind \in {"assignment", "outcome"}
           /\ e.dispatch # Nothing <=> e.run # Nothing /\ e.kind = "outcome"
           /\ e.kind = "run_manifest" => e.phase = "none"
           /\ e.kind # "run_manifest" => e.segments = {} /\ e.outcomes = {}
  <1>1. e \in Event
    BY EventsAssumption
  <1>2. /\ e.id \in Ids /\ e.decision \in Decisions /\ e.sequence \in Nat
        /\ e.segments \subseteq [decision : Decisions, attempt : Attempts, usage : Ids]
        /\ e.outcomes \subseteq Ids
    BY <1>1 DEF Event
  <1>. QED  BY <1>2, EventsAssumption

\* The decisions an event is about are decisions.
LEMMA DecisionsOfType ==
    ASSUME NEW e \in Events
    PROVE  DecisionsOf(e) \subseteq Decisions
  BY EventFacts DEF DecisionsOf

LEMMA AgreeSymmetric ==
    ASSUME NEW e, NEW f, Agree(e, f)
    PROVE  Agree(f, e)
  BY DEF Agree, SameAttempt

\* More events support no less.
LEMMA SupportedMore ==
    ASSUME NEW e, NEW S, NEW T, S \subseteq T, Supported(e, S)
    PROVE  Supported(e, T)
  <1>1. \A i : NamedIn(S, i) \subseteq NamedIn(T, i)
    BY DEF NamedIn
  <1>. QED  BY <1>1 DEF Supported

\* Tables stay sound with an event that they support and that agrees with
\* every other one.
LEMMA AddSound ==
    ASSUME NEW rows, NEW S, TableOK(rows, S), NEW e \in Events,
           \A f \in S : f.id # e.id,
           Supported(e, S), \A f \in S : Agree(e, f),
           \A d \in DecisionsOf(e) : rows[d] = "begun"
    PROVE  TableOK(rows, S \cup {e})
  <1>1. UniqueIn(S \cup {e})
    BY DEF TableOK, UniqueIn
  <1>2. \A g \in S \cup {e} : Supported(g, S \cup {e})
    BY SupportedMore DEF TableOK, SoundIn
  <1>3. \A g, f \in S \cup {e} : Agree(g, f)
    <2>1. Agree(e, e)
      BY DEF Agree
    <2>. QED  BY <2>1, AgreeSymmetric DEF TableOK, SoundIn
  <1>4. SoundIn(S \cup {e})
    BY <1>2, <1>3 DEF SoundIn
  <1>5. BegunIn(rows, S \cup {e})
    BY DEF TableOK, BegunIn
  <1>. QED  BY <1>1, <1>4, <1>5 DEF TableOK

\* An event that no purge of D takes: what it counts is of other decisions, and
\* a run manifest counts no event of D.
LEMMA PurgedMeans ==
    ASSUME NEW S, NEW D, NEW e
    PROVE  e \in Purged(S, D) <=>
             /\ e \in S
             /\ e.decision \notin D
             /\ \A s \in e.segments : s.decision \notin D
             /\ \A s \in e.segments, f \in S : f.decision \in D => f.id # s.usage
             /\ \A i \in e.outcomes, f \in S : f.decision \in D => f.id # i
  BY DEF Purged

\* A purge takes no event of another decision, unless it is a run manifest.
LEMMA PurgedSpares ==
    ASSUME NEW S \in SUBSET Events, NEW D, NEW f \in S,
           f.decision \notin D, f.kind # "run_manifest"
    PROVE  f \in Purged(S, D)
  <1>1. f.segments = {} /\ f.outcomes = {}
    BY EventFacts
  <1>. QED  BY <1>1, PurgedMeans

\* What supports an event that a purge leaves is left as well: an event of the
\* same attempt is of the same decision, and only run manifests refer to others.
LEMMA PurgedSupports ==
    ASSUME NEW S \in SUBSET Events, NEW D, NEW e \in Purged(S, D), Supported(e, S)
    PROVE  Supported(e, Purged(S, D))
  <1>0. e \in S /\ e \in Events
    BY PurgedMeans
  <1>1. e.decision \notin D /\ \A s \in e.segments : s.decision \notin D
    BY PurgedMeans
  <1>2. ASSUME NEW i \in References(e)
        PROVE  \E f \in NamedIn(Purged(S, D), i) : ~Misfit(e, f)
    <2>1. PICK f \in NamedIn(S, i) : ~Misfit(e, f)
      BY DEF Supported
    <2>2. f \in S /\ f.id = i /\ f.decision \notin D
      BY <1>1, <2>1 DEF NamedIn, Misfit, SameAttempt
    <2>3. f.kind # "run_manifest"
      <3>1. f.kind \in {"assignment", "review", "usage"} \/ f.phase = "initial"
        BY <2>1, <2>2 DEF References, Misfit
      <3>. QED  BY <2>2, <3>1, EventFacts
    <2>. QED  BY <2>1, <2>2, <2>3, PurgedSpares DEF NamedIn
  <1>3. ASSUME e.target # Nothing
        PROVE  \E f \in NamedIn(Purged(S, D), e.target) :
                  SameAttempt(e, f) /\ f.phase # "none" /\ f.sequence < e.sequence
    <2>1. PICK f \in NamedIn(S, e.target) :
                  SameAttempt(e, f) /\ f.phase # "none" /\ f.sequence < e.sequence
      BY <1>3 DEF Supported
    <2>2. f \in S /\ f.decision \notin D /\ f.kind # "run_manifest"
      BY <1>1, <2>1, EventFacts DEF NamedIn, SameAttempt
    <2>. QED  BY <2>1, <2>2, PurgedSpares DEF NamedIn
  <1>4. ASSUME NEW s \in e.segments
        PROVE  \E f \in NamedIn(Purged(S, D), s.usage) :
                  f.kind = "usage" /\ SameAttempt(f, s)
    <2>1. PICK f \in NamedIn(S, s.usage) : f.kind = "usage" /\ SameAttempt(f, s)
      BY DEF Supported
    <2>2. f \in S /\ f.decision \notin D
      BY <1>1, <2>1 DEF NamedIn, SameAttempt
    <2>. QED  BY <2>1, <2>2, PurgedSpares DEF NamedIn
  <1>5. ASSUME NEW i \in e.outcomes
        PROVE  \E f \in NamedIn(Purged(S, D), i), s \in e.segments :
                  f.kind = "outcome" /\ SameAttempt(f, s)
    <2>1. PICK f \in NamedIn(S, i), s \in e.segments :
                  f.kind = "outcome" /\ SameAttempt(f, s)
      BY DEF Supported
    <2>2. f \in S /\ f.decision \notin D
      BY <1>1, <2>1 DEF NamedIn, SameAttempt
    <2>. QED  BY <2>1, <2>2, PurgedSpares DEF NamedIn
  <1>. QED  BY <1>2, <1>3, <1>4, <1>5 DEF Supported

\* Tables stay sound when any decisions are purged, with rows that know of
\* the others what they knew.
LEMMA PurgedSound ==
    ASSUME NEW rows, NEW S, TableOK(rows, S), NEW D,
           NEW left \in [Decisions -> {"absent", "begun", "deleted"}],
           \A d \in Decisions \ D : rows[d] = "begun" => left[d] = "begun"
    PROVE  TableOK(left, Purged(S, D))
  <1>1. S \in SUBSET Events /\ Purged(S, D) \subseteq S
    BY PurgedMeans DEF TableOK
  <1>2. UniqueIn(Purged(S, D))
    BY <1>1 DEF TableOK, UniqueIn
  <1>3. SoundIn(Purged(S, D))
    BY <1>1, PurgedSupports DEF TableOK, SoundIn
  <1>4. BegunIn(left, Purged(S, D))
    <2> SUFFICES ASSUME NEW e \in Purged(S, D), NEW d \in DecisionsOf(e)
                 PROVE  left[d] = "begun"
      BY DEF BegunIn
    <2>1. d \in Decisions
      BY <1>1, DecisionsOfType
    <2>2. d \notin D
      BY PurgedMeans DEF DecisionsOf
    <2>3. rows[d] = "begun"
      BY <1>1 DEF TableOK, BegunIn
    <2>. QED  BY <2>1, <2>2, <2>3
  <1>. QED  BY <1>1, <1>2, <1>3, <1>4 DEF TableOK

\* An event that a purge takes from sound tables is about a decision purged:
\* a run manifest names the decision of each event it refers to.
LEMMA PurgedCounts ==
    ASSUME NEW rows, NEW S, TableOK(rows, S), NEW D, NEW e \in S, e \notin Purged(S, D)
    PROVE  DecisionsOf(e) \cap D # {}
  <1>0. UniqueIn(S) /\ Supported(e, S)
    BY DEF TableOK, SoundIn
  <1>1. CASE e.decision \in D \/ \E s \in e.segments : s.decision \in D
    BY <1>1 DEF DecisionsOf
  <1>2. CASE \E s \in e.segments, f \in S : f.decision \in D /\ f.id = s.usage
    <2>1. PICK s \in e.segments, f \in S : f.decision \in D /\ f.id = s.usage
      BY <1>2
    <2>2. SameAttempt(f, s)
      BY <1>0, <2>1 DEF Supported, NamedIn, UniqueIn
    <2>. QED  BY <2>1, <2>2 DEF SameAttempt, DecisionsOf
  <1>3. CASE \E i \in e.outcomes, f \in S : f.decision \in D /\ f.id = i
    <2>1. PICK i \in e.outcomes, f \in S : f.decision \in D /\ f.id = i
      BY <1>3
    <2>2. PICK s \in e.segments : SameAttempt(f, s)
      BY <1>0, <2>1 DEF Supported, NamedIn, UniqueIn
    <2>. QED  BY <2>1, <2>2 DEF SameAttempt, DecisionsOf
  <1>. QED  BY <1>1, <1>2, <1>3, PurgedMeans

-----------------------------------------------------------------------------
(* The store.                                                              *)

\* What the invariant says of the tables, in the words of the module.
LEMMA SoundHere ==
    /\ \A i : NamedIn(stored, i) = Named(i)
    /\ SoundIn(stored) => EvidenceSound
  BY DEF NamedIn, Named, SoundIn, Supported, Agree, EvidenceSound

\* The checks of an event that is new and that the store accepts.
LEMMA AcceptedChecks ==
    ASSUME NEW e, "stored" \in Verdicts(e), e \notin stored
    PROVE  /\ Named(e.id) = {}
           /\ row[e.decision] = "begun"
           /\ ManifestProblems(e) = {}
           /\ ~ExecutionConflict(e)
           /\ ReferenceProblems(e) = {}
           /\ ~Unarrived(e)
           /\ ScoreProblems(e) = {}
  <1>1. "stored" \notin ManifestProblems(e)
    BY DEF ManifestProblems
  <1>2. "stored" \notin ReferenceProblems(e)
    BY DEF ReferenceProblems
  <1>3. "stored" \notin ScoreProblems(e)
    BY DEF ScoreProblems
  <1>. QED  BY <1>1, <1>2, <1>3 DEF Verdicts

\* A run manifest that has no problem finds the usages and outcomes it counts.
LEMMA NoManifestProblems ==
    ASSUME NEW e, ManifestProblems(e) = {}
    PROVE  /\ \A s \in e.segments : \E f \in Named(s.usage) :
                 f.kind = "usage" /\ SameAttempt(f, s)
           /\ \A i \in e.outcomes : \E f \in Named(i), s \in e.segments :
                 f.kind = "outcome" /\ SameAttempt(f, s)
  <1> DEFINE missing == {s \in e.segments : Named(s.usage) = {}}
             wrong == {s \in e.segments : \E f \in Named(s.usage) :
                         f.kind # "usage" \/ ~SameAttempt(f, s)}
             unknown == {i \in e.outcomes : Named(i) = {}}
             foreign == {i \in e.outcomes : \E f \in Named(i) :
                           \/ f.kind # "outcome"
                           \/ \A s \in e.segments : ~SameAttempt(f, s)}
  <1>1. /\ {IF row[s.decision] = "deleted" THEN "not_found" ELSE "waiting" :
               s \in missing} = {}
        /\ {"waiting" : i \in unknown} = {}
        /\ {"invalid" : s \in wrong} = {} /\ {"invalid" : i \in foreign} = {}
    BY DEF ManifestProblems
  <1>2. missing = {} /\ unknown = {} /\ wrong = {} /\ foreign = {}
    <2> HIDE DEF missing, wrong, unknown, foreign
    <2>. QED  BY <1>1
  <1>. QED  BY <1>2

\* An event whose references have no problem finds what they name.
LEMMA NoReferenceProblems ==
    ASSUME NEW e, ReferenceProblems(e) = {}
    PROVE  \A i \in References(e) :
              i # e.id /\ \E f \in Named(i) : ~Misfit(e, f)
  <1> DEFINE absent == {i \in References(e) \ {e.id} : Named(i) = {}}
             unfit == {f \in stored : f.id \in References(e) /\ Misfit(e, f)}
             own == References(e) \cap {e.id}
  <1>1. /\ {"waiting" : i \in absent} = {}
        /\ {"invalid" : f \in unfit} = {} /\ {"invalid" : i \in own} = {}
    BY DEF ReferenceProblems
  <1>2. absent = {} /\ unfit = {} /\ own = {}
    <2> HIDE DEF absent, unfit, own
    <2>. QED  BY <1>1
  <1>. QED  BY <1>2 DEF Named

\* A score that has no problem is the only first one of its attempt or comes
\* after the score it revises, and its sequence is new.
LEMMA NoScoreProblems ==
    ASSUME NEW e, ScoreProblems(e) = {}
    PROVE  /\ \A f \in stored : SameAttempt(e, f) /\ f.phase # "none" =>
                 /\ ~(e.phase = "initial" /\ f.phase = "initial")
                 /\ ~(e.phase # "none" /\ f.sequence = e.sequence)
           /\ \A f \in Named(e.target) :
                 SameAttempt(e, f) /\ f.phase # "none" /\ ~(e.sequence <= f.sequence)
  <1> DEFINE group == {f \in stored : SameAttempt(e, f) /\ f.phase # "none"}
             rival == {f \in group :
                          \/ e.phase = "initial" /\ f.phase = "initial"
                          \/ e.phase # "none" /\ f.sequence = e.sequence}
             unfit == {f \in Named(e.target) :
                          f \notin group \/ e.sequence <= f.sequence}
  <1>1. {"conflict" : f \in rival} = {} /\ {"invalid" : f \in unfit} = {}
    BY DEF ScoreProblems
  <1>2. rival = {} /\ unfit = {}
    <2> HIDE DEF rival, unfit
    <2>. QED  BY <1>1
  <1>. QED  BY <1>2

\* An event the store accepts leaves the tables sound.
LEMMA AcceptedSound ==
    ASSUME TableOK(row, stored), NEW e \in Events, "stored" \in Verdicts(e)
    PROVE  TableOK(row, stored \cup {e})
  <1>1. CASE e \in stored
    <2>1. stored \cup {e} = stored
      BY <1>1
    <2>. QED  BY <2>1
  <1>2. CASE e \notin stored
    <2>0. /\ Named(e.id) = {} /\ row[e.decision] = "begun" /\ ManifestProblems(e) = {}
          /\ ~ExecutionConflict(e) /\ ReferenceProblems(e) = {} /\ ~Unarrived(e)
          /\ ScoreProblems(e) = {}
      BY <1>2, AcceptedChecks
    <2>1. \A f \in stored : f.id # e.id
      BY <2>0 DEF Named
    <2>2. stored \subseteq Events
      BY DEF TableOK
    <2>3. Supported(e, stored)
      <3>1. \A i \in References(e) : \E f \in NamedIn(stored, i) : ~Misfit(e, f)
        BY <2>0, NoReferenceProblems, SoundHere
      <3>2. e.target # Nothing => \E f \in NamedIn(stored, e.target) :
                SameAttempt(e, f) /\ f.phase # "none" /\ f.sequence < e.sequence
        <4> SUFFICES ASSUME e.target # Nothing
                     PROVE  \E f \in NamedIn(stored, e.target) :
                SameAttempt(e, f) /\ f.phase # "none" /\ f.sequence < e.sequence
          OBVIOUS
        <4>1. PICK f \in Named(e.target) : TRUE
          BY <2>0 DEF Unarrived
        <4>2. SameAttempt(e, f) /\ f.phase # "none" /\ ~(e.sequence <= f.sequence)
          BY <2>0, <4>1, NoScoreProblems
        <4>3. f \in Events
          BY <2>2, <4>1 DEF Named
        <4>4. f.sequence < e.sequence
          BY <4>2, <4>3, EventFacts
        <4>. QED  BY <4>1, <4>2, <4>4, SoundHere
      <3>3. /\ \A s \in e.segments : \E f \in NamedIn(stored, s.usage) :
                  f.kind = "usage" /\ SameAttempt(f, s)
            /\ \A i \in e.outcomes : \E f \in NamedIn(stored, i), s \in e.segments :
                  f.kind = "outcome" /\ SameAttempt(f, s)
        BY <2>0, NoManifestProblems, SoundHere
      <3>. QED  BY <3>1, <3>2, <3>3 DEF Supported
    <2>4. ASSUME NEW f \in stored
          PROVE  Agree(e, f)
      <3> SUFFICES ASSUME SameAttempt(e, f)
                   PROVE  /\ e.phase = "initial" => f.phase # "initial"
                          /\ e.phase # "none" /\ f.phase # "none" => e.sequence # f.sequence
                          /\ e.run # Nothing /\ f.run # Nothing => e.run = f.run
                          /\ e.dispatch # Nothing => f.dispatch = Nothing
        BY DEF Agree
      <3>1. /\ e.phase = "initial" => f.phase # "initial"
            /\ e.phase # "none" /\ f.phase # "none" => e.sequence # f.sequence
        BY <2>0, NoScoreProblems
      <3>2. e.run # Nothing /\ f.run # Nothing =>
               e.run = f.run /\ ~(e.kind = "outcome" /\ f.kind = "outcome")
        BY <2>0 DEF ExecutionConflict
      <3>3. e.dispatch # Nothing => f.dispatch = Nothing
        BY <2>2, <3>2, EventFacts
      <3>. QED  BY <3>1, <3>2, <3>3
    <2>5. ASSUME NEW d \in DecisionsOf(e)
          PROVE  row[d] = "begun"
      <3>1. CASE d = e.decision
        BY <2>0, <3>1
      <3>2. CASE \E s \in e.segments : s.decision = d
        <4>1. PICK s \in e.segments : s.decision = d
          BY <3>2
        <4>2. PICK f \in Named(s.usage) : SameAttempt(f, s)
          BY <2>0, NoManifestProblems
        <4>3. f \in stored /\ f.decision = d
          BY <4>1, <4>2 DEF Named, SameAttempt
        <4>. QED  BY <4>3 DEF TableOK, BegunIn, DecisionsOf
      <3>. QED  BY <3>1, <3>2 DEF DecisionsOf
    <2>. QED  BY <2>1, <2>3, <2>4, <2>5, AddSound
  <1>. QED  BY <1>1, <1>2

\* What a call of the store may do to the tables.
LEMMA StoreStep ==
    ASSUME TableOK(row, stored), NEW e \in Events, NEW answer \in Answers,
           StoreFeedback(e, answer), row' = row
    PROVE  /\ TableOK(row, stored)'
           /\ stored \subseteq stored'
           /\ answer = "stored" => e \in stored'
  <1>1. CASE answer = "stored"
    <2>1. "stored" \in Verdicts(e) /\ stored' = stored \cup {e}
      BY <1>1 DEF StoreFeedback
    <2>2. TableOK(row, stored \cup {e})
      BY <2>1, AcceptedSound
    <2>. QED  BY <2>1, <2>2
  <1>2. CASE answer # "stored"
    BY <1>2 DEF StoreFeedback
  <1>. QED  BY <1>1, <1>2

-----------------------------------------------------------------------------
(* The outbox.                                                             *)

States == {"queued_local", "acknowledged", "quarantined"}

Mark(n, M, to) == IF n \in M THEN [n EXCEPT !.state = to] ELSE n

\* The entries where those of M have the state to.
Marked(entries, M, to) == {Mark(n, M, to) : n \in entries}

UniqueEntries(entries) == \A n, m \in entries : n.event.id = m.event.id => n = m

\* Marking an entry keeps its event.
LEMMA MarkKeeps ==
    ASSUME NEW n \in Entries, NEW M, NEW to \in States
    PROVE  /\ Mark(n, M, to) \in Entries
           /\ Mark(n, M, to).event = n.event
           /\ Mark(n, M, to).state = IF n \in M THEN to ELSE n.state
  BY DEF Entries, Mark, States

\* How the actions of the outbox mark its entries.
LEMMA MarkingActions ==
    ASSUME NEW e, NEW i, NEW permanent \in BOOLEAN
    PROVE  /\ Acknowledge(e) <=>
                 outbox' = Marked(outbox, {n \in outbox : n.event = e}, "acknowledged")
           /\ Failed(e, permanent) <=>
                 outbox' = Marked(outbox,
                                  {n \in outbox : n.event.id = e.id /\ n.state = "queued_local"
                                                  /\ permanent},
                                  "quarantined")
           /\ Retry(i) => 
                 outbox' = Marked(outbox,
                                  {n \in outbox : n.event.id = i /\ n.state = "quarantined"},
                                  "queued_local")
  <1> DEFINE A == {n \in outbox : n.event = e}
             F == {n \in outbox : n.event.id = e.id /\ n.state = "queued_local" /\ permanent}
             Q == {n \in outbox : n.event.id = i /\ n.state = "quarantined"}
  <1>1. Acknowledge(e) <=> outbox' = Marked(outbox, A, "acknowledged")
    <2>1. {IF n.event = e THEN [n EXCEPT !.state = "acknowledged"] ELSE n : n \in outbox}
             = Marked(outbox, A, "acknowledged")
      BY DEF Marked, Mark
    <2>. QED  BY <2>1 DEF Acknowledge
  <1>2. Failed(e, permanent) <=> outbox' = Marked(outbox, F, "quarantined")
    <2>1. {IF n.event.id = e.id /\ n.state = "queued_local" /\ permanent
           THEN [n EXCEPT !.state = "quarantined"] ELSE n : n \in outbox}
             = Marked(outbox, F, "quarantined")
      BY DEF Marked, Mark
    <2>. QED  BY <2>1 DEF Failed
  <1>3. Retry(i) => outbox' = Marked(outbox, Q, "queued_local")
    <2>1. {IF n.event.id = i /\ n.state = "quarantined"
           THEN [n EXCEPT !.state = "queued_local"] ELSE n : n \in outbox}
             = Marked(outbox, Q, "queued_local")
      BY DEF Marked, Mark
    <2>. QED  BY <2>1 DEF Retry
  <1>. QED  BY <1>1, <1>2, <1>3

-----------------------------------------------------------------------------
(* What a step does to the tables.                                         *)

\* The tables stay sound, and an event leaves them only for a deletion or a
\* backup.
TablesMove ==
    /\ TablesOK'
    /\ archive' \in [Archives -> Tables \cup {Nothing}]
    /\ \A e \in stored : e \in stored' \/ Gone(e) \/ e \in rolledBack'
    /\ rolledBack \subseteq rolledBack' /\ rolledBack' \subseteq Events

\* Rows may become begun.
LEMMA RowsGrow ==
    ASSUME NEW rows, NEW S, TableOK(rows, S),
           NEW more \in [Decisions -> {"absent", "begun", "deleted"}],
           \A d \in Decisions : rows[d] = "begun" => more[d] = "begun"
    PROVE  TableOK(more, S)
  <1>1. BegunIn(more, S)
    BY DecisionsOfType DEF TableOK, BegunIn
  <1>. QED  BY <1>1 DEF TableOK

\* A step that leaves the databases alone.
LEMMA TablesUnmoved ==
    ASSUME Inv, UNCHANGED <<tables, archive, rolledBack>>
    PROVE  TablesMove
  BY DEF Inv, TypeOK, TablesOK, TablesMove, tables

\* An event is offered to the store.
LEMMA StoreKeepsTables ==
    ASSUME Inv, NEW e \in Events, NEW answer \in Answers, StoreFeedback(e, answer),
           UNCHANGED <<row, archive, rolledBack>>
    PROVE  TablesMove
  <1>1. TableOK(row, stored)
    BY DEF Inv, TablesOK
  <1>2. TableOK(row, stored)' /\ stored \subseteq stored'
    BY <1>1, StoreStep
  <1>. QED  BY <1>2 DEF Inv, TypeOK, TablesOK, TablesMove

\* Decisions begin.
LEMMA BeginKeepsTables ==
    ASSUME Inv, NEW d \in Decisions, Begin(d) \/ ReplaySnapshot(d)
    PROVE  TablesMove
  <1>1. row \in [Decisions -> {"absent", "begun", "deleted"}] /\ TableOK(row, stored)
    BY DEF Inv, TablesOK, TableOK
  <1>2. row' = row \/ (row[d] = "absent" /\ row' = [row EXCEPT ![d] = "begun"])
    BY DEF Begin, ReplaySnapshot
  <1>3. /\ row' \in [Decisions -> {"absent", "begun", "deleted"}]
        /\ \A x \in Decisions : row[x] = "begun" => row'[x] = "begun"
    BY <1>1, <1>2
  <1>4. UNCHANGED <<stored, archive, rolledBack>>
    BY DEF Begin, ReplaySnapshot, Decided
  <1>5. TableOK(row', stored)
    BY <1>1, <1>3, RowsGrow
  <1>. QED  BY <1>4, <1>5 DEF Inv, TypeOK, TablesOK, TablesMove

\* The second half of a deletion.
LEMMA DeleteKeepsTables ==
    ASSUME Inv, DeleteStore
    PROVE  TablesMove
  <1>1. TableOK(row, stored) /\ row \in [Decisions -> {"absent", "begun", "deleted"}]
    BY DEF Inv, TablesOK, TableOK
  <1>2. deleting \in Decisions /\ deleting \in tombstones
    BY DEF Inv, TypeOK, DeletionMarked, DeleteStore
  <1>3. /\ row' = [row EXCEPT ![deleting] = "deleted"]
        /\ stored' = Purged(stored, {deleting})
        /\ UNCHANGED <<archive, rolledBack>>
    BY DEF DeleteStore
  <1>4. TableOK(row', Purged(stored, {deleting}))
    <2>1. /\ row' \in [Decisions -> {"absent", "begun", "deleted"}]
          /\ \A d \in Decisions \ {deleting} : row[d] = "begun" => row'[d] = "begun"
      BY <1>1, <1>2, <1>3
    <2>. QED  BY <1>1, <2>1, PurgedSound
  <1>5. \A e \in stored : e \in stored' \/ Gone(e)
    BY <1>1, <1>2, <1>3, PurgedCounts DEF Gone
  <1>. QED  BY <1>3, <1>4, <1>5 DEF Inv, TypeOK, TablesOK, TablesMove

\* A backup takes the tables as they are.
LEMMA BackupKeepsTables ==
    ASSUME Inv, NEW a \in Archives, Backup(a)
    PROVE  TablesMove
  <1>1. [row |-> row, stored |-> stored] \in Tables
    BY DEF Inv, TypeOK
  <1>2. /\ archive \in [Archives -> Tables \cup {Nothing}]
        /\ archive' = [archive EXCEPT ![a] = [row |-> row, stored |-> stored]]
    BY DEF Inv, TypeOK, Backup
  <1>3. archive' \in [Archives -> Tables \cup {Nothing}]
    BY <1>1, <1>2
  <1>4. \A b \in Archives :
           archive'[b] # Nothing => TableOK(archive'[b].row, archive'[b].stored)
    BY <1>2 DEF Inv, TablesOK
  <1>. QED  BY <1>3, <1>4 DEF Inv, TypeOK, TablesOK, TablesMove, Backup, tables

\* A backup, sound when it was made, is purged of what was deleted since.
LEMMA RestoreKeepsTables ==
    ASSUME Inv, NEW a \in Archives, Restore(a)
    PROVE  TablesMove
  <1> DEFINE deleted == {d \in Decisions : row[d] = "deleted"}
  <1>1. /\ archive[a] # Nothing
        /\ row' = [d \in Decisions |-> IF d \in deleted THEN "deleted" ELSE archive[a].row[d]]
        /\ stored' = Purged(archive[a].stored, deleted)
        /\ rolledBack' = rolledBack \cup stored /\ archive' = archive
    BY DEF Restore
  <1>2. TableOK(archive[a].row, archive[a].stored)
    BY <1>1 DEF Inv, TablesOK
  <1>3. archive[a].row \in [Decisions -> {"absent", "begun", "deleted"}]
    BY <1>2 DEF TableOK
  <1>4. TableOK(row', Purged(archive[a].stored, deleted))
    <2>1. /\ row' \in [Decisions -> {"absent", "begun", "deleted"}]
          /\ \A d \in Decisions \ deleted : archive[a].row[d] = "begun" => row'[d] = "begun"
      BY <1>1, <1>3
    <2> HIDE DEF deleted
    <2>. QED  BY <1>2, <2>1, PurgedSound
  <1>5. stored \subseteq Events
    BY DEF Inv, TablesOK, TableOK
  <1>. QED  BY <1>1, <1>4, <1>5 DEF Inv, TypeOK, TablesOK, TablesMove

\* Every step.
LEMMA TablesStep ==
    ASSUME Inv, [Next]_vars
    PROVE  TablesMove
  <1>1. CASE \E a \in Agents :
                Unreachable(a) \/ Abandon(a) \/ \E e \in Events : Send(a, e)
    BY <1>1, TablesUnmoved DEF Unreachable, Abandon, Send
  <1>2. ASSUME NEW s \in Senders, Served(s)
        PROVE  TablesMove
    <2>1. work[s] \in Events
      BY <1>2 DEF Inv, TypeOK, Served, Offered
    <2>. QED  BY <1>2, <2>1, StoreKeepsTables DEF Served
  <1>3. ASSUME NEW s \in Senders, NotServed(s)
        PROVE  TablesMove
    <2>1. work[s] \in Events
      BY <1>3 DEF Inv, TypeOK, NotServed, Offered
    <2>2. CASE UNCHANGED stored
      BY <1>3, <2>2, TablesUnmoved DEF NotServed, tables
    <2>3. CASE StoreFeedback(work[s], "stored")
      BY <1>3, <2>1, <2>3, StoreKeepsTables DEF NotServed, Answers
    <2>. QED  BY <1>3, <2>2, <2>3 DEF NotServed, StoreFails
  <1>4. CASE \E s \in Senders : Settle(s) \/ SettleFails(s)
    BY <1>4, TablesUnmoved DEF Settle, SettleFails
  <1>5. CASE ReplayRead \/ \E e \in batch : ReplayNext(e)
    BY <1>5, TablesUnmoved DEF ReplayRead, ReplayNext
  <1>6. CASE \E e \in Events : Direct(e)
    BY <1>6, StoreKeepsTables DEF Direct, Answers
  <1>7. CASE \E i \in Ids : Retry(i)
    BY <1>7, TablesUnmoved DEF Retry
  <1>8. CASE \E d \in Decisions : Begin(d) \/ ReplaySnapshot(d)
    BY <1>8, BeginKeepsTables
  <1>9. CASE \E d \in Decisions : BeginUnrecorded(d) \/ FinishUnrecorded(d)
    BY <1>9, TablesUnmoved DEF BeginUnrecorded, FinishUnrecorded, Decided, tables
  <1>10. CASE (\E d \in Decisions : DeleteOutbox(d)) \/ DeletionFails
    BY <1>10, TablesUnmoved DEF DeleteOutbox, DeletionFails
  <1>11. CASE DeleteStore
    BY <1>11, DeleteKeepsTables
  <1>12. CASE \E a \in Archives : Backup(a)
    BY <1>12, BackupKeepsTables
  <1>13. CASE \E a \in Archives : Restore(a)
    BY <1>13, RestoreKeepsTables
  <1>14. CASE Crash
    BY <1>14, TablesUnmoved DEF Crash
  <1>15. CASE UNCHANGED vars
    BY <1>15, TablesUnmoved DEF vars, tables
  <1>. QED  BY <1>1, <1>2, <1>3, <1>4, <1>5, <1>6, <1>7, <1>8, <1>9, <1>10, <1>11,
              <1>12, <1>13, <1>14, <1>15 DEF Next

-----------------------------------------------------------------------------
(* What a step does to the outbox.                                         *)

\* Entries of deleted decisions leave it, and no other; a tombstone is never
\* taken away; an entry becomes acknowledged when its event is committed.
OutboxMoves ==
    /\ outbox' \subseteq Entries /\ UniqueEntries(outbox')
    /\ tombstones \subseteq tombstones' /\ tombstones' \subseteq Decisions
    /\ EntriesClean'
    /\ \A n \in outbox : Gone(n.event)' \/ \E m \in outbox' : m.event = n.event
    /\ \A m \in outbox' : m.state = "acknowledged" =>
          \/ Committed(m.event)
          \/ \E n \in outbox : n.state = "acknowledged" /\ n.event = m.event

\* A step that leaves the outbox alone.
LEMMA OutboxUnmoved ==
    ASSUME Inv, UNCHANGED <<outbox, tombstones>>
    PROVE  OutboxMoves
  BY DEF Inv, TypeOK, OutboxMoves, UniqueEntries, EntriesClean, Gone

\* An agent queues an event.
LEMMA EnqueueMoves ==
    ASSUME Inv, NEW e \in Events, Enqueue(e), UNCHANGED tombstones
    PROVE  OutboxMoves
  <1> DEFINE new == [event |-> e, state |-> "queued_local"]
  <1>1. CASE outbox' = outbox
    BY <1>1, OutboxUnmoved
  <1>2. CASE outbox' = outbox \cup {new}
    <2>1. new \in Entries /\ new.event = e /\ new.state = "queued_local"
      BY DEF Entries
    <2>2. DecisionsOf(e) \cap tombstones = {} /\ e.decision \notin tombstones
      BY DEF Enqueue, DecisionsOf
    <2> HIDE DEF new
    <2>3. outbox' \subseteq Entries
      BY <1>2, <2>1 DEF Inv, TypeOK
    <2>4. UniqueEntries(outbox')
      <3>1. CASE \E n \in outbox : n.event = e
        BY <3>1 DEF Enqueue, Inv, TypeOK, UniqueEntries
      <3>2. CASE ~\E n \in outbox : n.event = e
        <4>1. \A n \in outbox : n.event.id # e.id
          BY <3>2 DEF Enqueue
        <4>. QED  BY <1>2, <2>1, <4>1 DEF Inv, TypeOK, UniqueEntries
      <3>. QED  BY <3>1, <3>2
    <2>5. EntriesClean'
      BY <1>2, <2>1, <2>2 DEF Inv, EntriesClean, Gone
    <2>. QED  BY <1>2, <2>1, <2>3, <2>4, <2>5 DEF Inv, TypeOK, OutboxMoves
  <1>. QED  BY <1>1, <1>2 DEF Enqueue

\* Entries are marked: acknowledged ones of committed events, others as they
\* could be before.
LEMMA MarkingMoves ==
    ASSUME Inv, NEW M, NEW to \in States,
           outbox' = Marked(outbox, M, to), UNCHANGED tombstones,
           to = "acknowledged" => \A n \in outbox \cap M : Committed(n.event),
           to # "acknowledged" => \A n \in outbox \cap M : n.state # "acknowledged"
    PROVE  OutboxMoves
  <1>1. outbox \in SUBSET Entries /\ UniqueEntries(outbox) /\ EntriesClean
    BY DEF Inv, TypeOK, UniqueEntries
  <1>2. \A n \in outbox : /\ Mark(n, M, to) \in Entries
                          /\ Mark(n, M, to).event = n.event
                          /\ Mark(n, M, to).state = IF n \in M THEN to ELSE n.state
    BY <1>1, MarkKeeps
  <1>3. \A m : m \in outbox' <=> \E n \in outbox : m = Mark(n, M, to)
    BY DEF Marked
  <1>4. outbox' \subseteq Entries /\ UniqueEntries(outbox')
    BY <1>1, <1>2, <1>3 DEF UniqueEntries
  <1>5. EntriesClean'
    <2> SUFFICES ASSUME NEW n \in outbox
                 PROVE  /\ Mark(n, M, to).event.decision \notin tombstones'
                        /\ Mark(n, M, to).state # "acknowledged"
                              => ~Gone(Mark(n, M, to).event)'
      BY <1>3 DEF EntriesClean
    <2>1. /\ n.event.decision \notin tombstones
          /\ n.state # "acknowledged" => ~Gone(n.event)
      BY <1>1 DEF EntriesClean
    <2>. QED  BY <1>2, <2>1 DEF Gone
  <1>6. \A n \in outbox : \E m \in outbox' : m.event = n.event
    BY <1>2, <1>3
  <1>7. \A m \in outbox' : m.state = "acknowledged" =>
           \/ Committed(m.event)
           \/ \E n \in outbox : n.state = "acknowledged" /\ n.event = m.event
    BY <1>2, <1>3
  <1>. QED  BY <1>4, <1>5, <1>6, <1>7 DEF Inv, TypeOK, OutboxMoves

\* The answer is written down.
LEMMA SettleMoves ==
    ASSUME Inv, NEW s \in Senders, Settle(s)
    PROVE  OutboxMoves
  <1> DEFINE e == work[s]
             permanent == reply[s] \in Permanent
  <1>1. UNCHANGED tombstones /\ reply[s] # Nothing
    BY DEF Settle
  <1>2. \/ reply[s] = "stored" /\ Acknowledge(e)
        \/ UNCHANGED outbox
        \/ Failed(e, permanent)
    BY DEF Settle
  <1>3. CASE reply[s] = "stored" /\ Acknowledge(e)
    <2> DEFINE M == {n \in outbox : n.event = e}
    <2>1. outbox' = Marked(outbox, M, "acknowledged")
      BY <1>3, MarkingActions
    <2>2. Committed(e)
      BY <1>1, <1>3 DEF Inv, SendersHonest
    <2>. QED  BY <1>1, <2>1, <2>2, MarkingMoves DEF States
  <1>4. CASE UNCHANGED outbox
    BY <1>1, <1>4, OutboxUnmoved
  <1>5. CASE Failed(e, permanent)
    <2> DEFINE M == {n \in outbox : n.event.id = e.id /\ n.state = "queued_local"
                                    /\ permanent}
    <2>0. permanent \in BOOLEAN
      OBVIOUS
    <2> HIDE DEF permanent, e
    <2>1. outbox' = Marked(outbox, M, "quarantined")
      BY <1>5, <2>0, MarkingActions
    <2>. QED  BY <1>1, <2>1, MarkingMoves DEF States
  <1>. QED  BY <1>2, <1>3, <1>4, <1>5

\* The user retries an entry in quarantine.
LEMMA RetryMoves ==
    ASSUME Inv, NEW i \in Ids, Retry(i)
    PROVE  OutboxMoves
  <1> DEFINE M == {n \in outbox : n.event.id = i /\ n.state = "quarantined"}
  <1>1. outbox' = Marked(outbox, M, "queued_local") /\ UNCHANGED tombstones
    BY MarkingActions DEF Retry
  <1>. QED  BY <1>1, MarkingMoves DEF States

\* The first half of a deletion: what leaves the outbox is of the decision or
\* counts it.
LEMMA PurgeMoves ==
    ASSUME Inv, NEW d \in Decisions, DeleteOutbox(d)
    PROVE  OutboxMoves
  <1>1. /\ tombstones' = tombstones \cup {d}
        /\ outbox' = {n \in outbox :
                        /\ n.event.decision # d
                        /\ n.state # "acknowledged" => d \notin DecisionsOf(n.event)}
    BY DEF DeleteOutbox, PurgeOutbox
  <1>2. UniqueEntries(outbox') /\ outbox' \subseteq Entries
    BY <1>1 DEF Inv, TypeOK, UniqueEntries
  <1>3. EntriesClean'
    BY <1>1 DEF Inv, EntriesClean, Gone
  <1>4. \A n \in outbox : Gone(n.event)' \/ \E m \in outbox' : m.event = n.event
    BY <1>1 DEF Gone, DecisionsOf
  <1>. QED  BY <1>1, <1>2, <1>3, <1>4 DEF Inv, TypeOK, OutboxMoves

\* Every step.
LEMMA OutboxStep ==
    ASSUME Inv, [Next]_vars
    PROVE  OutboxMoves
  <1>1. CASE \E a \in Agents : Unreachable(a) \/ Abandon(a)
    BY <1>1, OutboxUnmoved DEF Unreachable, Abandon
  <1>2. CASE \E a \in Agents, e \in Events : Send(a, e)
    BY <1>2, EnqueueMoves DEF Send
  <1>3. CASE \E s \in Senders : Served(s) \/ NotServed(s) \/ SettleFails(s)
    BY <1>3, OutboxUnmoved DEF Served, NotServed, SettleFails
  <1>4. CASE \E s \in Senders : Settle(s)
    BY <1>4, SettleMoves
  <1>5. CASE ReplayRead \/ \E e \in batch : ReplayNext(e)
    BY <1>5, OutboxUnmoved DEF ReplayRead, ReplayNext
  <1>6. CASE \E e \in Events : Direct(e)
    BY <1>6, OutboxUnmoved DEF Direct
  <1>7. CASE \E i \in Ids : Retry(i)
    BY <1>7, RetryMoves
  <1>8. CASE \E d \in Decisions :
                Begin(d) \/ BeginUnrecorded(d) \/ FinishUnrecorded(d) \/ ReplaySnapshot(d)
    BY <1>8, OutboxUnmoved
       DEF Begin, BeginUnrecorded, FinishUnrecorded, ReplaySnapshot, Decided
  <1>9. CASE \E d \in Decisions : DeleteOutbox(d)
    BY <1>9, PurgeMoves
  <1>10. CASE DeleteStore \/ DeletionFails
    BY <1>10, OutboxUnmoved DEF DeleteStore, DeletionFails
  <1>11. CASE \E a \in Archives : Backup(a) \/ Restore(a)
    BY <1>11, OutboxUnmoved DEF Backup, Restore
  <1>12. CASE Crash
    BY <1>12, OutboxUnmoved DEF Crash
  <1>13. CASE UNCHANGED vars
    BY <1>13, OutboxUnmoved DEF vars
  <1>. QED  BY <1>1, <1>2, <1>3, <1>4, <1>5, <1>6, <1>7, <1>8, <1>9, <1>10, <1>11,
              <1>12, <1>13 DEF Next

\* What is committed stays committed, and what is kept stays kept.
LEMMA PromisesStay ==
    ASSUME TablesMove, OutboxMoves
    PROVE  \A e : /\ Committed(e) => Committed(e)'
                  /\ Kept(e) => Kept(e)'
                  /\ Gone(e) => Gone(e)'
  <1>1. \A e : Gone(e) => Gone(e)'
    BY DEF OutboxMoves, Gone
  <1>2. \A e : Committed(e) => Committed(e)'
    BY <1>1 DEF TablesMove, Committed
  <1>3. \A e : Kept(e) => Kept(e)'
    BY <1>1 DEF OutboxMoves, Kept
  <1>. QED  BY <1>1, <1>2, <1>3

-----------------------------------------------------------------------------
(* The senders.                                                            *)

\* The types of what the senders do, and that it is honest.
SendersOK ==
    /\ work \in [Senders -> Events \cup {Nothing}]
    /\ reply \in [Senders -> Answers \cup {Nothing}]
    /\ SendersHonest

\* What the agents were told is true.
ToldOK ==
    /\ told \in [Events -> {"nothing", "stored", "kept"}]
    /\ \A e \in Events : /\ told[e] = "stored" => Committed(e)
                         /\ told[e] = "kept" => Kept(e)

LEMMA ReceiptsMeans ==
    ReceiptsHonest <=>
        /\ \A n \in outbox : n.state = "acknowledged" => Committed(n.event)
        /\ \A e \in Events : /\ told[e] = "stored" => Committed(e)
                             /\ told[e] = "kept" => Kept(e)
  BY DEF ReceiptsHonest, Committed, Kept

LEMMA InvSenders == Inv => SendersOK /\ ToldOK
  BY ReceiptsMeans DEF Inv, TypeOK, SendersOK, ToldOK

\* The senders do nothing.
LEMMA SendersRest ==
    ASSUME Inv, TablesMove, OutboxMoves, UNCHANGED <<work, reply>>
    PROVE  SendersOK'
  <1>1. SendersOK
    BY InvSenders
  <1>2. SendersHonest'
    BY <1>1, PromisesStay DEF SendersOK, SendersHonest
  <1>. QED  BY <1>1, <1>2 DEF SendersOK

\* One sender takes an event, gets an answer or is done.
LEMMA SenderMoves ==
    ASSUME Inv, TablesMove, OutboxMoves,
           NEW s \in Senders, NEW w \in Events \cup {Nothing}, NEW r \in Answers \cup {Nothing},
           work' = [work EXCEPT ![s] = w], reply' = [reply EXCEPT ![s] = r],
           w = Nothing => r = Nothing,
           r # Nothing /\ r = "stored" => Committed(w)',
           s \in Agents /\ w # Nothing => Kept(w)'
    PROVE  SendersOK'
  <1>1. SendersOK
    BY InvSenders
  <1>2. /\ work' \in [Senders -> Events \cup {Nothing}] /\ work'[s] = w
        /\ reply' \in [Senders -> Answers \cup {Nothing}] /\ reply'[s] = r
        /\ \A x \in Senders \ {s} : work'[x] = work[x] /\ reply'[x] = reply[x]
    BY <1>1 DEF SendersOK
  <1>3. ASSUME NEW x \in Senders
        PROVE  /\ work'[x] = Nothing => reply'[x] = Nothing
               /\ reply'[x] # Nothing /\ reply'[x] = "stored" => Committed(work[x])'
    <2>1. CASE x = s
      BY <1>2, <2>1 DEF Committed, Gone
    <2>2. CASE x # s
      BY <1>1, <1>2, <2>2, PromisesStay DEF SendersOK, SendersHonest, Committed, Gone
    <2>. QED  BY <2>1, <2>2
  <1>4. ASSUME NEW a \in Agents, work'[a] # Nothing
        PROVE  Kept(work[a])'
    <2>1. CASE a = s
      BY <1>2, <1>4, <2>1 DEF Kept, Gone
    <2>2. CASE a # s
      BY <1>1, <1>2, <1>4, <2>2, PromisesStay
         DEF SendersOK, SendersHonest, Senders, Kept, Gone
    <2>. QED  BY <2>1, <2>2
  <1>5. SendersHonest'
    BY <1>3, <1>4 DEF SendersHonest
  <1>. QED  BY <1>2, <1>5 DEF SendersOK

\* A sender is done.
LEMMA IdleMoves ==
    ASSUME Inv, TablesMove, OutboxMoves, NEW s \in Senders, Idle(s)
    PROVE  SendersOK'
  BY SenderMoves DEF Idle

\* Nobody is told anything.
LEMMA ToldRests ==
    ASSUME Inv, TablesMove, OutboxMoves, UNCHANGED told
    PROVE  ToldOK'
  <1>1. ToldOK
    BY InvSenders
  <1>. QED  BY <1>1, PromisesStay DEF ToldOK

\* An agent is told something of an event.
LEMMA ToldMoves ==
    ASSUME Inv, TablesMove, OutboxMoves,
           NEW e \in Events, NEW v \in {"nothing", "stored", "kept"},
           told' = [told EXCEPT ![e] = v],
           v = "stored" => Committed(e), v = "kept" => Kept(e)
    PROVE  ToldOK'
  <1>1. ToldOK
    BY InvSenders
  <1>2. /\ told' \in [Events -> {"nothing", "stored", "kept"}] /\ told'[e] = v
        /\ \A x \in Events \ {e} : told'[x] = told[x]
    BY <1>1 DEF ToldOK
  <1>3. ASSUME NEW x \in Events
        PROVE  /\ told'[x] = "stored" => Committed(x)'
               /\ told'[x] = "kept" => Kept(x)'
    <2>1. CASE x = e
      BY <1>2, <2>1, PromisesStay
    <2>2. CASE x # e
      BY <1>1, <1>2, <2>2, PromisesStay DEF ToldOK
    <2>. QED  BY <2>1, <2>2
  <1>. QED  BY <1>2, <1>3 DEF ToldOK

\* laya_feedback: the entry is there before the event is offered.
LEMMA SendHonest ==
    ASSUME Inv, TablesMove, OutboxMoves, NEW a \in Agents, NEW e \in Events, Send(a, e)
    PROVE  SendersOK' /\ ToldOK'
  <1>0. SendersOK /\ ToldOK
    BY InvSenders
  <1>1. work[a] = Nothing /\ Enqueue(e) /\ UNCHANGED reply /\ a \in Senders
    BY DEF Send, Senders
  <1>2. CASE [event |-> e, state |-> "acknowledged"] \in outbox
    <2>1. told' = [told EXCEPT ![e] = "stored"] /\ UNCHANGED work
      BY <1>2 DEF Send
    <2>2. Committed(e)
      BY <1>2 DEF Inv, ReceiptsHonest, Committed
    <2>. QED  BY <1>1, <2>1, <2>2, SendersRest, ToldMoves
  <1>3. CASE [event |-> e, state |-> "acknowledged"] \notin outbox
    <2>1. work' = [work EXCEPT ![a] = e] /\ UNCHANGED told
      BY <1>3 DEF Send
    <2>2. reply[a] = Nothing
      BY <1>0, <1>1 DEF SendersOK, SendersHonest
    <2>3. reply' = [reply EXCEPT ![a] = Nothing]
      BY <1>0, <1>1, <2>2 DEF SendersOK
    <2>4. \E n \in outbox' : n.event = e
      <3>1. CASE \E n \in outbox : n.event = e
        BY <1>1, <3>1 DEF Enqueue
      <3>2. CASE ~\E n \in outbox : n.event = e
        <4>1. [event |-> e, state |-> "queued_local"] \in outbox'
          BY <1>1, <3>2 DEF Enqueue
        <4>. QED  BY <4>1
      <3>. QED  BY <3>1, <3>2
    <2>5. SendersOK'
      BY <1>1, <2>1, <2>3, <2>4, SenderMoves DEF Kept
    <2>. QED  BY <2>1, <2>5, ToldRests
  <1>. QED  BY <1>2, <1>3

\* The store answers, or fails to.
LEMMA ServedHonest ==
    ASSUME Inv, TablesMove, OutboxMoves, NEW s \in Senders, Served(s) \/ NotServed(s)
    PROVE  SendersOK' /\ ToldOK'
  <1>0. SendersOK
    BY InvSenders
  <1>1. PICK r \in Answers : /\ reply' = [reply EXCEPT ![s] = r]
                             /\ r = "stored" => StoreFeedback(work[s], "stored")
    BY DEF Served, NotServed, Answers
  <1>2. PICK w \in Events : w = work[s] /\ w # Nothing
    BY <1>0 DEF Served, NotServed, Offered, SendersOK
  <1>3. work' = [work EXCEPT ![s] = w] /\ UNCHANGED <<work, told>>
    BY <1>0, <1>2 DEF Served, NotServed, SendersOK
  <1>4. r = "stored" => Committed(w)'
    BY <1>1, <1>2 DEF StoreFeedback, Committed
  <1>5. s \in Agents => Kept(w)'
    <2>1. s \in Agents => Kept(w)
      BY <1>0, <1>2 DEF SendersOK, SendersHonest
    <2>. QED  BY <2>1, PromisesStay
  <1>6. SendersOK'
    BY <1>1, <1>2, <1>3, <1>4, <1>5, SenderMoves
  <1>. QED  BY <1>3, <1>6, ToldRests

\* The answer is written down and passed on.
LEMMA SettleHonest ==
    ASSUME Inv, TablesMove, OutboxMoves, NEW s \in Senders, Settle(s)
    PROVE  SendersOK' /\ ToldOK'
  <1>0. SendersOK
    BY InvSenders
  <1>1. SendersOK'
    BY IdleMoves DEF Settle
  <1>2. CASE s = Replayer
    <2>1. UNCHANGED told
      BY <1>2 DEF Settle
    <2>. QED  BY <1>1, <2>1, ToldRests
  <1>3. CASE s \in Agents
    <2>1. PICK e \in Events : e = work[s]
      BY <1>0 DEF Settle, SendersOK
    <2> DEFINE said == CASE reply[s] = "stored" -> "stored"
                         [] reply[s] \in {"waiting", "failed"} -> "kept"
                         [] OTHER -> "nothing"
    <2>2. told' = [told EXCEPT ![e] = said]
      BY <1>3, <2>1, NamesAssumption DEF Settle
    <2>3. PICK v \in {"nothing", "stored", "kept"} :
             v = said /\ (v = "stored" => reply[s] = "stored")
      BY Zenon
    <2>4. Kept(e)
      BY <1>0, <1>3, <2>1, NamesAssumption DEF SendersOK, SendersHonest, Settle
    <2>5. v = "stored" => Committed(e)
      BY <1>0, <2>1, <2>3 DEF SendersOK, SendersHonest, Settle
    <2> HIDE DEF said
    <2>. QED  BY <1>1, <2>2, <2>3, <2>4, <2>5, ToldMoves
  <1>. QED  BY <1>2, <1>3 DEF Senders

\* Every step.
LEMMA SendersStep ==
    ASSUME Inv, [Next]_vars, TablesMove, OutboxMoves
    PROVE  SendersOK' /\ ToldOK'
  <1>0. SendersOK /\ Agents \subseteq Senders /\ Replayer \in Senders
    BY InvSenders DEF Senders
  <1>1. ASSUME NEW a \in Agents, Unreachable(a)
        PROVE  SendersOK' /\ ToldOK'
    <2>1. PICK e \in Events : e = work[a]
      BY <1>0, <1>1 DEF Unreachable, SendersOK
    <2>2. Kept(e) /\ told' = [told EXCEPT ![e] = "kept"]
      BY <1>0, <1>1, <2>1 DEF SendersOK, SendersHonest, Unreachable
    <2>3. SendersOK'
      BY <1>0, <1>1, IdleMoves DEF Unreachable
    <2>. QED  BY <2>2, <2>3, ToldMoves
  <1>2. CASE \E a \in Agents : Abandon(a)
    BY <1>0, <1>2, IdleMoves, ToldRests DEF Abandon
  <1>3. CASE \E a \in Agents, e \in Events : Send(a, e)
    BY <1>3, SendHonest
  <1>4. CASE \E s \in Senders : Served(s) \/ NotServed(s)
    BY <1>4, ServedHonest
  <1>5. CASE \E s \in Senders : Settle(s)
    BY <1>5, SettleHonest
  <1>6. CASE \E s \in Senders : SettleFails(s)
    BY <1>6, IdleMoves, ToldRests DEF SettleFails
  <1>7. CASE ReplayRead
    BY <1>7, SendersRest, ToldRests DEF ReplayRead
  <1>8. ASSUME NEW e \in batch, ReplayNext(e)
        PROVE  SendersOK' /\ ToldOK'
    <2>1. e \in Events /\ reply[Replayer] = Nothing
      BY <1>0, <1>8 DEF Inv, TypeOK, ReplayNext, SendersOK, SendersHonest
    <2>2. /\ work' = [work EXCEPT ![Replayer] = e]
          /\ reply' = [reply EXCEPT ![Replayer] = Nothing]
          /\ UNCHANGED told
      BY <1>0, <1>8, <2>1 DEF ReplayNext, SendersOK
    <2>3. SendersOK'
      BY <1>0, <2>1, <2>2, SenderMoves, NamesAssumption
    <2>. QED  BY <2>2, <2>3, ToldRests
  <1>9. CASE (\E e \in Events : Direct(e)) \/ (\E i \in Ids : Retry(i))
    BY <1>9, SendersRest, ToldRests DEF Direct, Retry, sending
  <1>10. CASE \E d \in Decisions :
                Begin(d) \/ BeginUnrecorded(d) \/ FinishUnrecorded(d) \/ ReplaySnapshot(d)
    BY <1>10, SendersRest, ToldRests
       DEF Begin, BeginUnrecorded, FinishUnrecorded, ReplaySnapshot, Decided, sending
  <1>11. CASE (\E d \in Decisions : DeleteOutbox(d)) \/ DeleteStore \/ DeletionFails
    BY <1>11, SendersRest, ToldRests DEF DeleteOutbox, DeleteStore, DeletionFails, sending
  <1>12. CASE \E a \in Archives : Backup(a) \/ Restore(a)
    BY <1>12, SendersRest, ToldRests DEF Backup, Restore, sending
  <1>13. CASE Crash
    BY <1>0, <1>13, IdleMoves, ToldRests DEF Crash
  <1>14. CASE UNCHANGED vars
    BY <1>14, SendersRest, ToldRests DEF vars
  <1>. QED  BY <1>1, <1>2, <1>3, <1>4, <1>5, <1>6, <1>7, <1>8, <1>9, <1>10, <1>11,
              <1>12, <1>13, <1>14 DEF Next

-----------------------------------------------------------------------------
(* The invariant.                                                          *)

\* The variables that nothing but their type is needed of, and the mark of a
\* deletion.
LEMMA OthersStep ==
    ASSUME Inv, [Next]_vars, OutboxMoves
    PROVE  /\ unrecorded' \subseteq Decisions /\ snapshots' \subseteq Decisions
           /\ batch' \subseteq Events
           /\ deleting' \in Decisions \cup {Nothing}
           /\ DeletionMarked'
  <1>0. /\ unrecorded \subseteq Decisions /\ snapshots \subseteq Decisions
        /\ batch \subseteq Events /\ deleting \in Decisions \cup {Nothing}
        /\ DeletionMarked /\ tombstones \subseteq tombstones'
        /\ \A n \in outbox : n.event \in Events
    BY DEF Inv, TypeOK, OutboxMoves, Entries
  <1>1. CASE \E a \in Agents :
                Unreachable(a) \/ Abandon(a) \/ \E e \in Events : Send(a, e)
    BY <1>0, <1>1 DEF Unreachable, Abandon, Send, DeletionMarked
  <1>2. CASE \E s \in Senders : Served(s) \/ NotServed(s) \/ Settle(s) \/ SettleFails(s)
    BY <1>0, <1>2 DEF Served, NotServed, Settle, SettleFails, DeletionMarked
  <1>3. CASE ReplayRead
    <2>1. batch' \subseteq Events
      BY <1>0, <1>3 DEF ReplayRead
    <2>. QED  BY <1>0, <1>3, <2>1 DEF ReplayRead, DeletionMarked
  <1>4. CASE \E e \in batch : ReplayNext(e)
    BY <1>0, <1>4 DEF ReplayNext, DeletionMarked
  <1>5. CASE (\E e \in Events : Direct(e)) \/ (\E i \in Ids : Retry(i))
    BY <1>0, <1>5 DEF Direct, Retry, sending, DeletionMarked
  <1>6. CASE \E d \in Decisions :
                Begin(d) \/ BeginUnrecorded(d) \/ FinishUnrecorded(d) \/ ReplaySnapshot(d)
    BY <1>0, <1>6
       DEF Begin, BeginUnrecorded, FinishUnrecorded, ReplaySnapshot, Decided, sending,
           DeletionMarked
  <1>7. CASE \E d \in Decisions : DeleteOutbox(d)
    BY <1>0, <1>7 DEF DeleteOutbox, PurgeOutbox, sending, DeletionMarked
  <1>8. CASE DeleteStore \/ DeletionFails
    BY <1>0, <1>8 DEF DeleteStore, DeletionFails, sending, DeletionMarked
  <1>9. CASE \E a \in Archives : Backup(a) \/ Restore(a)
    BY <1>0, <1>9 DEF Backup, Restore, sending, DeletionMarked
  <1>10. CASE Crash
    BY <1>0, <1>10 DEF Crash, DeletionMarked
  <1>11. CASE UNCHANGED vars
    BY <1>0, <1>11 DEF vars, DeletionMarked
  <1>. QED  BY <1>1, <1>2, <1>3, <1>4, <1>5, <1>6, <1>7, <1>8, <1>9, <1>10, <1>11
            DEF Next

\* The inductive invariant holds initially.
LEMMA InitInv == Init => Inv
  <1> SUFFICES ASSUME Init PROVE Inv
    OBVIOUS
  <1>1. TypeOK
    BY DEF Init, TypeOK, Tables, Entries
  <1>2. TablesOK
    <2>1. stored = {} /\ row = [d \in Decisions |-> "absent"]
          /\ \A a \in Archives : archive[a] = Nothing
      BY DEF Init
    <2>. QED  BY <2>1 DEF TablesOK, TableOK, UniqueIn, SoundIn, BegunIn
  <1>3. DeletionMarked /\ EntriesClean
    BY DEF Init, DeletionMarked, EntriesClean
  <1>4. SendersHonest /\ ReceiptsHonest
    BY DEF Init, SendersHonest, ReceiptsHonest, Senders
  <1>. QED  BY <1>1, <1>2, <1>3, <1>4 DEF Inv

\* Every step keeps the inductive invariant.
LEMMA NextInv == Inv /\ [Next]_vars => Inv'
  <1> SUFFICES ASSUME Inv, [Next]_vars PROVE Inv'
    OBVIOUS
  <1>1. TablesMove /\ OutboxMoves
    BY TablesStep, OutboxStep
  <1>2. SendersOK' /\ ToldOK'
    BY <1>1, SendersStep
  <1>3. TypeOK'
    <2>1. [row |-> row, stored |-> stored]' \in Tables
      BY <1>1 DEF TablesMove, TablesOK, TableOK, Tables
    <2>2. \A e, f \in stored' : e.id = f.id => e = f
      BY <1>1 DEF TablesMove, TablesOK, TableOK, UniqueIn
    <2>. QED  BY <1>1, <1>2, <2>1, <2>2, OthersStep
              DEF TypeOK, TablesMove, OutboxMoves, UniqueEntries, SendersOK, ToldOK
  <1>4. ReceiptsHonest'
    <2>1. \A n \in outbox' : n.state = "acknowledged" => Committed(n.event)'
      <3> SUFFICES ASSUME NEW n \in outbox', n.state = "acknowledged"
                   PROVE  Committed(n.event)'
        OBVIOUS
      <3>1. Committed(n.event)
        BY <1>1 DEF OutboxMoves, Inv, ReceiptsHonest, Committed
      <3>. QED  BY <1>1, <3>1, PromisesStay
    <2>. QED  BY <1>2, <2>1, ReceiptsMeans DEF ToldOK, ReceiptsHonest, Committed, Kept
  <1>. QED  BY <1>1, <1>2, <1>3, <1>4, OthersStep
            DEF Inv, TablesMove, OutboxMoves, SendersOK

LEMMA AlwaysInv == Spec => []Inv
  BY InitInv, NextInv, PTL DEF Spec

-----------------------------------------------------------------------------
(* Theorems.                                                               *)

\* Every variable has its type, and an event id names one event of the store
\* and one entry of the outbox.
THEOREM TypeCorrect == Spec => []TypeOK
  BY AlwaysInv, PTL DEF Inv

\* In whatever order events, deletions and restores come, the stored evidence
\* is consistent and every reference leads to a stored event that fits.
THEOREM EvidenceAlwaysSound == Spec => []EvidenceSound
  <1>1. Inv => EvidenceSound
    BY SoundHere DEF Inv, TablesOK, TableOK
  <1>. QED  BY <1>1, AlwaysInv, PTL

\* Nothing about a deleted decision is left in the store or waits in the
\* outbox.
THEOREM DeletionsLeaveNothing == Spec => []DeletedLeavesNothing
  <1>1. Inv => DeletedLeavesNothing
    BY DEF Inv, TablesOK, TableOK, BegunIn, EntriesClean, DeletedLeavesNothing
  <1>. QED  BY <1>1, AlwaysInv, PTL

\* Whatever came between the answer of the store and its record, a receipt is
\* true.
THEOREM ReceiptsAlwaysHonest == Spec => []ReceiptsHonest
  BY AlwaysInv, PTL DEF Inv

\* No step replaces or drops a stored event, unless its decision was deleted or
\* the user went back to a backup without it.
THEOREM EvidenceAlwaysKept == Spec => EvidenceKept
  <1>1. Inv /\ [Next]_vars =>
           [\A e \in stored : e \in stored' \/ Gone(e) \/ e \in rolledBack']_vars
    BY TablesStep DEF TablesMove
  <1>. QED  BY <1>1, AlwaysInv, PTL DEF Spec, EvidenceKept
=============================================================================
