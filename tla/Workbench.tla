------------------------------ MODULE Workbench ------------------------------
(***************************************************************************)
(* The service of a workbench with the browser that looks at it: which     *)
(* sessions it trusts, and the stream of changes each tab follows, while   *)
(* the service is started, stopped, killed and replaced (ServiceLifetime)  *)
(* and the database is restored to an older state.                         *)
(*                                                                         *)
(* A tab that loads renews the session of the browser's cookie, or pairs   *)
(* with the code in its address; then it shows everything and opens a      *)
(* stream that begins after the last change it has seen.  service.rs       *)
(* (events, authenticated, remember_browser, pair, renew_browser,          *)
(* forget_browser, load_browser_sessions), store.rs (events), App.vue.     *)
(*                                                                         *)
(* A session is trusted until it lapses; its time is not counted, and one  *)
(* that has lapsed is out of every set.  Each request handler runs in two  *)
(* steps, the check of the session and the change of the sessions: the     *)
(* change itself, file first and memory then, is done under one lock       *)
(* without waiting for anything.  Requests that fail on the way are        *)
(* answered at once.  The sequence numbers of events are their places in   *)
(* the log, for the table counts on from its restored contents.            *)
(***************************************************************************)
EXTENDS ServiceLifetime, Sequences, Functions

CONSTANTS
    Tabs,
    MaxTokens,   \* sessions that are ever made
    MaxVisits,   \* runs of `laya dashboard`
    MaxAsks,     \* pages and requests of a tab
    MaxSlips,    \* writes that fail and connections that break
    MaxEvents,   \* changes of the database
    Batch        \* events of one query

ASSUME BrowserAssumption ==
    /\ MaxTokens \in Nat /\ MaxVisits \in Nat /\ MaxAsks \in Nat /\ MaxSlips \in Nat /\ MaxEvents \in Nat
    /\ Batch \in Nat \ {0}

VARIABLES
    \* sessions
    saved,      \* the tokens in browser-sessions.json
    trusted,    \* the tokens the service has in memory
    codes,      \* tabs whose pairing code is waiting in memory
    url,        \* tabs with a pairing code in their address
    cookie,     \* the token of the browser, 0 for none
    page,       \* what each tab shows
    ask,        \* the request of a tab under way
    held,       \* the token it is about
    made,       \* tokens made
    asks,       \* requests left to each tab
    visits,     \* runs of `laya dashboard` left
    slips,
    granted,    \* tokens whose pairing succeeded, until they lapse or are forgotten
    forgotten,  \* tokens whose forgetting succeeded
    \* changes
    follows,    \* the tabs whose browser has EventSource
    log,        \* the events table, as the identities of its events
    copies,     \* the same in each backup
    events,     \* events left to make
    stream,     \* the stream of each tab
    cursor,     \* where the stream is
    pending,    \* what it has read and not sent: places and identities
    last,       \* the last place a tab knows of
    seen,       \* the events a tab shows the effect of
    behind      \* tabs that know of a place a restore has taken back

sessions == <<saved, trusted, codes, url, cookie, page, ask, held, made, asks, visits, slips, granted, forgotten>>
changes == <<follows, log, copies, events, stream, cursor, pending, last, seen, behind>>
vars == <<svars, sessions, changes>>

Tokens == 1..MaxTokens
Identities == 1..MaxEvents
Asks == {"none", "renew", "renewing", "renewed", "pair", "pairing", "paired",
         "forget", "forgetting", "forgot"}
Frames == [place : 0..MaxEvents, id : 0..MaxEvents]   \* 0 is stream.reset

TypeOK ==
    /\ LifetimeTypeOK
    /\ saved \subseteq Tokens /\ trusted \subseteq Tokens
    /\ codes \subseteq Tabs /\ url \subseteq Tabs
    /\ cookie \in 0..MaxTokens
    /\ page \in [Tabs -> {"closed", "loading", "open", "refused"}]
    /\ ask \in [Tabs -> Asks]
    /\ held \in [Tabs -> 0..MaxTokens]
    /\ made \in 0..MaxTokens
    /\ asks \in [Tabs -> 0..MaxAsks]
    /\ visits \in 0..MaxVisits
    /\ slips \in 0..MaxSlips
    /\ granted \subseteq Tokens /\ forgotten \subseteq Tokens
    /\ follows \subseteq Tabs
    /\ log \in Seq(Identities) /\ copies \subseteq Seq(Identities)
    /\ events \in 0..MaxEvents
    /\ stream \in [Tabs -> {"off", "open", "dead"}]
    /\ cursor \in [Tabs -> 0..MaxEvents]
    /\ pending \in [Tabs -> Seq(Frames)]
    /\ last \in [Tabs -> 0..MaxEvents]
    /\ seen \in [Tabs -> SUBSET Identities]
    /\ behind \subseteq Tabs

Init ==
    /\ LifetimeInit
    /\ saved = {} /\ trusted = {} /\ codes = {} /\ url = {}
    /\ cookie = 0
    /\ page = [t \in Tabs |-> "closed"]
    /\ ask = [t \in Tabs |-> "none"]
    /\ held = [t \in Tabs |-> 0]
    /\ made = 0
    /\ asks \in [Tabs -> 0..MaxAsks]
    /\ visits \in 0..MaxVisits
    /\ slips \in 0..MaxSlips
    /\ granted = {} /\ forgotten = {}
    /\ follows \in SUBSET Tabs
    /\ log = <<>> /\ copies = {}
    /\ events \in 0..MaxEvents
    /\ stream = [t \in Tabs |-> "off"]
    /\ cursor = [t \in Tabs |-> 0]
    /\ pending = [t \in Tabs |-> <<>>]
    /\ last = [t \in Tabs |-> 0]
    /\ seen = [t \in Tabs |-> {}]
    /\ behind = {}

\* The HTTP listener is open, and a service that stops still answers.
Accepts == \E s \in Services : pc[s] = "serving"
Up == \E s \in Services : pc[s] \in {"serving", "stopping"}
Stopping == \E s \in Services : pc[s] = "stopping"

Becomes(t, what) == ask' = [ask EXCEPT ![t] = what]
Asking(t) == asks[t] > 0 /\ asks' = [asks EXCEPT ![t] = @ - 1]
Shows(t, what) == page' = [page EXCEPT ![t] = what]
-----------------------------------------------------------------------------
(* The sessions.                                                           *)

SessionsOnly == UNCHANGED <<svars, changes>>

\* The sessions become these, and the request goes on; or the write fails,
\* with the file as it was or already replaced, and the request with it.
Save(t, updated, what) ==
    /\ saved' = updated
    /\ trusted' = updated
    /\ Becomes(t, what)
    /\ UNCHANGED slips

SaveFails(t, updated) ==
    /\ slips > 0
    /\ slips' = slips - 1
    /\ saved' \in {saved, updated}
    /\ Becomes(t, "none")
    /\ UNCHANGED trusted

\* 401: a tab that has a code tries it, another asks the user to pair.
Unknown(t) ==
    IF t \in url /\ Accepts THEN Becomes(t, "pair") /\ UNCHANGED page
                            ELSE Becomes(t, "none") /\ Shows(t, "refused")

\* `laya dashboard` is run.
Visit(c) ==
    /\ c \notin agents
    /\ visits > 0
    /\ visits' = visits - 1
    /\ Call(c)
    /\ UNCHANGED <<changes, saved, trusted, codes, url, cookie, page, ask, held, made, asks,
                   slips, granted, forgotten>>

\* `laya dashboard`: a code in the memory of the service, a tab with its
\* address.
Dashboard(c, t) ==
    /\ Asked(c)
    /\ ask[t] = "none"
    /\ codes' = codes \cup {t}
    /\ url' = url \cup {t}
    /\ UNCHANGED <<changes, saved, trusted, cookie, page, ask, held, made, asks, visits, granted, slips, forgotten>>

\* A tab is opened or reloaded.
Load(t) ==
    /\ ask[t] = "none"
    /\ Accepts
    /\ Asking(t)
    /\ Shows(t, "loading")
    /\ Becomes(t, "renew")
    /\ held' = [held EXCEPT ![t] = cookie]
    /\ stream' = [stream EXCEPT ![t] = "off"]
    /\ pending' = [pending EXCEPT ![t] = <<>>]
    /\ UNCHANGED <<svars, saved, trusted, codes, url, cookie, made, visits, granted, slips, forgotten,
                   follows, log, copies, events, cursor, last, seen, behind>>

AskForget(t) ==
    /\ ask[t] = "none" /\ page[t] = "open"
    /\ Accepts
    /\ Asking(t)
    /\ Becomes(t, "forget")
    /\ held' = [held EXCEPT ![t] = cookie]
    /\ SessionsOnly
    /\ UNCHANGED <<saved, trusted, codes, url, cookie, page, made, visits, granted, slips, forgotten>>

\* The check of a request, before it waits for the lock.
Check(t) ==
    /\ Up
    /\ \/ /\ ask[t] \in {"renew", "forget"} /\ held[t] \in trusted
          /\ Becomes(t, IF ask[t] = "renew" THEN "renewing" ELSE "forgetting")
          /\ UNCHANGED page
       \/ /\ ask[t] = "renew" /\ held[t] \notin trusted
          /\ Unknown(t)
       \/ /\ ask[t] = "forget" /\ held[t] \notin trusted
          /\ Becomes(t, "none") /\ UNCHANGED page
    /\ SessionsOnly
    /\ UNCHANGED <<saved, trusted, codes, url, cookie, held, made, asks, visits, slips, granted, forgotten>>

\* A code is good once, while the service that made it lives, for a minute.
Redeem(t) ==
    /\ Up
    /\ ask[t] = "pair"
    /\ codes' = codes \ {t}
    /\ \/ /\ t \in codes /\ made < MaxTokens
          /\ made' = made + 1
          /\ held' = [held EXCEPT ![t] = made + 1]
          /\ Becomes(t, "pairing")
          /\ UNCHANGED page
       \/ /\ Becomes(t, "none") /\ Shows(t, "refused")
          /\ UNCHANGED <<held, made>>
    /\ SessionsOnly
    /\ UNCHANGED <<saved, trusted, url, cookie, asks, granted, slips, visits, forgotten>>

MayRenew_Always(t) == TRUE

\* A renewal asks again, now that it has the lock.
MayRenew(t) == held[t] \in trusted

Remembered_Cookie(t) == trusted \cup {cookie}
Remembered_Alone(t) == {held[t]}

\* remember_browser: under the lock, from what the memory holds now.
Remembered(t) == trusted \cup {held[t]}

Remember(t) ==
    /\ Up
    /\ \/ /\ ask[t] = "pairing"
          /\ Save(t, Remembered(t), "paired")
          /\ granted' = granted \cup {held[t]}
          /\ UNCHANGED page
       \/ /\ ask[t] = "renewing" /\ MayRenew(t)
          /\ Save(t, Remembered(t), "renewed")
          /\ UNCHANGED <<granted, page>>
       \/ /\ ask[t] = "renewing" /\ ~MayRenew(t)
          /\ Unknown(t)
          /\ UNCHANGED <<slips, saved, trusted, granted>>
       \/ /\ ask[t] = "pairing" \/ (ask[t] = "renewing" /\ MayRenew(t))
          /\ SaveFails(t, Remembered(t))
          /\ Shows(t, "refused")
          /\ UNCHANGED granted
    /\ UNCHANGED <<svars, changes, codes, url, cookie, held, made, asks, visits, forgotten>>

Forget(t) ==
    /\ Up
    /\ ask[t] = "forgetting"
    /\ granted' = granted \ {held[t]}
    /\ \/ /\ Save(t, trusted \ {held[t]}, "forgot")
          /\ forgotten' = forgotten \cup {held[t]}
       \/ /\ SaveFails(t, trusted \ {held[t]})
          /\ UNCHANGED forgotten
    /\ UNCHANGED <<svars, changes, codes, url, cookie, page, held, made, asks, visits>>

\* The answer reaches the browser with its cookie; a page that may, shows all.
Landed(t) ==
    /\ ask[t] \in {"renewed", "paired"}
    /\ cookie' = held[t]
    /\ Becomes(t, "none") /\ Shows(t, "open")
    /\ url' = url \ {t}
    /\ seen' = [seen EXCEPT ![t] = Range(log)]
    /\ behind' = IF last[t] <= Len(log) THEN behind \ {t} ELSE behind
    /\ UNCHANGED <<svars, saved, trusted, codes, held, made, asks, granted, slips, visits, forgotten,
                   follows, log, copies, events, stream, cursor, pending, last>>

Forgot(t) ==
    /\ ask[t] = "forgot"
    /\ cookie' = 0
    /\ Becomes(t, "none")
    /\ SessionsOnly
    /\ UNCHANGED <<saved, trusted, codes, url, page, held, made, asks, visits, slips, granted, forgotten>>

\* Thirty days have passed since a token was renewed.
Lapse(k) ==
    /\ k \in saved \cup trusted
    /\ saved' = saved \ {k}
    /\ trusted' = trusted \ {k}
    /\ granted' = granted \ {k}
    /\ SessionsOnly
    /\ UNCHANGED <<codes, url, cookie, page, ask, held, made, asks, visits, slips, forgotten>>
-----------------------------------------------------------------------------
(* The stream of changes.                                                  *)

ChangesOnly == UNCHANGED <<svars, sessions>>

\* EventSource connects by itself, and gives up when it is refused.
Connect(t) ==
    /\ t \in follows
    /\ page[t] = "open" /\ stream[t] = "off"
    /\ Accepts
    /\ stream' = [stream EXCEPT ![t] = IF cookie \in trusted THEN "open" ELSE "dead"]
    /\ cursor' = [cursor EXCEPT ![t] = last[t]]
    /\ ChangesOnly
    /\ UNCHANGED <<follows, log, copies, events, pending, last, seen, behind>>

Found_BeforeLast(after) ==
    IF after > Len(log) THEN << [place |-> Len(log), id |-> 0] >>
    ELSE [i \in 1..(IF Len(log) - after - 1 < Batch THEN Len(log) - after - 1 ELSE Batch) |->
            [place |-> after + i, id |-> log[after + i]]]

\* Database::events: the next ones, or a reset for a cursor that is ahead.
Found(after) ==
    IF after > Len(log)
    THEN << [place |-> Len(log), id |-> 0] >>
    ELSE [i \in 1..(IF Len(log) - after < Batch THEN Len(log) - after ELSE Batch) |->
            [place |-> after + i, id |-> log[after + i]]]

Flowing(t) == stream[t] = "open" /\ ~Stopping

Read(t) ==
    /\ Flowing(t)
    /\ pending[t] = <<>>
    /\ cursor[t] # Len(log)
    /\ pending' = [pending EXCEPT ![t] = Found(cursor[t])]
    /\ ChangesOnly
    /\ UNCHANGED <<follows, log, copies, events, stream, cursor, last, seen, behind>>

PlaceSent_OfBatch(t) == pending[t][Len(pending[t])].place

\* The place a frame is sent with, and the browser asks to go on from.
PlaceSent(t) == Head(pending[t]).place

Send(t) ==
    /\ Flowing(t)
    /\ pending[t] # <<>>
    /\ pending' = [pending EXCEPT ![t] = Tail(@)]
    /\ cursor' = [cursor EXCEPT ![t] = PlaceSent(t)]
    /\ last' = [last EXCEPT ![t] = PlaceSent(t)]
    /\ LET reset == Head(pending[t]).id = 0 IN
         /\ seen' = [seen EXCEPT ![t] = IF reset THEN Range(log) ELSE @ \cup {Head(pending[t]).id}]
         /\ behind' = IF reset /\ PlaceSent(t) <= Len(log) THEN behind \ {t} ELSE behind
    /\ ChangesOnly
    /\ UNCHANGED <<follows, log, copies, events, stream>>

StreamEnds(t) ==
    /\ stream' = [stream EXCEPT ![t] = "off"]
    /\ pending' = [pending EXCEPT ![t] = <<>>]
    /\ UNCHANGED <<follows, log, copies, events, cursor, last, seen, behind>>

MayLeave_Sending(t) == stream[t] = "open" /\ Stopping /\ pending[t] # <<>>

\* The flag is looked at before every frame, and every thirty seconds.
MayLeave(t) == stream[t] = "open" /\ Stopping

Leave(t) ==
    /\ MayLeave(t)
    /\ StreamEnds(t)
    /\ ChangesOnly

Drop(t) ==
    /\ stream[t] = "open"
    /\ slips > 0
    /\ slips' = slips - 1
    /\ StreamEnds(t)
    /\ UNCHANGED <<svars, saved, trusted, codes, url, cookie, page, ask, held, made, asks,
                   visits, granted, forgotten>>

\* Any change of the database; each writes an event.
Change ==
    /\ Up
    /\ events > 0
    /\ events' = events - 1
    /\ log' = Append(log, events)
    /\ ChangesOnly
    /\ UNCHANGED <<follows, copies, stream, cursor, pending, last, seen, behind>>

Backup ==
    /\ Up
    /\ copies' = copies \cup {log}
    /\ ChangesOnly
    /\ UNCHANGED <<follows, log, events, stream, cursor, pending, last, seen, behind>>

\* Tabs that know of a place where the backup has another event, or none yet.
Overtaken(copy) ==
    {t \in Tabs : \E p \in {last[t]} \cup {f.place : f \in Range(pending[t])} :
        \E i \in 1..p : i > Len(copy) \/ i > Len(log) \/ copy[i] # log[i]}

Restore(copy) ==
    /\ Up
    /\ events > 0
    /\ events' = events - 1
    /\ log' = Append(copy, events)
    /\ behind' = behind \cup Overtaken(copy)
    /\ ChangesOnly
    /\ UNCHANGED <<follows, copies, stream, cursor, pending, last, seen>>
-----------------------------------------------------------------------------
(* The service comes and goes.                                             *)

\* load_browser_sessions: trust survives in the file, codes do not.
Serves(s) ==
    /\ Serve(s)
    /\ trusted' = saved
    /\ codes' = {}
    /\ UNCHANGED <<changes, saved, url, cookie, page, ask, held, made, asks, visits, slips, granted, forgotten>>

\* A graceful end waits for the requests and streams of every tab.
Closes(s) ==
    /\ Close(s)
    /\ \A t \in Tabs : ask[t] = "none" /\ stream[t] # "open"
    /\ trusted' = {}
    /\ codes' = {}
    /\ UNCHANGED <<changes, saved, url, cookie, page, ask, held, made, asks, visits, slips, granted, forgotten>>

\* A failure cuts them, and with a request its answer.
Fails(s) ==
    /\ Fail(s)
    /\ \/ /\ pc[s] \notin {"serving", "stopping"}
          /\ UNCHANGED <<sessions, changes>>
       \/ /\ pc[s] \in {"serving", "stopping"}
          /\ trusted' = {}
          /\ codes' = {}
          /\ ask' = [t \in Tabs |-> "none"]
          /\ page' = [t \in Tabs |-> IF page[t] = "loading" THEN "refused" ELSE page[t]]
          /\ stream' = [t \in Tabs |-> IF stream[t] = "open" THEN "off" ELSE stream[t]]
          /\ pending' = [t \in Tabs |-> <<>>]
          /\ UNCHANGED <<saved, url, cookie, held, made, asks, granted, slips, visits, forgotten,
                         follows, log, copies, events, cursor, last, seen, behind>>

Request(t) == Check(t) \/ Redeem(t) \/ Remember(t) \/ Forget(t) \/ Landed(t) \/ Forgot(t)
Follow(t) == Connect(t) \/ Read(t) \/ Send(t) \/ Leave(t)
Elsewhere == UNCHANGED <<sessions, changes>>

Next ==
    \/ \E c \in Clients : (ClientStep(c) \/ AskStop(c)) /\ Elsewhere
    \/ \E c \in Clients : Visit(c) \/ \E t \in Tabs : Dashboard(c, t)
    \/ \E s \in Services : (ServiceStep(s) \/ Signal(s)) /\ Elsewhere
    \/ \E s \in Services : Serves(s) \/ Closes(s) \/ Fails(s)
    \/ \E t \in Tabs : Load(t) \/ AskForget(t) \/ Request(t) \/ Follow(t) \/ Drop(t)
    \/ \E k \in Tokens : Lapse(k)
    \/ Change \/ Backup \/ \E copy \in copies : Restore(copy)

\* Clients run, processes go on, requests are handled and streams are served;
\* nobody has to stop, fail, load a page or change anything.
Fairness ==
    /\ \A c \in Clients : WF_vars(ClientStep(c) /\ Elsewhere)
    /\ \A s \in Services : WF_vars((ServiceStep(s) /\ Elsewhere) \/ Serves(s) \/ Closes(s))
    /\ \A t \in Tabs : WF_vars(Request(t)) /\ WF_vars(Follow(t))

Spec == Init /\ [][Next]_vars
FairSpec == Spec /\ Fairness
-----------------------------------------------------------------------------
(* Properties.                                                             *)

\* A session that was forgotten is never trusted again, neither by the
\* service that forgot it nor by one that reads the file, also if the same
\* cookie was being renewed in another tab.
ForgottenStaysOut == forgotten \cap (saved \cup trusted) = {}

\* A paired browser stays trusted until its session lapses or it asks to be
\* forgotten: whatever else is paired, renewed or forgotten meanwhile, when
\* writes fail, and across stops and failures of the service.  This is what
\* load_browser_sessions and README.md:131 (trust outlives a restart and lasts
\* 30 days) say; contracts/workbench-api.md:10 says the opposite (eight hours,
\* and not across restarts).
TrustSurvives == granted \subseteq saved /\ (Up => granted \subseteq trusted)

\* Who is trusted is who was paired, neither more nor fewer.
SessionsRight == ForgottenStaysOut /\ TrustSurvives

\* A tab has the effect of every event up to the place it would go on from,
\* with streams that break between frames and services that go between them;
\* a restore may take places back, until a reset or a new page makes up for it.
NothingSkipped ==
    \A t \in Tabs \ behind :
        page[t] = "open" => last[t] <= Len(log) /\ \A i \in 1..last[t] : log[i] \in seen[t]

\* While there is a service again and again, an open page comes to know of
\* every change, unless its session is no more.
ChangesArrive ==
    \A t \in Tabs :
        t \in follows /\ []<>Accepts =>
            []<>(page[t] # "open" \/ stream[t] = "dead" \/ t \in behind \/ last[t] = Len(log))
=============================================================================
