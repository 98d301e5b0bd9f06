---------------------------- MODULE LiveUpdates ----------------------------
(***************************************************************************)
(* The dashboard in the browser and what keeps it up to date:              *)
(*   server.py                broadcast_event, sse_event_bus, sse_endpoint *)
(*   ui/app.py                dashboard, dashboard_partial                 *)
(*   services/webhook_handler.py, which writes rows and then broadcasts    *)
(*   dashboard.html           the script of the page, run at every visit   *)
(*   app.js, base.html        hx-boost: a visit ends, its document stays   *)
(*                                                                         *)
(* A row's content is the number of the write that gave it, 0 if there is  *)
(* no row.  The counters of a page are a function of the rows they count   *)
(* and stand for the whole of them.                                        *)
(***************************************************************************)
EXTENDS EventBus

CONSTANTS
  Filters,     \* what a page may select: all rows, or those of a repository
  PageSize,    \* the rows a page comes with at most
  MaxRequests  \* bound: refreshes of one tab under way at a time

ASSUME FiltersAssumption == Row \in Filters /\ Filters \subseteq SUBSET Row
ASSUME BoundsAssumption == PageSize \in Nat /\ MaxRequests \in Nat

VARIABLES
  stored,    \* Row -> content of ci_runs
  select,    \* Page -> the rows of the repository its selector names
  filter,    \* Page -> the rows of the repository its stream was opened for
  asking,    \* Page -> is a request for the list of repositories under way?
  screen,    \* Page -> the rows it shows
  counters,  \* Page -> the rows its counters stand for
  timers,    \* Page -> what the selectors of earlier visits name
  asked,     \* Page -> what refreshes under way ask for
  reply,     \* Page -> answers to refreshes, on their way
  seed,      \* Page -> ci-history-seeded, and the request it stands for
  answer     \* Page -> the answer to that request, if it is on its way

choice == <<select, filter, asking>>
shown == <<screen, counters>>
requests == <<timers, asked, reply>>
seeding == <<seed, answer>>
browser == <<choice, shown, requests, seeding>>
vars == <<busVars, stored, browser>>

Table == [Row -> 0 .. MaxWrites]

TypeOK ==
  /\ BusTypeOK
  /\ stored \in Table
  /\ select \in [Page -> Filters] /\ filter \in [Page -> Filters]
  /\ asking \in [Page -> BOOLEAN]
  /\ screen \in [Page -> Table] /\ counters \in [Page -> Table]
  /\ timers \in [Page -> SUBSET Filters] /\ asked \in [Page -> SUBSET Filters]
  /\ reply \in [Page -> SUBSET Table]
  /\ seed \in [Page -> {"due", "asked", "done"}]
  /\ answer \in [Page -> AtMostOne(Table)]

Empty == [r \in Row |-> 0]

Init ==
  /\ BusInit
  /\ stored = Empty
  /\ select = [p \in Page |-> Row] /\ filter = [p \in Page |-> Row]
  /\ asking = [p \in Page |-> FALSE]
  /\ screen = [p \in Page |-> Empty] /\ counters = [p \in Page |-> Empty]
  /\ timers = [p \in Page |-> {}] /\ asked = [p \in Page |-> {}]
  /\ reply = [p \in Page |-> {}]
  /\ seed = [p \in Page |-> "due"] /\ answer = [p \in Page |-> {}]

-----------------------------------------------------------------------------
(* The server writes *)

Write(r) ==
  /\ Announce(r)
  /\ stored' = [stored EXCEPT ![r] = writes']
  /\ UNCHANGED browser

\* update_status finds no row, and the broadcast follows all the same.
UpdateMisses(r) ==
  /\ Announce(r)
  /\ stored[r] = 0
  /\ UNCHANGED <<stored, browser>>

\* The history seed and the write before the agent is marked at work.
WriteQuietly(r) ==
  /\ Quiet
  /\ stored' = [stored EXCEPT ![r] = writes']
  /\ UNCHANGED browser

\* Eviction and clear history.
Delete(R) ==
  /\ Quiet
  /\ stored' = [r \in Row |-> IF r \in R THEN 0 ELSE stored[r]]
  /\ UNCHANGED browser

-----------------------------------------------------------------------------
(* sse_endpoint, and what the page does with what it sends *)

Selected(f) == [r \in Row |-> IF r \in f THEN stored[r] ELSE 0]

\* The page hears of it and calls loadRepos.
OpenStream(p) ==
  /\ Connect(p)
  /\ asking' = [asking EXCEPT ![p] = TRUE]
  /\ UNCHANGED <<stored, select, filter, shown, requests, seeding>>

HearNotice(p) == TakeNotice(p) /\ UNCHANGED <<stored, browser>>

\* A slip: the counts are those of all rows.
SendAllCounts(p) == counters' = [counters EXCEPT ![p] = stored]

\* _metrics_snapshot, read and sent at once.
SendCounts(p) == counters' = [counters EXCEPT ![p] = Selected(filter[p])]

\* The row goes out whatever the page selects, with the status of the notice,
\* and the counts after it.
ShowNotice(p) ==
  /\ Send(p)
  /\ \E notice \in taken[p] :
       screen' = [screen EXCEPT ![p][notice.row] = notice.content]
  /\ SendCounts(p)
  /\ UNCHANGED <<stored, choice, requests, seeding>>

Timeout(p) ==
  /\ Idle(p)
  /\ SendCounts(p)
  /\ UNCHANGED <<stored, choice, screen, requests, seeding>>

-----------------------------------------------------------------------------
(* The page *)

\* The page comes with the most recent rows and with counters of its own, which
\* leave rows at work out; its script asks for the repositories, and in a new
\* tab for the history, and then connects.
LoadPage(p) ==
  /\ Open(p)
  /\ \E R \in SUBSET Row : /\ Cardinality(R) <= PageSize
                           /\ screen' = [screen EXCEPT ![p] = Selected(R)]
  /\ \E R \in SUBSET Row : counters' = [counters EXCEPT ![p] = Selected(R)]
  /\ asking' = [asking EXCEPT ![p] = TRUE]
  /\ seed' = [seed EXCEPT ![p] = IF @ = "due" THEN "asked" ELSE @]
  /\ UNCHANGED <<stored, select, filter, requests, answer>>

\* htmx swaps the body and app.js closes the stream.  The timer of the visit
\* goes on with the selector it knows, refreshes under way find the table of a
\* later visit, and the history is shown to nobody.
LeavePage(p) ==
  /\ HangUp(p, "away")
  /\ select' = [select EXCEPT ![p] = Row] /\ filter' = [filter EXCEPT ![p] = Row]
  /\ asking' = [asking EXCEPT ![p] = FALSE]
  /\ screen' = [screen EXCEPT ![p] = Empty] /\ counters' = [counters EXCEPT ![p] = Empty]
  /\ timers' = [timers EXCEPT ![p] = @ \cup {select[p]} \cup (IF asking[p] THEN {Row} ELSE {})]
  /\ seed' = [seed EXCEPT ![p] = "done"] /\ answer' = [answer EXCEPT ![p] = {}]
  /\ UNCHANGED <<stored, asked, reply>>

\* A reload, from another page or after leaving this one, or the tab is closed
\* and opened again: the document goes, with its timers and requests.
Unload(p) ==
  /\ stream[p] = "away"
  /\ timers' = [timers EXCEPT ![p] = {}] /\ asked' = [asked EXCEPT ![p] = {}]
  /\ reply' = [reply EXCEPT ![p] = {}]
  /\ seed' \in {seed, [seed EXCEPT ![p] = "due"]}
  /\ UNCHANGED <<busVars, stored, choice, shown, answer>>

\* The network fails; EventSource connects again.
Disconnect(p) ==
  /\ stream[p] # "closed"
  /\ HangUp(p, "closed")
  /\ UNCHANGED <<stored, browser>>

\* connectSse with another repository; the request for its rows is Refresh.
Select(p, f) ==
  /\ f # select[p]
  /\ HangUp(p, "closed")
  /\ select' = [select EXCEPT ![p] = f] /\ filter' = [filter EXCEPT ![p] = f]
  /\ UNCHANGED <<stored, asking, shown, requests, seeding>>

\* loadRepos takes the options away and puts new ones in their place, which
\* leaves the selector at "All Repositories"; an error leaves it alone.
ReposAnswer(p) ==
  /\ asking[p]
  /\ asking' = [asking EXCEPT ![p] = FALSE]
  /\ select' \in {select, [select EXCEPT ![p] = Row]}
  /\ UNCHANGED <<busVars, stored, filter, shown, requests, seeding>>

\* A slip: a mark of its own for the request that failed.
SeedMarksFailure(p) ==
  /\ seed[p] = "asked"
  /\ \/ /\ seed' = [seed EXCEPT ![p] = "done"]
        /\ answer' = [answer EXCEPT ![p] = {stored}]
     \/ seed' = [seed EXCEPT ![p] = "failed"] /\ UNCHANGED answer
  /\ UNCHANGED <<busVars, stored, choice, shown, requests>>

\* seed_run_history: all rows, whatever the page selects by then, or an error.
SeedAnswer(p) ==
  /\ seed[p] = "asked"
  /\ seed' = [seed EXCEPT ![p] = "done"]
  /\ answer' \in {answer, [answer EXCEPT ![p] = {stored}]}
  /\ UNCHANGED <<busVars, stored, choice, shown, requests>>

ShowSeed(p) ==
  /\ \E rows \in answer[p] : screen' = [screen EXCEPT ![p] = rows]
  /\ answer' = [answer EXCEPT ![p] = {}]
  /\ UNCHANGED <<busVars, stored, choice, counters, requests, seed>>

\* The selectors whose timer runs in this tab.
Selectors(p) == timers[p] \cup (IF stream[p] = "away" THEN {} ELSE {select[p]})

\* A slip: the periodic request is left to times without a stream.
RefreshWhenClosed(p) ==
  /\ stream[p] = "closed"
  /\ Cardinality(asked[p]) + Cardinality(reply[p]) < MaxRequests
  /\ \E f \in Selectors(p) \ asked[p] : asked' = [asked EXCEPT ![p] = @ \cup {f}]
  /\ UNCHANGED <<busVars, stored, choice, shown, timers, reply, seeding>>

\* Every five minutes, on each timer, or for a selection.
Refresh(p) ==
  /\ Cardinality(asked[p]) + Cardinality(reply[p]) < MaxRequests
  /\ \E f \in Selectors(p) \ asked[p] : asked' = [asked EXCEPT ![p] = @ \cup {f}]
  /\ UNCHANGED <<busVars, stored, choice, shown, timers, reply, seeding>>

\* dashboard_partial.
AnswerRefresh(p) ==
  /\ \E f \in asked[p] : /\ asked' = [asked EXCEPT ![p] = @ \ {f}]
                         /\ reply' = [reply EXCEPT ![p] = @ \cup {Selected(f)}]
  /\ UNCHANGED <<busVars, stored, choice, shown, timers, seeding>>

\* The whole table of the page the tab shows by now is replaced, whatever came
\* over the stream meanwhile.
ShowReply(p) ==
  /\ \E rows \in reply[p] :
       /\ reply' = [reply EXCEPT ![p] = @ \ {rows}]
       /\ screen' = IF stream[p] = "away" THEN screen ELSE [screen EXCEPT ![p] = rows]
  /\ UNCHANGED <<busVars, stored, choice, counters, timers, asked, seeding>>

RefreshFails(p) ==
  /\ \E f \in asked[p] : asked' = [asked EXCEPT ![p] = @ \ {f}]
  /\ UNCHANGED <<busVars, stored, choice, shown, timers, reply, seeding>>

-----------------------------------------------------------------------------
Writer ==
  \/ \E r \in Row : Write(r) \/ UpdateMisses(r) \/ WriteQuietly(r)
  \/ \E R \in SUBSET Row \ {{}} : Delete(R)

Stream(p) == OpenStream(p) \/ HearNotice(p) \/ ShowNotice(p) \/ Timeout(p)

Fetch(p) ==
  \/ Refresh(p) \/ AnswerRefresh(p) \/ ShowReply(p)
  \/ ReposAnswer(p) \/ SeedAnswer(p) \/ ShowSeed(p)

User(p) ==
  \/ LoadPage(p) \/ LeavePage(p) \/ Unload(p) \/ Disconnect(p)
  \/ \E f \in Filters : Select(p, f)
  \/ RefreshFails(p)

\* What no page sees: the bus and the generators of pages that are gone.
Unseen ==
  /\ \/ \E notice \in due : Broadcast(notice)
     \/ GhostTakes \/ GhostEnds
  /\ UNCHANGED <<stored, browser>>

Next ==
  \/ Writer
  \/ \E p \in Page : Stream(p) \/ Fetch(p) \/ User(p)
  \/ Unseen

\* The event loop and the timers run, and a request that is made again and again
\* does not fail every time; nobody has to write, load or leave.
Fairness ==
  /\ WF_vars(\E notice \in due : Broadcast(notice) /\ UNCHANGED <<stored, browser>>)
  /\ \A p \in Page : /\ WF_vars(Stream(p))
                     /\ WF_vars(Refresh(p)) /\ SF_vars(AnswerRefresh(p)) /\ WF_vars(ShowReply(p))

Spec == Init /\ [][Next]_vars /\ Fairness

-----------------------------------------------------------------------------
(* What a page may rely on *)

\* The page shows what it selects of the table, and nothing on its way to it
\* says otherwise: no notice that is due, on the bus or in its generator's
\* hands, no timer or answer of an earlier selection, and no history.
UpToDate(p) ==
  /\ stream[p] # "away"
  /\ screen[p] = Selected(select[p]) /\ counters[p] = Selected(filter[p])
  /\ due = {} /\ bus = <<>> /\ taken[p] = {}
  /\ timers[p] \cup asked[p] \subseteq {select[p]}
  /\ reply[p] \cup answer[p] \subseteq {Selected(select[p])}
  /\ seed[p] = "asked" => select[p] = Row

\* Only a write to the table, another selection or leaving the page undoes that.
StaysUpToDate ==
  \A p \in Page :
    /\ UpToDate(p)
    /\ UNCHANGED <<writes, select[p], filter[p]>> /\ stream'[p] # "away"
    => UpToDate(p)'

\* A page that has caught up goes on showing the table until somebody writes to
\* it or another repository is selected: no timeout of sse_endpoint, answer of
\* dashboard_partial, late history, reconnection or other page shows it anything
\* older, and nothing else could but what UpToDate excludes.
AgreementStays == [][StaysUpToDate]_vars

\* The timers of earlier visits ask for what this visit shows.
TimersAgree(p) == timers[p] \subseteq {select[p]}

\* A page that stays open comes to agree with the table: its counters with the
\* rows its stream was opened for, and its rows with what its selector says, if
\* no earlier visit refreshes them with another selection; whatever notices went
\* to another page, came late, were about rows it does not select, or never
\* existed, and whatever late answers it was given.
PagesCatchUp ==
  \A p \in Page : Stays(p) =>
    /\ <>[](counters[p] = Selected(filter[p]))
    /\ <>[]TimersAgree(p) => <>[](screen[p] = Selected(select[p]))

-----------------------------------------------------------------------------
(* What comments say and the code does not do. *)

\* "Periodic full-state refresh as fallback": sooner or later every page that
\* stays open shows what it selects, whatever earlier visits selected.
EveryVisitCatchesUp ==
  \A p \in Page : Stays(p) => <>[](screen[p] = Selected(select[p]))

\* "Reconnect SSE with new repo filter": the stream is that of the selection.
StreamIsSelected == \A p \in Page : stream[p] # "away" => filter[p] = select[p]
=============================================================================
