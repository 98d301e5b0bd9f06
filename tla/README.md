# CI Review Agent: models, checks and proofs

This directory holds a TLA+ development of the CI Review Agent, a FastAPI
service that receives webhooks of failing CI runs, lets a LangGraph agent write
a fix with a language model, pushes it, and retries when the fix fails too.
File names below are relative to the root of the repository.

## 1. The system

| component | state | operations | interacts with |
|---|---|---|---|
| webhook ingestion: `server.py` endpoints, `services/webhook_models.py`, `services/webhook_verify.py` | none | verify, parse Forgejo or GitHub payload, dispatch | calls the handler |
| **webhook handler**: `services/webhook_handler.py` | `_active_tasks` (in memory), the locals of each task | `dispatch_webhook_event`, `handle_webhook_event`: duplicate check, bot detection, session matching, rerun check, agent call, write-back | tables, agent, dashboard bus, CI provider |
| **run tracker**: `services/run_tracker.py` | SQLite tables `ci_runs`, `ci_sessions` | record, update, queries, create/update session, TTL eviction, clear | handler, dashboard, history seed |
| **agent graph**: `graph.py`, `nodes.py`, `main.py` | the graph state of one run | clone info, fetch logs and sources, ask the model, patch and push, escalate | git, provider, rate limiter |
| **git workspace**: `services/git_manager.py` | a temporary clone | clone, overwrite files, commit, push | the remote branch |
| **rate limiter**: `services/rate_limiter.py` | token bucket shared by the process | acquire, refill, retry with backoff | every model call |
| **dashboard**: `ui/app.py` | rows of `ci_runs`, a listing while a seed is under way | history seed, clear history, test runs, queries | tables (over the tasks' heads), provider, bus |
| **live updates**: `server.py`, the script of `dashboard.html` | one unbounded queue, a generator for each connection; in the browser the rows, the counters, a selection, timers and requests under way | broadcast, stream, refresh, select a repository, seed the history | handler, tables |
| CI waiter: `services/ci_waiter.py` | futures by repository and commit | wait, notify | nothing in the repository waits |
| **discovery**: `services/repo_discovery.py` | a TTL cache, one entry for each scope | discover, seed | provider, settings |
| **settings**: `config.py`, `services/env_writer.py`, `setup_wizard.py`, `ui/app.py` | `settings` in memory, `.env` | start, wizard, save, dismiss | everything |
| authentication: `services/auth.py` | sessions in memory | create, validate, destroy | dashboard |
| the rest: CI and LLM clients, alerts, log parser, commit message, badges | none | HTTP requests, formatting | |

What makes the system correct, and what is hard about it:

* **Retry loop.** Each webhook is an asyncio task; every `await` of a database
  call lets other tasks run. The loop must be bounded, must match the bot's
  commits to the session they belong to, must not claim a green build that did
  not happen, must not put two agents to work for one session, and must not
  leave a run in `AGENT_WORKING`. Webhooks come late, twice, or not at all;
  several workflows run for one commit; the process may be restarted.
* **Agent.** It reads sources at the failing commit and writes whole files
  over the branch HEAD, which may have moved on; the push may be rejected.
  It must come to an end, account for the outcome, and push at most once.
* **Rate limiter.** Sleepers are woken by the clock, not in a queue, and take
  each other's tokens; retries come back into the same bucket.
* **Dashboard.** Its requests write and delete rows of runs the handler is
  working on, from a listing that ages while it is recorded, and look at
  neither `_active_tasks` nor `ci_sessions`. What the rows claim must stay true.
* **Live updates.** All generators take from one queue; notices come later than
  the writes they tell of, or never; a connection that is gone goes on taking.
  Links are boosted, so that a page is left without its document: timers and
  requests of earlier visits go on and find the table of later ones.
  An open page must come to agree with the table all the same.
* **Settings and discovery.** Two programs write one file with two spellings of
  each name, memory and file change one after the other, and the settings change
  while a discovery for the old ones awaits its answer. A save must be what the
  next start reads, and a caller must get what it asked for, not too old.

## 2. Modules

| module | models | what it is |
|---|---|---|
| `WebhookEvents` | `services/webhook_models.py`, the predicates of the handler on one event | commits, run keys, events as the parsers produce them, `Payload`, `BotTerminalStatus`, `IsFailure` |
| `RunTracker` | `services/run_tracker.py` | the two tables and the effect of each query and update as operators |
| `WebhookHandler` | `services/webhook_handler.py`, the endpoints of `server.py` | one action per stretch of code between two awaits; the provider, people and restarts around it |
| `RetrySession` | the promise of the retry loop | fixes pushed for an open session within a budget, one justified verdict |
| `HandlerProperties`, `MCWebhookHandler`, `HandlerTheorems`, `SessionTheorems` | | properties, model values, proofs |
| `AgentRun` | `graph.py`, `nodes.py`, `main.py`, `services/git_manager.py` | several graph runs on one branch, one action per node or per await of a node |
| `AgentContract` | what the handler assumes of `run_agent` | at most one commit, then one report |
| `AgentProperties`, `MCAgentRun`, `AgentTheorems` | | properties, model values, proofs |
| `RateLimiter` | `services/rate_limiter.py`, the settings page of `ui/app.py` | the bucket and the calls around it, with a clock |
| `RateProperties`, `MCRateLimiter`, `RateTheorems` | | properties, model values, proofs |
| `Dashboard` | the writing requests of `ui/app.py`, the seed of `services/repo_discovery.py`, the deletions of `services/run_tracker.py` | extends `WebhookHandler`: both write the same tables |
| `MCDashboard`, `DashboardTheorems` | | model values, proofs |
| `Settings` | `config.py`, `services/env_writer.py`, `setup_wizard.py`, `update_settings` and `dismiss_discovery` of `ui/app.py` | the file as a sequence of lines, and memory |
| `Discovery` | `discover_repos` of `services/repo_discovery.py` | the cache, requests in flight, a clock, and a configuration that may change at any time |
| `Console` | `resolve_scope`, and the two above together | each start, save and dismissal is a change of Discovery's configuration |
| `MCConsole`, `SettingsTheorems`, `ConsoleTheorems` | | texts and forms, proofs |
| `EventBus` | `broadcast_event` and `sse_endpoint` of `server.py` | the bus and a generator for each connection, with their own specification |
| `LiveUpdates` | `dashboard`, `dashboard_partial` and `seed_run_history` of `ui/app.py`, the script of `dashboard.html`, `app.js` | extends `EventBus`: the table, and a browser tab at the end of each connection |
| `MCEventBus`, `MCLiveUpdates`, `LiveTheorems` | | model values, proofs |

`PROJECT.json` maps each definition to its lines. Definitions whose comment
begins with "A slip" are plausible mistakes in the code; they take the place of
the definition after them to show that the properties can fail.

### Handler

`runs` and `sessions` are the tables, keyed by run attempt and by human commit
(the session's id is its commit: ids and head shas determine each other).
`guard` is `_active_tasks`, less the tasks that are `done()`. For each task,
`pc` names the call it is about to make; `ev` is the webhook, `sid` the session
it holds, `count` its *copy* of `attempt_count`, `tgt` the row it reports to,
`out` the status it is about to write, `fix` the commit its agent pushed. The
order of the calls is the order in the source, and a value read in one action
is used, possibly stale, in later ones. `Unpushed` is the sha of a commit whose
push was rejected: the agent reports it, and the handler stores it, like any
other. `BotSends` says whose commits' webhooks may name the bot's account as
their sender, which is enough to be taken for the bot's (`RecognisedAsBot`).

| action | code |
|---|---|
| `Deliver`, `Dispatch`, `DispatchDropped` | endpoint, `dispatch_webhook_event` |
| `CheckDuplicate` | `is_duplicate` and the early returns |
| `RecognisedAsBot`, `TreatAsHuman` | author resolution, `is_bot_commit` |
| `MatchNothing`, `MatchSession`, `RecordSkippedBot` | `get_session_by_fix_sha` and its branches |
| `CloseSession`, `FindRow`, `UpdateRow` | PASSED and EXHAUSTED, `_update_session_run` |
| `ResolveTarget`, `CheckRerun`, `TrackOnly` | target row, `is_completed`, `auto_fix_reruns` |
| `WriteEventStatus`, `FindSession`, `CreateSession`, `SetMaxAttempts`, `MarkWorking` | from the failure gate to `AGENT_WORKING` |
| `AgentPushes`, `AgentLosesPush`, `AgentGivesUp`, `AgentRaises` | `run_agent`, by its outcome |
| `WriteFinalStatus`, `UpdateSession`, `WriteErrorStatus`, `Finally` | write-back, `except`, `finally` |

The environment: `HumanPush`, `RunConcludes`, `Rerun` (a further attempt of a
concluded run), `Deliver` (any fact, late, up to `MaxDeliveries` times) and
`Crash`, which ends all tasks and empties `_active_tasks` but not the tables.

Left out: text in rows (messages, logs, timestamps), alerts, and errors of the
database itself; broadcasts are in `LiveUpdates`. One repository and one
branch are modelled, as every table key contains the repository.

### Agent

`tree[c][f]` is the version of file `f` in commit `c`, as the set of commits
whose edits it contains; this is all that is needed to say that an edit is
lost. The model names files (`Name`), and `FileOf` says where the path of a name
leads: `Written` is `apply_file_changes`, which looks for the *name* among the
forbidden ones and writes the file. One name that leads out of the workspace, and
nothing is committed (`Dirty`). `loop` is the run that blocks the event loop: from the model's
answer to the push the code does not await. `FetchLogsAndAlert` reads
`sources` at `base`, `Patched` overlays the proposal on the clone, `FastForward`
is the remote's rule, `PushRejected` the case the code does not see.
`attempt` saturates at the budget: it is only ever compared with it.

### Rate limiter

Time is counted in ticks, tokens in shares of 1/`Minute`, so that a tick adds
`rate` shares and the arithmetic of the code, which is on floats, is exact.
Sleeps end at the next tick. `granted` and `span` are a history: the calls let
through, and the ticks gone by, since a moment that any tick may choose; an
invariant about them is one about *every* window of time.
Only the rate is changed at run time, by `UpdateSettings`; other
settings are constants.

### Dashboard

`DashboardNext` is the handler's `Next` or a request. `listing` is what a
history seed fetched and has not recorded yet, `tests` the test runs whose two
seconds are not over, `visits` counts requests.

| action | code |
|---|---|
| `FetchHistory`, `SeedRow`, `SeedFails` | `seed_history`: one listing, then one await for each row, the rest dropped at an error |
| `Evict` | `_evict_expired`: any rows, at any read, as no clock is modelled |
| `ClearHistory` | `clear_history`: all rows, no session |
| `StartTestRun`, `FinishTestRun` | `trigger_test_run`, whose run id may be that of a run |
| `Restart` | the handler's `Crash`, which ends these requests too |

### Settings, discovery and the console

A line of `.env` is a record: its setting, whether its name is in capitals
(the wizard writes those, the console writes small letters, a start reads both
and the last line wins), its text, and whether the text is quoted. `Cut` says
what is read of a text that is not quoted (" #" begins a comment). `settings`
is memory, `asked` a history: what the console was last asked to save. `Save`
is `update_settings`, `Dismiss` is `dismiss_discovery` with one setting or two and
its failing write (`unsaved` has what it set in memory only),
`Wizard` is `run_wizard`, a program of its own that may also run while the
server does. Comment lines, references to variables in a text (`${...}`), and
environment variables, which take precedence over the file, are left out.

In `Discovery` a request (`call[c]`) takes the time and reads scope and token
(`AskProvider`), waits for the provider (`ProviderReads`), and files the result,
or the error, under the scope it asked for (`ReturnResult`); `ServeCached` is
the way past the provider. A configuration without a token returns at once and
changes nothing, so it has no action. A result is the moment it was true, its
scope and its token, not a list of repositories. One platform is
modelled: entries of two platforms share nothing. `clear_discovery_cache` is
called by tests only. `Console` computes Discovery's configuration from the
settings (`ResolveScope`, less the `strip` and `lower` it applies to texts) and
does nothing else to it (`ConsoleDiscovers` in section 4), so that the theorems
about `Discovery` hold of the console.

### Live updates

The content of a row is the number of the write that gave it, 0 if there is no
row, so that two contents are equal only if nothing was written in between. The
counters of a page are a function of the rows they count and stand for all of
them. In `EventBus`, `due` holds notices whose row is written and whose broadcast
is to come, `stream` says where a generator has got to, `ghosts` counts those that
wait for somebody who is gone; `pending` is a history, the notices broadcast less
those sent. Each action of `LiveUpdates` is one of `EventBus`, or none, and what the
browser makes of it.

| action | code |
|---|---|
| `Write`, `UpdateMisses` (`Announce`) | a write of the handler that is followed by `broadcast_event`, also when there was no row to update |
| `WriteQuietly`, `Delete` (`Quiet`) | writes nobody is told of: the seed, the handler's write before `AGENT_WORKING`, eviction, clear history |
| `Broadcast` | `broadcast_event` |
| `HearNotice`, `ShowNotice`, `Timeout` (`TakeNotice`, `Send`, `Idle`) | the loop of `sse_endpoint`; the snapshot is read and sent at once |
| `GhostTakes`, `GhostEnds` | a generator that waits for a page that is gone, and finds out at the next thing it sends |
| `LoadPage` (`Open`) | `dashboard`: at most `PageSize` rows, then the page's script |
| `OpenStream` (`Connect`), `Disconnect`, `Select` (`HangUp`) | `EventSource`, `connectSse` for a repository |
| `LeavePage` (`HangUp`) | a boosted link: `app.js` closes the stream, the body is swapped, the document stays |
| `Unload` | a reload, or a tab closed and opened again: the document goes |
| `Refresh`, `AnswerRefresh`, `ShowReply`, `RefreshFails` | `dashboard_partial`, every five minutes and after a selection |
| `SeedAnswer`, `ShowSeed` | `seedHistoryOnce`, once for each tab, and its late answer |
| `ReposAnswer` | `loadRepos`, which sets the selector back to all repositories |

A `get` on a queue that has something does not wait, so `Timeout` needs an empty
bus. A notice goes to the page whatever it selects; counters and refreshes are
those of a selection: the counters of the one the stream was opened for
(`filter`), refreshes of what a selector says (`select`). The two differ once
`loadRepos`, which each connection calls, has set the selector back.
`timers` are the selectors of earlier visits, detached from the document and
read by their timers for ever; `Selectors` are all whose timer runs.

`LoadPage` leaves open which rows are the most recent ones (ten in the code), and
which of them its counters, which leave out rows at work, stand for. One request
for the repositories stands for all that overlap; leaving while it is under way
leaves a timer for its outcome and one for the selection before. A refresh htmx
makes for a selection is taken for one of a timer. Left out: pages the browser
restores from its history, the page of all runs (whose table has the same name,
so that the timers rewrite it as well), and the request for the repositories
after a dismissal.

## 3. Runs

Handler, passing (`MCWebhookHandler`):

| run | question | bounds |
|---|---|---|
| `retry_loop` | Is the handler a retry session, with one agent and one task at a time, when each fact arrives once? | 3 tasks, 4 commits (first failure, the two fixes a budget of 3 allows, and one to spare), results success and failure, announced runs (an announcement may come after the result, which is tracked only: `AutoFixReruns = FALSE`), lost pushes, column default unlike the setting |
| `two_sessions` | Do the lineages of two human commits stay apart, and are sessions people's only? | 2 tasks, 3 commits, all results, lost pushes, any sender, a restart |
| `two_workflows` | What survives two agents in one session, and does `AGENT_WORKING` end? | 2 tasks, 2 workflows, 2 commits, fair, lost pushes |
| `reruns` | second attempts, unknown authors, any sender, lost pushes, reruns only tracked | 2 tasks, 2 commits, 2 attempts |

Properties: `Lineage` (two_sessions, reruns), `GreenBuild` (two_workflows,
reruns), `WorkingHasWorker` (two_workflows, dashboard), `OneAgentPerSession`,
`AttemptsCountPushes`, `ExhaustedHasFailed`, `OneTaskPerRun` (retry_loop),
`RefinesRetrySession` (retry_loop, two_sessions), `SessionIsHuman` (two_sessions),
`WorkEnds` (two_workflows). Each is checked where it has most to fear. Some hold
only in some worlds: `OneAgentPerSession`, `OneTaskPerRun`, `ExhaustedHasFailed`
and the refinement for one workflow without reruns and redelivery
(`AttemptsCountPushes` there, and until a restart; `ExhaustedHasFailed` there, and
where no run is cancelled), `SessionIsHuman` if authors
can be resolved, `WorkEnds` and `WorkingHasWorker` until a restart. `Lineage` and
`GreenBuild` hold everywhere; what `Lineage` says of a session that remembers the
sha of a rejected push is only that no commit of the branch is taken for it.
Restarts are in `two_sessions` and `dashboard`; repeated webhooks are in
`dashboard`, beside its own requests.
Section 4 proves each in the world named here, but
for `WorkEnds`.

Agent (`MCAgentRun`): `agent_runs` has two graph runs on one branch, two files, one
of which has two names and is forbidden under one of them, and three commits, so that both may push and people
push before, between and after. It checks `EndedIsAccounted`,
`TouchesOnlyProposal`, `RefinesContract` and, under fairness, `RunsEnd`. The
budget is 1 there, as no status that leads back into the graph exists: the
attempt is only compared with the budget on that route.

Rate limiter (`MCRateLimiter`): `rate_limit` has two calls in contention for a
bucket of one token, on or off, a minute of five ticks so that the rate does
not divide it, and a `max_wait` shorter than a token takes. It checks
`WindowBound`, `NoOversleep` and, under fairness, `EveryCallEnds`.

Dashboard (`MCDashboard`): `dashboard` has two tasks, two commits, Forgejo
payloads delivered up to twice, one restart anywhere and two visits (a seed and a
deletion, a test run and a seed, and so on). It checks `SuccessIsTrue`,
`OneRowLifecycle`, `PassedSessionIsGreen` and `WorkingHasWorker`: which claims
survive writers that guard nothing. The rows' part of `GreenBuild` does not.

Console (`MCConsole`): `console` has seven settings, eight forms (texts with a
comment sign, an empty number and one that is none among them), two saves, three
starts, and one discovery request at a time with a TTL of one tick out of two. It
checks `SavedSurvivesRestart`, `RestartChangesNothing`, `StartsAgain`,
`NotTooOld` and `ScopeIsHonest`. `RestartChangesNothing` goes setting by setting and
leaves out a text that is not read back as it is and what a dismissal failed to
write; the table below says what becomes of those. Two saves reach every order of a first and a
second line for one setting, three starts one between and one after them. The
overlap of several requests, which is out of TLC's reach beside the settings, is
left to the proofs, which hold for any number.

Live updates: `event_bus` (`MCEventBus`) has three pages, so that one takes what
the others need, three writes, and two connections that end. It checks
`NoticesAccounted` and, under fairness, `BusDrains`. `live_updates` (`MCLiveUpdates`)
has one tab, a row that is selected or not, two writes, so that one may overtake
the other's notice, and two ends of a connection: a selection and a boosted link
leave the timer of another selection, two links lead through three visits. One
refresh is under way at a time; two of them, or two tabs, are too many states for
TLC, and what tabs do to each other is what `event_bus` is about. It checks
`AgreementStays` and, under fairness, `PagesCatchUp`, which says of the rows what
can be said while the timers of earlier visits go on. `AgreementStays` is proved
for any number of tabs and requests.

The bounds. Two tasks suffice for every overlap of two handlers, a third lets
one start while two are live; slots are reused, so the number of webhooks is not
bounded by them. One human commit opens one session; a second gives two. Fixes
are bounded by the budget, and `MaxCommits` leaves room for the last one where
the run is about the budget. Systems that reach their bounds stop, hence
`CHECK_DEADLOCK FALSE` in the handler, agent, dashboard and console runs. Tasks are symmetric, and
the runs without liveness say so. The rate limiter's clock and the pages' timers never stop, and their
runs check deadlock.

Fairness. `FairSpec` of the handler has weak fairness of each live task: the
event loop runs what is ready, a database call returns, and `run_agent` returns or
raises. Nothing is assumed of the provider, of people, or of deliveries. The
agent's has weak fairness of each run's own steps: clients have timeouts, git
returns. The limiter's has weak fairness of the clock and of each call whose
sleep is over. Live updates have weak fairness of broadcasts (the writing task goes on), of each
page's generator (a `get` of one second), of its timer (five minutes) and of showing
an answer, and strong fairness of answering: a request made again every five minutes
does not fail each time. Writing, loading, leaving and selecting are as they please.

### What the code does and its documents do not say

Each of these runs checks one statement and finds a behaviour that breaks it;
`PROJECT.json` quotes the line.

| run | statement | what happens |
|---|---|---|
| `fix_skipped` | a bot webhook is consumed iff an active session matches | the fix's sha is stored after `run_agent` returns; a faster CI is skipped |
| `hard_limit` | retries up to a hard limit | two workflows push more fixes than `max_retry_attempts` |

More statements are written down as definitions at the end of the modules and
have no run of their own. TLC finds each of them violated, with the
configuration of the table, changed as it says (`fix_skipped.cfg` if none is
named).

| definition | statement | what happens | change |
|---|---|---|---|
| `NeverResurrected` | never resurrect completed sessions (`run_tracker.py:374`) | a re-run finds the closed session and works for it | two run attempts |
| `SessionIsHuman` | sessions are keyed by the human commit (`run_tracker.py:370`) | an unresolved author makes a bot commit a human one | `ResolveMayFail = TRUE` |
| `RerunsAreTracked` | `auto_fix_reruns` decides about reruns (`config.py:78`) | a second attempt is not recognised as a rerun | two run attempts, `AutoFixReruns = FALSE` |
| `ErrorReenters` | after `error` a fresh webhook re-enters (`run_tracker.py:127`) | it is taken for a rerun and tracked only | two deliveries, `AutoFixReruns = FALSE` |
| `ExhaustedHasFailed` | EXHAUSTED is said of a CI failure (`webhook_handler.py:205`, `PRODUCTION_SPECIFICATION.md:410`) | a bot run that is cancelled counts as a failure (lines 36, 41), which it does not at the gate (line 395): the session is closed after a fix CI did not turn down | `retry_loop.cfg`, `Results <- AllConclusions` |
| `FixOnBranch` | the sha is recorded when the agent pushes (`run_tracker.py:433`) | the sha of a rejected push is recorded too, and no webhook will match it | `retry_loop.cfg` |
| `RetryReachesAgent` | a matched failure re-invokes the agent (`webhook_handler.py:203`) | a cancelled run is matched, then gated out | `Results <- AllConclusions` |
| `OneTaskPerRun` | a run being handled is skipped (`webhook_handler.py:597`) | `finally` pops another task's guard | three tasks, three commits, two deliveries, `SendRunning = TRUE` |
| `OneAgentPerSession` | duplicate delivery is idempotent (`run_tracker.py:373`) | a second agent for the session | three commits, two deliveries, `SendRunning = TRUE` |
| `HumanEditsSurvive` | files are overwritten safely (`PRODUCTION_SPECIFICATION.md:11`) | edits pushed meanwhile are undone | `agent_runs.cfg` |
| `FixPushedLanded` | commit and push (`git_manager.py:171`) | a rejected push is reported as `FIX_PUSHED` | `agent_runs.cfg` |
| `ForbiddenUntouched` | blocks forbidden paths (`git_manager.py:129`) | the spelling is compared with the list, and a second spelling of the file is written | `agent_runs.cfg` |
| `PerMinuteLimit` | never trips a requests-per-minute limit (`config.py:64`) | burst plus refill exceed the rate | `rate_limit.cfg`, three calls, `Burst = 0`, `Rates = {2}` |
| `SettingObeyed` | config changes are picked up (`rate_limiter.py:34`) | the bucket keeps its first rate | `rate_limit.cfg` |
| `WorkEnds` | resume across crashes or server restarts (ADR-001, line 39) | `AGENT_WORKING` for ever | `two_workflows.cfg`, `MaxCrashes = 1` |
| `GreenBuild` | a test run simulates a CI failure (`docs/API.md:58`) | the row of a run says PASSED two seconds later, with no green build | `dashboard.cfg` |
| `ChangesPersist` | changes persist safely into `.env` (`docs/ARCHITECTURE.md:77`) | a dismissal changes two settings in memory before a write that may fail; a text that does not parse, or is cut, is not what memory has | `console.cfg` |
| `TokenIsHonest` | repositories accessible by the CI token (`repo_discovery.py:52`) | the token is not in the key of the cache: the old token's list is served to the new one | `console.cfg` |
| `EveryPageHears` | state changes are broadcast to connected clients (`server.py:56`) | one page takes the notice, the others do not | `event_bus.cfg` |
| `EveryVisitCatchesUp` | periodic full-state refresh as fallback (`dashboard.html:639`) | the timer of an earlier visit rewrites the rows with its own selection, again and again | `live_updates.cfg` |
| `StreamIsSelected` | reconnect with the new filter (`dashboard.html:411`) | each connection reloads the list of repositories, which sets the selector back, and the stream keeps its filter | `live_updates.cfg` |

Other disagreements, met while modelling and not stated as formulas:

* `broadcast_event` handles `QueueFull`, which an unbounded queue never raises.
* The latest status of a repository (`ui/app.py:380`) is that of its oldest run,
  and the statuses that count as broken do not include `failure`.
* A page is loaded with counters of `processing` rows, and then updated with counters
  that include `AGENT_WORKING`.
* The history seed is "called once on dashboard page load" (`ui/app.py:521`), by
  every page.
* The TTL "retains completed runs" (`config.py:80`), but evicts runs in any status;
  it is read once, at import (`run_tracker.py:534`).
* Settings "persist" (`docs/ARCHITECTURE.md:77`, `docs/API.md:80`); a text with
  " #" that is appended is cut at the next start, a text that is no number
  in a number's place stops it (`ui/app.py:666`), and the wizard, run again, drops
  what the console saved.
* A slow discovery overwrites the entry of a newer, faster one; an error is
  cached like a result and hides the repositories until it expires.
* The CI waiter is notified "if this is a terminal CI status"
  (`server.py:356`), in fact of every webhook.

## 4. Proofs

All theorems hold for every value of the constants that satisfies the named
assumptions (`HandlerAssumption` and the like: bounds are natural numbers, model values
differ). `tlapm` checks every leaf.

* `HandlerTheorems`. `TypeCorrect` (`TypeOK`) rests on `TypeInv` and
  `KnownSessions`: what a task must hold at each `pc`, for instance that a task
  about to record a fix holds a session that is in the table. `LineageCorrect`
  and `GreenBuildCorrect` need more, because the facts they relate come from
  different times: an event in flight tells of a run that concluded that way and
  stays so (`TruthfulEvents`), commits not yet pushed have neither an author nor
  runs (`FreshCommits`), the fix in a task's hands was pushed for its session
  (`FixesArePushed`), and a task about to write PASSED has a green commit of its
  session (`PassedIsGreen`). `SafetyInv` is their conjunction and is inductive.
  `WorkerCorrect` (`WorkingHasWorker`) follows the rows: which actions write a
  row, and what `tgt` is then. `SessionIsHumanCorrect` assumes that authors
  resolve (`~ResolveMayFail`), and strengthens to `OriginInv`: a task that has
  passed the author check as a human one holds an event about a person's commit,
  and a commit with runs has an author.
* `SessionTheorems`, about the retry session. `RowsOwnCorrect` holds in every
  world: a row is only ever bound to the session of its own commit, from
  `HoldsInv`, which says what a task holds at each `pc`. The others assume
  `CalmProvider`: one workflow, one attempt of a run, no webhook delivered
  twice, as in `retry_loop` and `two_sessions`; people may push, authors stay
  unknown, pushes be rejected, webhooks be late or lost, and the server restart
  as often as `MaxCrashes` says. The assumption is what the statements need:
  with a second workflow or a redelivery there is a second agent in a session
  (`hard_limit`, and the table above), with a rerun a closed session is worked
  on again. The argument goes in layers, each inductive upon those before it:
  * `EventsOnce`: the verdict of a run is delivered once and true for good, so
    that no two live tasks have the same one; `OpenedOnce`: a session exists only
    if the verdict on its commit was heard, and a task about it holds it.
  * `Charges`: a task with a verdict and a session (`Charge`) handles the verdict
    on the session's front, its last recorded fix or else its own commit, and the
    session stays open until the task closes it. Hence at most one task is in
    charge (`OneCharge`): `OneAgentCorrect`, and `ResurrectionCorrect`.
  * `Guarded`: a live task is registered in `_active_tasks` under its run, or it
    handles an announcement and the `finally` of a retry popped its entry, after
    which no further webhook of that run is to come: `OneTaskCorrect`.
  * `Counted`: the copy of `attempt_count` in the hands of the task in charge is
    the table's, and is one more than the pushes of its session, less the one on
    its way; a session whose fix awaits its verdict (`Awaited`) has an
    `attempt_count` that agrees with its pushes. A restart between the push and
    its record leaves a fix that nobody is going to match, so that `Counted` survives it,
    and with it the budget: `LimitCorrect`. `AttemptsCountPushes` does not survive,
    hence `AttemptsCorrect` only speaks of `crashes = 0` (`Recorded`).
  * `ToExhaust` and `TurnedDown`: a task about to say EXHAUSTED works for a session
    whose recorded fix CI turned down, which is to say that its run failed or was
    cancelled; `ExhaustedCorrect` leaves failed, and assumes for it that no run is
    cancelled.

  `SessionInv` is their conjunction. `SessionsImplemented` maps each step to one
  of `RetrySession` or to none: a push of the task in charge is `PushFix` within the
  budget by `Counted`, a conclusion is `CiAccepts`, the four actions that write
  `ci_sessions` are `Open`, `Close` or leave what `RetrySession` sees; PASSED is
  justified by `PassedIsGreen`, EXHAUSTED by `Counted`.
* `DashboardTheorems`. Handler steps are taken from `HandlerTheorems` and
  `SessionTheorems`; what is new is `DashboardInv`: a task reports to a row of its
  session's commit (`ReportsOwn`), an entry of a listing tells of a conclusion
  that is still so (`ListingIsTrue`), and the invariant of the loop less what
  `GreenBuild` says of rows. From it `SuccessCorrect`, `LifecycleCorrect`,
  `PassedSessionCorrect`, `DashboardLineage` and `DashboardWorker`. Of the rows
  `SessionInv` needs only that they are bound to sessions of their commit, so it
  survives the requests: `DashboardSessionsImplemented` and `DashboardOneAgent`,
  under `CalmProvider`. These two are not checked by a run.
* `SettingsTheorems` and `ConsoleTheorems`. `LinesInv` says how the lines of the
  file lie: the console's own say what it was last asked to save and come after
  the wizard's, whose numbers are numbers, and what was asked has a line. With
  `OwnLineIsRead` (a start reads the last line) it yields `SavedCorrect`,
  `StartsCorrect` and, with memory beside it, `RestartCorrect`. The assumptions
  are that there are finitely many settings and that cutting a comment off a
  number leaves a number. `ConsoleDiscovers` is the refinement of `Discovery`;
  `ConsoleAssumption` lists the scopes and tokens that texts can give.
  Of `Discovery` itself, in `ConsoleTheorems` too, `AgeInv`: an entry is filed
  under the scope it was asked for, its stamp is no later than the moment the
  provider was read, and so for requests in flight. `NotTooOldCorrect` and
  `ScopeCorrect` follow, for any number of overlapping requests.
* `LiveTheorems`. `NoticesCorrect` counts: each step of the bus moves a notice
  between the bus, the generators that hold one and the pages, or loses it with a
  connection, and a generator of a page that is gone is paid for by the end that
  made it. The count of `Holding` changes by at most one (`HoldingChanges`), which
  needs `Page` to be finite. `PagesUseBus` carries it over to the pages: each step
  of `LiveUpdates` is one of the bus or leaves it alone (`PageStepIsBusStep`).
* `AgentTheorems`. `AgentTypeCorrect`, `AccountedCorrect`, `TouchesCorrect` and
  `ContractImplemented`: the refinement of `AgentContract` step by step, from an
  invariant that ties `pc`, the commits of a run and its workspace together. It
  is what justifies the four outcomes `WebhookHandler` has for `run_agent`.
* `RateTheorems`. The strengthening is `Balance`: what was granted and what the
  bucket could give out now never exceed a full bucket and what the window
  added. It yields `WindowCorrect`; `OversleepCorrect` needs that waiting
  `Wait(n)` ticks is tight (`WaitIsTight`) and that others only ever lower what
  is available.

* What of the liveness properties needs no fairness. `TasksRunOut`
  (`HandlerTheorems`): no step sets a task back, and each step of its own leaves
  fewer of at most twelve calls to make. `GraphRunsOut` (`AgentTheorems`): the
  edge from `llm_fix_code` back to itself is never taken, so a graph run passes
  each node once. `CallsRunOut` (`RateTheorems`): retries and sleeps bring a call
  nearer to its end, but for a sleep after which others had taken the token.
  `AgreementLasts` (`LiveTheorems`, `AgreementStays`): a page that agrees with the
  table agrees until a write or another selection, if nothing is on its way to it
  that says otherwise: no notice, no timer, request or answer of another
  selection, no history (`UpToDate`). Each of these does undo the agreement.

Only model-checked: the liveness properties themselves (`WorkEnds`, `RunsEnd`,
`EveryCallEnds`, `PagesCatchUp`, `BusDrains`), which need fairness and ENABLED.
Every other property of a passing run is proved, and the two of the violating
runs are false as stated there.

## 5. Not modelled, and the plan

* The CI waiter: `wait_for_ci` has no caller in the repository, so the table of
  futures is always empty and `notify_ci_result` finds nothing in any order.
* The command line of `main.py` with its SQLite checkpointer, which the service
  does not use. (When the graph fails under it, it is run again from the start.)
* Authentication: a dictionary of sessions with an expiry, changed by one
  synchronous statement at a time.
* The pages that only read, HTTP clients, prompts, alerts, formatting, signature
  checks: there is nothing for a model checker in them. Their outcomes are choices
  of the models that call them.
* Environment variables, comment lines of `.env` and references to variables in it.
* Pages restored from the browser's history, and the page of all runs.

What is left of the plan: what the sessions keep when webhooks are delivered
twice or a commit has several workflows (the number of agents in a session is then
bounded by the verdicts on its front).
