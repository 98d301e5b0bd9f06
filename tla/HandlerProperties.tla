------------------------- MODULE HandlerProperties -------------------------
(***************************************************************************)
(* What the retry loop of WebhookHandler promises.                         *)
(***************************************************************************)
EXTENDS WebhookHandler

PushedBy(s) == {c \in Commit : owner[c] = s /\ author[c] = "bot"}
CiGreen(c) == \E k \in RunKey : k.sha = c /\ ci[k] = "success"

\* The retry lineage: a commit of the branch that a session remembers as its
\* fix is one the agent pushed while working for that very session, however
\* the tasks of different sessions interleave.  It may also remember a sha that
\* never reached the branch (FixOnBranch below).
Lineage ==
  \A s \in Commit : sessions[s].fix \in Commit => sessions[s].fix \in PushedBy(s)

\* No green build is claimed that never happened: a session is PASSED, and a
\* row says PASSED, only if CI succeeded on a commit pushed for that session.
GreenBuild ==
  /\ \A s \in Commit : sessions[s].status = "PASSED" => \E c \in PushedBy(s) : CiGreen(c)
  /\ \A k \in RunKey : runs[k].status = "PASSED" =>
       \E c \in PushedBy(runs[k].session) : CiGreen(c)

WorksOn(t, k) == pc[t] \in PcAgent /\ tgt[t] = k

\* A row that says AGENT_WORKING blocks every redelivery of its event, so as
\* long as the server never died some task must still be working on it.
WorkingHasWorker ==
  crashes = 0 =>
    \A k \in RunKey : runs[k].status = "AGENT_WORKING" => \E t \in Task : WorksOn(t, k)

\* Two agents never work for the same session at the same time.
OneAgentPerSession ==
  \A t, u \in Task :
    pc[t] \in PcAgent /\ pc[u] \in PcAgent /\ sid[t] = sid[u] /\ sid[t] # NoSession => t = u

\* attempt_count starts at 1 and grows with every push, so max_attempts = n
\* allows n - 1 pushes, and one when n is 1.
PushesAllowed == IF MaxRetryAttempts > 2 THEN MaxRetryAttempts - 1 ELSE 1

\* The handler's sessions are the abstract ones: fixes are pushed only for an
\* open session and within the budget, and the one verdict a session ever
\* gets is justified.
Abstract ==
  INSTANCE RetrySession WITH
    Commits <- Commit,
    Budget <- PushesAllowed,
    verdict <- [s \in Commit |-> sessions[s].status],
    fixes <- [s \in Commit |-> PushedBy(s)],
    green <- {c \in Commit : CiGreen(c)}

RefinesRetrySession == Abstract!Spec

\* attempt_count, which bounds the loop, never counts fewer fixes than were
\* pushed for the session, but for one that is not written back yet.
AttemptsCountPushes ==
  \A s \in Commit : IsActive(s) =>
    LET pending == {t \in Task : sid[t] = s /\ fix[t] \in Commit}
    IN  sessions[s].attempt + Cardinality(pending) >= 1 + Cardinality(PushedBy(s))

\* EXHAUSTED is said only of a session whose last fix failed in CI: the run of
\* that very commit said "failure".  It holds in a world without cancelled runs.
ExhaustedHasFailed ==
  \A s \in Commit : sessions[s].status = "EXHAUSTED" =>
    \E k \in RunKey : k.sha = sessions[s].fix /\ ci[k] = "failure"

\* While a task handles an event, no second task handles that run attempt.
OneTaskPerRun ==
  \A t, u \in Task : Live(t) /\ Live(u) /\ ev[t].key = ev[u].key => t = u

\* An agent at work comes to an end, and the row says so.
WorkEnds ==
  \A k \in RunKey : runs[k].status = "AGENT_WORKING" ~> runs[k].status # "AGENT_WORKING"

-----------------------------------------------------------------------------
(* What comments and documents say and the code does not do. *)

\* docs/ideas/ci-review-agent-session-loop.md: a bot webhook is consumed iff
\* it matches an active session.  So a skipped commit is not the fix an open
\* session is waiting to hear about.
SkippedIsForeign ==
  \A k \in RunKey : runs[k].status = "skipped_bot" =>
    \A s \in Commit : IsActive(s) => sessions[s].fix # k.sha

\* get_session_by_fix_sha: "the agent records `last_fix_sha` when it pushes a
\* fix".  So the commit a session waits for is on the branch.
FixOnBranch == \A s \in Commit : sessions[s].fix # NoCommit => sessions[s].fix <= head

\* docs/ideas/ci-review-agent-session-loop.md: fixes are retried "up to a hard
\* limit".
HardLimit == \A s \in Commit : Cardinality(PushedBy(s)) <= MaxRetryAttempts

\* create_session: "never resurrect completed sessions".  So the agent works
\* only for sessions that are open.
NeverResurrected ==
  \A t \in Task : pc[t] = "run_agent" /\ sid[t] # NoSession => IsActive(sid[t])

\* create_session: "keyed by the failing human head_sha".
SessionIsHuman == \A s \in Commit : sessions[s].status # "absent" => author[s] = "human"

\* config.py: auto_fix_reruns decides whether the agent fixes on rerun webhooks.
RerunsAreTracked ==
  \A t \in Task : pc[t] = "run_agent" /\ ev[t].key.att > 1 => AutoFixReruns

\* is_duplicate: after an error "a fresh webhook for the same run must re-enter
\* the pipeline".  So it is never merely tracked.
ErrorReenters ==
  \A t \in Task : pc[t] = "track_only" => runs[ev[t].key].status # "error"

\* handle_webhook_event: a bot failure with attempts remaining continues to the
\* agent.  So a retry that has reached the gate passes it.
RetryReachesAgent ==
  \A t \in Task : pc[t] = "event_status" /\ sid[t] # NoSession => IsFailure(ev[t])
=============================================================================
