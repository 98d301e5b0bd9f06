--------------------------- MODULE WebhookHandler ---------------------------
(***************************************************************************)
(* services/webhook_handler.py: the externalized retry loop.               *)
(*                                                                         *)
(* Every accepted webhook becomes an asyncio task.  A task reads and       *)
(* writes the tables of RunTracker, one await at a time, and other tasks   *)
(* run at every await: each action below is the code from one await to the *)
(* next.  pc[t] names the database call (or agent call) the task is about  *)
(* to make.                                                                *)
(*                                                                         *)
(* Around the handler stands the CI provider: commits are pushed to the    *)
(* branch by people and by the agent, every push starts one run of every   *)
(* workflow, a concluded run may be run again, and each fact may be        *)
(* delivered late, more than once, or not at all.                          *)
(***************************************************************************)
EXTENDS RunTracker

CONSTANTS
  Task,            \* slots for asyncio tasks, reused when a task has ended
  MaxHumanPushes,  \* bound: commits pushed by people
  MaxDeliveries,   \* bound: deliveries of one event
  MaxCrashes,      \* bound: restarts of the server
  Results,         \* the results CI can have, a subset of Terminal
  SendRunning,     \* does the provider announce runs that started?
  ResolveMayFail,  \* can the author of a commit stay unknown?
  BotSends,        \* whose commits' webhooks may name the bot's account as the sender
  PushMayBeLost,   \* can the remote reject the agent's push?
  AutoFixReruns    \* settings.auto_fix_reruns = "true"

ASSUME HandlerAssumption ==
  /\ Results \subseteq Terminal
  /\ MaxHumanPushes \in Nat /\ MaxDeliveries \in Nat /\ MaxCrashes \in Nat
  /\ SendRunning \in BOOLEAN /\ ResolveMayFail \in BOOLEAN
  /\ BotSends \subseteq {"human", "bot"}
  /\ PushMayBeLost \in BOOLEAN /\ AutoFixReruns \in BOOLEAN
  /\ 0 \notin Task

VARIABLES
  head,        \* number of commits on the branch
  author,      \* Commit -> who made it
  owner,       \* history: the session whose agent pushed a commit
  ci,          \* RunKey -> state of that attempt at the provider
  delivered,   \* Event -> how often it was delivered
  crashes,     \* restarts so far
  guard,       \* _active_tasks, without the tasks that are done()
  pc,          \* Task -> the call the task is about to make
  ev,          \* Task -> the webhook it handles
  sid,         \* Task -> id of the session it holds, or NoSession
  count,       \* Task -> attempt_count in its copy of the session
  tgt,         \* Task -> the row it reports to
  out,         \* Task -> the status it is about to write
  fix          \* Task -> the commit_sha its agent reports, or NoCommit

world == <<head, author, owner, ci, delivered, crashes>>
locals == <<ev, sid, count, tgt, out, fix>>
vars == <<runs, sessions, head, author, owner, ci, delivered, crashes,
          guard, pc, ev, sid, count, tgt, out, fix>>

NoTask == 0
Author == {"nobody", "human", "bot"}
CiState == {"none", "running"} \cup Terminal

PcAgent == {"run_agent", "final_status", "error_status"}
PC == {"done", "is_duplicate", "match_author", "complete_session", "exhaust_session",
       "find_row", "update_row", "skip_bot", "resolve_target", "is_completed",
       "track_only", "event_status", "find_session", "create_session",
       "set_max", "mark_working", "update_session"} \cup PcAgent

Live(t) == pc[t] # "done"

WorldOK ==
  /\ head \in 0 .. MaxCommits
  /\ author \in [Commit -> Author]
  /\ owner \in [Commit -> Commit \cup {NoSession}]
  /\ ci \in [RunKey -> CiState]
  /\ delivered \in [Event -> Nat]
  /\ crashes \in Nat

LocalsOK ==
  /\ ev \in [Task -> Event \cup {NoEvent}]
  /\ sid \in [Task -> Commit \cup {NoSession}]
  /\ count \in [Task -> Nat]
  /\ tgt \in [Task -> RunKey \cup {NoKey}]
  /\ out \in [Task -> RowStatus \cup {"absent"}]
  /\ fix \in [Task -> Fix]

TasksOK ==
  /\ guard \in [RunKey -> Task \cup {NoTask}]
  /\ pc \in [Task -> PC]
  /\ LocalsOK

TypeOK == TablesOK /\ WorldOK /\ TasksOK

Init ==
  /\ TablesInit
  /\ head = 0
  /\ author = [c \in Commit |-> "nobody"]
  /\ owner = [c \in Commit |-> NoSession]
  /\ ci = [k \in RunKey |-> "none"]
  /\ delivered = [e \in Event |-> 0]
  /\ crashes = 0
  /\ guard = [k \in RunKey |-> NoTask]
  /\ pc = [t \in Task |-> "done"]
  /\ ev = [t \in Task |-> NoEvent]
  /\ sid = [t \in Task |-> NoSession]
  /\ count = [t \in Task |-> 0]
  /\ tgt = [t \in Task |-> NoKey]
  /\ out = [t \in Task |-> "absent"]
  /\ fix = [t \in Task |-> NoCommit]

-----------------------------------------------------------------------------
(* The CI provider and the people who push *)

\* A push puts a commit on the branch; CI starts every workflow on it.
Push(who, s) ==
  /\ head < MaxCommits
  /\ head' = head + 1
  /\ author' = [author EXCEPT ![head + 1] = who]
  /\ owner' = [owner EXCEPT ![head + 1] = s]
  /\ ci' = [k \in RunKey |-> IF k.sha = head + 1 /\ k.att = 1 THEN "running" ELSE ci[k]]

HumanPush ==
  /\ Cardinality({c \in Commit : author[c] = "human"}) < MaxHumanPushes
  /\ Push("human", NoSession)
  /\ UNCHANGED <<runs, sessions, delivered, crashes, guard, pc, locals>>

RunConcludes(k, result) ==
  /\ ci[k] = "running"
  /\ ci' = [ci EXCEPT ![k] = result]
  /\ UNCHANGED <<runs, sessions, head, author, owner, delivered, crashes, guard, pc, locals>>

\* "Re-run": the next attempt of a concluded run.
Rerun(k) ==
  /\ ci[k] = "none"
  /\ \E j \in RunKey : /\ j.sha = k.sha /\ j.wf = k.wf /\ j.att + 1 = k.att
                       /\ ci[j] \in Terminal
  /\ ci' = [ci EXCEPT ![k] = "running"]
  /\ UNCHANGED <<runs, sessions, head, author, owner, delivered, crashes, guard, pc, locals>>

\* An event may arrive long after it was true, but it was true once.
Happened(e) ==
  IF e.phase = "running" THEN SendRunning /\ ci[e.key] # "none"
                         ELSE ci[e.key] = e.phase

-----------------------------------------------------------------------------
(* dispatch_webhook_event *)

Deliver(e) ==
  /\ Happened(e)
  /\ delivered[e] < MaxDeliveries
  /\ delivered' = [delivered EXCEPT ![e] = @ + 1]

\* A slip: the dispatcher forgets its guard.
NeverBusy(k) == FALSE

Busy(k) == guard[k] # NoTask

\* A task with the same key is running: the webhook is logged and dropped.
DispatchDropped(e) ==
  /\ Deliver(e)
  /\ Busy(e.key)
  /\ UNCHANGED <<runs, sessions, head, author, owner, ci, crashes, guard, pc, locals>>

Dispatch(t, e) ==
  /\ ~Live(t)
  /\ Deliver(e)
  /\ ~Busy(e.key)
  /\ guard' = [guard EXCEPT ![e.key] = t]
  /\ pc' = [pc EXCEPT ![t] = "is_duplicate"]
  /\ ev' = [ev EXCEPT ![t] = e]
  /\ UNCHANGED <<runs, sessions, head, author, owner, ci, crashes, sid, count, tgt, out, fix>>

-----------------------------------------------------------------------------
(* handle_webhook_event, await by await *)

Goto(t, label) == pc' = [pc EXCEPT ![t] = label]

\* A task that ended is forgotten: its entry in _active_tasks is done().
ForgetLocals(t) ==
  /\ ev' = [ev EXCEPT ![t] = NoEvent]
  /\ sid' = [sid EXCEPT ![t] = NoSession]
  /\ count' = [count EXCEPT ![t] = 0]
  /\ tgt' = [tgt EXCEPT ![t] = NoKey]
  /\ out' = [out EXCEPT ![t] = "absent"]
  /\ fix' = [fix EXCEPT ![t] = NoCommit]

Unguarded(t, popped) ==
  [k \in RunKey |-> IF guard[k] = t \/ k \in popped THEN NoTask ELSE guard[k]]

\* An early return.
Return(t) ==
  /\ Goto(t, "done")
  /\ ForgetLocals(t)
  /\ guard' = Unguarded(t, {})

\* The end of the try block: the finally clause pops the key of the row the
\* task reports to, whosever task is registered there.
Finally(t) ==
  /\ Goto(t, "done")
  /\ ForgetLocals(t)
  /\ guard' = Unguarded(t, {tgt[t]})

CheckDuplicate(t) ==
  /\ pc[t] = "is_duplicate"
  /\ IF IsDuplicate(ev[t].key)
     THEN Return(t)
     ELSE Goto(t, "match_author") /\ UNCHANGED <<guard, locals>>
  /\ UNCHANGED <<world, runs, sessions>>

\* A slip: asking who pressed the button instead of who made the commit.
RecognisedByPusher(c, resolved, sent) == sent

\* is_bot_sender or is_bot_commit.  The commit author comes with the payload or
\* from the provider's API; when neither works, and another account sends the
\* event, a bot commit passes for a human one.
RecognisedAsBot(c, resolved, sent) == sent \/ (author[c] = "bot" /\ resolved)

Resolutions == IF ResolveMayFail THEN BOOLEAN ELSE {TRUE}
Senders(c) == IF author[c] \in BotSends THEN BOOLEAN ELSE {FALSE}

MayBeHuman(c) ==
  \E resolved \in Resolutions, sent \in Senders(c) : ~RecognisedAsBot(c, resolved, sent)
MayBeBot(c) ==
  \E resolved \in Resolutions, sent \in Senders(c) : RecognisedAsBot(c, resolved, sent)

\* Not a bot commit: the row is the event's own.
TreatAsHuman(t) ==
  /\ pc[t] = "match_author"
  /\ MayBeHuman(ev[t].key.sha)
  /\ tgt' = [tgt EXCEPT ![t] = ev[t].key]
  /\ Goto(t, "is_completed")
  /\ UNCHANGED <<world, runs, sessions, guard, ev, sid, count, out, fix>>

\* A bot commit no active session pushed, as far as the table knows.
MatchNothing(t) ==
  /\ pc[t] = "match_author"
  /\ MayBeBot(ev[t].key.sha)
  /\ SessionsByFix(ev[t].key.sha) = {}
  /\ Goto(t, "skip_bot")
  /\ UNCHANGED <<world, runs, sessions, guard, locals>>

\* A slip: one attempt too many.
SpentLate(s) == sessions[s].attempt > sessions[s].max

\* No attempts remain.
Spent(s) == sessions[s].attempt >= sessions[s].max

\* A bot commit of session s: its result closes the session, exhausts it, asks
\* for another attempt, or is only shown on the session's row.
MatchSession(t, s) ==
  LET result == BotTerminalStatus(ev[t])
  IN  /\ pc[t] = "match_author"
      /\ MayBeBot(ev[t].key.sha)
      /\ s \in SessionsByFix(ev[t].key.sha)
      /\ sid' = [sid EXCEPT ![t] = s]
      /\ count' = [count EXCEPT ![t] = sessions[s].attempt]
      /\ \/ /\ result = "success"
            /\ Goto(t, "complete_session")
            /\ out' = [out EXCEPT ![t] = "PASSED"]
         \/ /\ result = "failure" /\ Spent(s)
            /\ Goto(t, "exhaust_session")
            /\ out' = [out EXCEPT ![t] = "EXHAUSTED"]
         \/ /\ result = "failure" /\ ~Spent(s)
            /\ Goto(t, "resolve_target")
            /\ UNCHANGED out
         \/ /\ result = "none"
            /\ Goto(t, "find_row")
            /\ out' = [out EXCEPT ![t] = EventStatus(ev[t])]
      /\ UNCHANGED <<world, runs, sessions, guard, ev, tgt, fix>>

CloseSession(t) ==
  /\ pc[t] \in {"complete_session", "exhaust_session"}
  /\ SetSessionStatus(sid[t], out[t])
  /\ Goto(t, "find_row")
  /\ UNCHANGED <<world, runs, guard, locals>>

\* _update_session_run: find the row of the session, then update it.
FindRow(t) ==
  /\ pc[t] = "find_row"
  /\ \/ /\ LifecycleRows(sid[t]) = {}
        /\ Return(t)
     \/ /\ \E k \in LifecycleRows(sid[t]) : tgt' = [tgt EXCEPT ![t] = k]
        /\ Goto(t, "update_row")
        /\ UNCHANGED <<guard, ev, sid, count, out, fix>>
  /\ UNCHANGED <<world, runs, sessions>>

UpdateRow(t) ==
  /\ pc[t] = "update_row"
  /\ UpdateStatus(tgt[t], out[t], sid[t])
  /\ Return(t)
  /\ UNCHANGED <<world, sessions>>

RecordSkippedBot(t) ==
  /\ pc[t] = "skip_bot"
  /\ Record(ev[t].key, "skipped_bot")
  /\ Return(t)
  /\ UNCHANGED <<world, sessions>>

\* A slip: without a row of its own the session takes the row of the event.
ResolveTargetOrOwn(t) ==
  LET rows == LifecycleRows(sid[t])
  IN  /\ pc[t] = "resolve_target"
      /\ \E k \in IF rows = {} THEN {ev[t].key} ELSE rows : tgt' = [tgt EXCEPT ![t] = k]
      /\ Goto(t, "is_completed")
      /\ UNCHANGED <<world, runs, sessions, guard, ev, sid, count, out, fix>>

\* A retry reports to the session's row, or to the first attempt of the run
\* that opened the session when no row is bound to it.
ResolveTarget(t) ==
  LET rows == LifecycleRows(sid[t])
      first == [sha |-> sid[t], wf |-> sessions[sid[t]].trigger, att |-> 1]
  IN  /\ pc[t] = "resolve_target"
      /\ \E k \in IF rows = {} THEN {first} ELSE rows : tgt' = [tgt EXCEPT ![t] = k]
      /\ Goto(t, "is_completed")
      /\ UNCHANGED <<world, runs, sessions, guard, ev, sid, count, out, fix>>

\* "Rerun detected": the row of this very attempt has already concluded.
CheckRerun(t) ==
  /\ pc[t] = "is_completed"
  /\ Goto(t, IF IsCompleted(ev[t].key) /\ ~AutoFixReruns THEN "track_only" ELSE "event_status")
  /\ UNCHANGED <<world, runs, sessions, guard, locals>>

TrackOnly(t) ==
  /\ pc[t] = "track_only"
  /\ Record(ev[t].key, EventStatus(ev[t]))
  /\ Return(t)
  /\ UNCHANGED <<world, sessions>>

\* The event's status goes to the row; only a failure goes on to the agent.
WriteEventStatus(t) ==
  /\ pc[t] = "event_status"
  /\ IF sid[t] # NoSession THEN UpdateStatus(tgt[t], EventStatus(ev[t]), sid[t])
                           ELSE Record(ev[t].key, EventStatus(ev[t]))
  /\ IF IsFailure(ev[t])
     THEN /\ Goto(t, IF sid[t] # NoSession THEN "mark_working" ELSE "find_session")
          /\ UNCHANGED <<guard, locals>>
     ELSE Return(t)
  /\ UNCHANGED <<world, sessions>>

\* get_session_by_head_sha takes a session whatever its status.
FindSession(t) ==
  LET s == ev[t].key.sha
  IN  /\ pc[t] = "find_session"
      /\ IF sessions[s].status = "absent"
         THEN Goto(t, "create_session") /\ UNCHANGED <<sid, count>>
         ELSE /\ Goto(t, "mark_working")
              /\ sid' = [sid EXCEPT ![t] = s]
              /\ count' = [count EXCEPT ![t] = sessions[s].attempt]
      /\ UNCHANGED <<world, runs, sessions, guard, ev, tgt, out, fix>>

\* create_session inserts unless the commit has a session by now, and hands
\* the session out only while it is active; without one the agent runs
\* sessionless from attempt 1.
CreateSession(t) ==
  LET s == ev[t].key.sha
      row == sessions'[s]
  IN  /\ pc[t] = "create_session"
      /\ InsertSession(s, ev[t].key.wf)
      /\ IF row.status = "active"
         THEN /\ sid' = [sid EXCEPT ![t] = s]
              /\ count' = [count EXCEPT ![t] = row.attempt]
              /\ Goto(t, IF row.max # MaxRetryAttempts THEN "set_max" ELSE "mark_working")
         ELSE /\ count' = [count EXCEPT ![t] = 1]
              /\ Goto(t, "mark_working")
              /\ UNCHANGED sid
      /\ UNCHANGED <<world, runs, guard, ev, tgt, out, fix>>

SetMaxAttempts(t) ==
  /\ pc[t] = "set_max"
  /\ SetSessionMax(sid[t], MaxRetryAttempts)
  /\ Goto(t, "mark_working")
  /\ UNCHANGED <<world, runs, guard, locals>>

MarkWorking(t) ==
  /\ pc[t] = "mark_working"
  /\ UpdateStatus(tgt[t], "AGENT_WORKING", sid[t])
  /\ Goto(t, "run_agent")
  /\ UNCHANGED <<world, sessions, guard, locals>>

-----------------------------------------------------------------------------
(* run_agent, seen from the handler *)

\* The agent pushes a fix.  run_agent returns at the earliest five seconds
\* later (asyncio.sleep(5), then list_runs), and CI may be faster.  An error
\* after the push is reported as CANNOT_FIX.
AgentPushes(t) ==
  /\ pc[t] = "run_agent"
  /\ Push("bot", sid[t])
  /\ fix' = [fix EXCEPT ![t] = head + 1]
  /\ \E status \in {"FIX_PUSHED", "CANNOT_FIX"} : out' = [out EXCEPT ![t] = status]
  /\ Goto(t, "final_status")
  /\ UNCHANGED <<runs, sessions, delivered, crashes, guard, ev, sid, count, tgt>>

\* commit_and_push takes a rejected push for a good one: the agent reports
\* FIX_PUSHED with the head of its clone, a sha no webhook will ever have.
AgentLosesPush(t) ==
  /\ PushMayBeLost
  /\ pc[t] = "run_agent"
  /\ out' = [out EXCEPT ![t] = "FIX_PUSHED"]
  /\ fix' = [fix EXCEPT ![t] = Unpushed]
  /\ Goto(t, "final_status")
  /\ UNCHANGED <<world, runs, sessions, guard, ev, sid, count, tgt>>

AgentGivesUp(t) ==
  /\ pc[t] = "run_agent"
  /\ out' = [out EXCEPT ![t] = "CANNOT_FIX"]
  /\ Goto(t, "final_status")
  /\ UNCHANGED <<world, runs, sessions, guard, ev, sid, count, tgt, fix>>

\* A slip: the exception leaves the handler.
AgentEscapes(t) ==
  /\ pc[t] = "run_agent"
  /\ Finally(t)
  /\ UNCHANGED <<world, runs, sessions>>

AgentRaises(t) ==
  /\ pc[t] = "run_agent"
  /\ out' = [out EXCEPT ![t] = "error"]
  /\ Goto(t, "error_status")
  /\ UNCHANGED <<world, runs, sessions, guard, ev, sid, count, tgt, fix>>

WriteFinalStatus(t) ==
  /\ pc[t] = "final_status"
  /\ UpdateStatus(tgt[t], out[t], sid[t])
  /\ IF sid[t] # NoSession
     THEN Goto(t, "update_session") /\ UNCHANGED <<guard, locals>>
     ELSE Finally(t)
  /\ UNCHANGED <<world, sessions>>

\* A slip: the session remembers the commit the webhook was about.
UpdateSessionWithHead(t) ==
  /\ pc[t] = "update_session"
  /\ IF out[t] = "FIX_PUSHED" THEN RecordFix(sid[t], ev[t].key.sha, count[t] + 1)
                              ELSE SetSessionStatus(sid[t], out[t])
  /\ Finally(t)
  /\ UNCHANGED <<world, runs>>

\* A pushed fix keeps the session open and is where the next bot webhook will
\* find it; anything else closes the session.
UpdateSession(t) ==
  /\ pc[t] = "update_session"
  /\ IF out[t] = "FIX_PUSHED" THEN RecordFix(sid[t], fix[t], count[t] + 1)
                              ELSE SetSessionStatus(sid[t], out[t])
  /\ Finally(t)
  /\ UNCHANGED <<world, runs>>

\* A slip: the error goes to the row of the event, not to the target row.
WriteErrorToOwnRow(t) ==
  /\ pc[t] = "error_status"
  /\ UpdateStatus(ev[t].key, "error", sid[t])
  /\ Finally(t)
  /\ UNCHANGED <<world, sessions>>

WriteErrorStatus(t) ==
  /\ pc[t] = "error_status"
  /\ UpdateStatus(tgt[t], "error", sid[t])
  /\ Finally(t)
  /\ UNCHANGED <<world, sessions>>

-----------------------------------------------------------------------------
\* The process dies: tasks and _active_tasks are gone, the tables remain.
Crash ==
  /\ crashes < MaxCrashes
  /\ crashes' = crashes + 1
  /\ guard' = [k \in RunKey |-> NoTask]
  /\ pc' = [t \in Task |-> "done"]
  /\ ev' = [t \in Task |-> NoEvent]
  /\ sid' = [t \in Task |-> NoSession]
  /\ count' = [t \in Task |-> 0]
  /\ tgt' = [t \in Task |-> NoKey]
  /\ out' = [t \in Task |-> "absent"]
  /\ fix' = [t \in Task |-> NoCommit]
  /\ UNCHANGED <<runs, sessions, head, author, owner, ci, delivered>>

Provider ==
  \/ HumanPush
  \/ \E k \in RunKey : Rerun(k) \/ \E result \in Results : RunConcludes(k, result)

Server ==
  \E e \in Event : DispatchDropped(e) \/ \E t \in Task : Dispatch(t, e)

Handle(t) ==
  \/ CheckDuplicate(t)
  \/ TreatAsHuman(t)
  \/ MatchNothing(t)
  \/ \E s \in Commit : MatchSession(t, s)
  \/ CloseSession(t)
  \/ FindRow(t)
  \/ UpdateRow(t)
  \/ RecordSkippedBot(t)
  \/ ResolveTarget(t)
  \/ CheckRerun(t)
  \/ TrackOnly(t)
  \/ WriteEventStatus(t)
  \/ FindSession(t)
  \/ CreateSession(t)
  \/ SetMaxAttempts(t)
  \/ MarkWorking(t)
  \/ AgentPushes(t)
  \/ AgentLosesPush(t)
  \/ AgentGivesUp(t)
  \/ AgentRaises(t)
  \/ WriteFinalStatus(t)
  \/ UpdateSession(t)
  \/ WriteErrorStatus(t)

Next ==
  \/ Provider
  \/ Server
  \/ \E t \in Task : Handle(t)
  \/ Crash

Spec == Init /\ [][Next]_vars

\* The event loop runs every task that is ready, and run_agent returns: its
\* LLM and HTTP calls have timeouts and its retries are bounded.
FairSpec == Spec /\ \A t \in Task : WF_vars(Handle(t))
=============================================================================
