--------------------------- MODULE WebhookEvents ---------------------------
(***************************************************************************)
(* The CI webhooks the agent receives, as the parsers normalise them, and  *)
(* the two classifiers the handler applies to them:                        *)
(*   services/webhook_models.py   the (action, status, conclusion) triple  *)
(*   services/webhook_handler.py  _bot_terminal_status and is_failure.     *)
(*                                                                         *)
(* An event reports one phase of one attempt of one CI run.  The payload   *)
(* is kept as the three strings the classifiers look at, already lower     *)
(* case (the providers send lower case, and the handler lowers them).      *)
(***************************************************************************)
EXTENDS Naturals

CONSTANTS
  Platform,        \* "forgejo" or "github"
  MaxCommits,      \* bound: commits ever pushed to the branch
  Workflow,        \* the workflows that run on every commit
  MaxRunAttempts   \* bound: attempts (re-runs) of one CI run

ASSUME PlatformAssumption == Platform \in {"forgejo", "github"}
ASSUME CommitsAssumption == MaxCommits \in Nat
ASSUME AttemptsAssumption == MaxRunAttempts \in Nat

\* Commits are numbered in the order of their push.
Commit == 1 .. MaxCommits

\* A ci_runs row and a dispatch key: repository:run_id:run_attempt.  A run is
\* a workflow on a commit; there is one repository.
RunKey == [sha : Commit, wf : Workflow, att : 1 .. MaxRunAttempts]

Terminal == {"success", "failure", "cancelled"}
Phase == {"running"} \cup Terminal

Event == [key : RunKey, phase : Phase]

NoKey == [sha |-> 0, wf |-> 0, att |-> 0]
NoEvent == [key |-> NoKey, phase |-> "none"]

Triple(action, status, conclusion) ==
  [action |-> action, status |-> status, conclusion |-> conclusion]

\* Forgejo's native payload names the result three times, GitHub's
\* workflow_run says action = status = "completed" and puts the result in
\* conclusion.  Forgejo has no action of its own for a cancelled run: the
\* failure webhook carries run.status = "cancelled".
Payload(phase) ==
  IF phase = "running" THEN Triple("in_progress", "in_progress", "null")
  ELSE IF Platform = "github" THEN Triple("completed", "completed", phase)
  ELSE IF phase = "cancelled" THEN Triple("failure", "cancelled", "failure")
  ELSE Triple(phase, phase, phase)

\* "null" stands for a conclusion that is missing.
\* A slip: taking the conclusion for the status.
EventStatusFromConclusion(e) == Payload(e.phase).conclusion

\* What the handler writes to the row: event.status.
EventStatus(e) == Payload(e.phase).status

\* Slips: a run that ended is a good one unless it says "failed"; what is not a
\* success is a failure.
BotTerminalStatusOfCompleted(e) ==
  IF e.phase = "running" THEN "none"
  ELSE IF Payload(e.phase).status = "failed" THEN "failure" ELSE "success"
BotStatusOrFailure(e) ==
  IF e.phase = "success" THEN "success" ELSE "failure"

\* Maps an event on a bot commit to "success", "failure" or "none" (None).
BotTerminalStatus(e) ==
  LET p == Payload(e.phase)
  IN  IF p.status \in {"success", "passed"} \/ p.conclusion = "success" THEN "success"
      ELSE IF \/ p.status \in {"failure", "failed", "error"}
              \/ p.conclusion \in {"failure", "cancelled", "timed_out"} THEN "failure"
      ELSE "none"

\* The gate in front of the agent.
IsFailure(e) ==
  LET p == Payload(e.phase)
  IN  \/ p.action = "failure"
      \/ p.status \in {"failure", "FAILED", "error"}
      \/ p.action = "completed" /\ p.conclusion \in {"failure", "null"}

\* What a row may say: what an event wrote, or what the handler wrote.
EventRowStatus == {"in_progress", "completed", "success", "failure", "cancelled"}
=============================================================================
