----------------------------- MODULE RunTracker -----------------------------
(***************************************************************************)
(* services/run_tracker.py: the SQLite store of CI runs and of retry       *)
(* sessions.  Every method opens its own connection and commits once, so a *)
(* method call is one atomic step; what is NOT atomic is a caller that     *)
(* makes several calls.                                                    *)
(*                                                                         *)
(* The operators below are the methods, for one repository.  The ones that *)
(* write are actions that prime the table they write and nothing else.     *)
(***************************************************************************)
EXTENDS WebhookEvents, FiniteSets

CONSTANTS
  MaxRetryAttempts,    \* settings.max_retry_attempts
  TableMaxAttempts     \* the column default of ci_sessions.max_attempts

ASSUME RetryAssumption ==
  MaxRetryAttempts \in Nat \ {0} /\ TableMaxAttempts \in Nat \ {0}

VARIABLES
  runs,       \* ci_runs: RunKey -> row
  sessions    \* ci_sessions: the failing head commit -> row

tables == <<runs, sessions>>

\* A session's id is the commit it was created for: (repository, head_sha) is
\* unique and rows are never renumbered.
NoSession == 0
NoCommit == 0

\* The sha of a commit that exists only in the clone it was made in.
Unpushed == MaxCommits + 1
Fix == Commit \cup {NoCommit, Unpushed}

RowStatus == EventRowStatus \cup
  {"AGENT_WORKING", "FIX_PUSHED", "CANNOT_FIX", "PASSED", "EXHAUSTED", "error", "skipped_bot",
   "processing"}
SessionStatus == {"active", "PASSED", "EXHAUSTED", "CANNOT_FIX"}

Row == [status : RowStatus \cup {"absent"}, session : Commit \cup {NoSession}]
Session == [status : SessionStatus \cup {"absent"},
            attempt : Nat,                     \* attempt_count
            max : Nat,                         \* max_attempts
            fix : Fix,                         \* last_fix_sha
            trigger : Workflow \cup {0}]       \* the workflow of trigger_run_id

NoRow == [status |-> "absent", session |-> NoSession]
NoSessionRow == [status |-> "absent", attempt |-> 0, max |-> 0,
                 fix |-> NoCommit, trigger |-> 0]

TablesOK == runs \in [RunKey -> Row] /\ sessions \in [Commit -> Session]

TablesInit ==
  /\ runs = [k \in RunKey |-> NoRow]
  /\ sessions = [s \in Commit |-> NoSessionRow]

-----------------------------------------------------------------------------
(* ci_runs *)

IsDuplicate(k) ==
  runs[k].status \in
    {"PASSED", "EXHAUSTED", "CANNOT_FIX", "FIX_PUSHED", "AGENT_WORKING", "success"}

IsCompleted(k) ==
  runs[k].status \in {"PASSED", "FAILED", "EXHAUSTED", "error", "success", "failed"}

\* INSERT ... ON CONFLICT DO UPDATE.  No caller passes a session, so COALESCE
\* keeps the one the row has.
Record(k, status) == runs' = [runs EXCEPT ![k].status = status]

\* UPDATE ... WHERE: no row, no effect; a null session keeps the row's.
UpdateStatus(k, status, s) ==
  runs' = IF runs[k].status = "absent" THEN runs
          ELSE [runs EXCEPT ![k] =
                 [status  |-> status,
                  session |-> IF s = NoSession THEN runs[k].session ELSE s]]

\* The rows get_run_by_session may return for s: the most recent by
\* created_at, which is the time the provider created the run.  Runs of the
\* same commit are created together, and the order among them is not defined.
LifecycleRows(s) ==
  LET bound == {k \in RunKey : runs[k].status # "absent" /\ runs[k].session = s}
  IN  {k \in bound : \A j \in bound : j.sha <= k.sha}

-----------------------------------------------------------------------------
(* ci_sessions *)

IsActive(s) == sessions[s].status = "active"

\* INSERT ... ON CONFLICT DO NOTHING, with the column default for max_attempts.
InsertSession(s, wf) ==
  sessions' = IF sessions[s].status # "absent" THEN sessions
              ELSE [sessions EXCEPT ![s] =
                     [status |-> "active", attempt |-> 1,
                      max |-> TableMaxAttempts, fix |-> NoCommit, trigger |-> wf]]

\* A slip: looking for a session of the branch instead of the fix.
SessionsByBranch(c) == {s \in Commit : IsActive(s)}

\* The sessions get_session_by_fix_sha may return for commit c.
SessionsByFix(c) == {s \in Commit : IsActive(s) /\ sessions[s].fix = c}

\* update_session(id, status=...).
SetSessionStatus(s, status) == sessions' = [sessions EXCEPT ![s].status = status]

\* update_session(id, max_attempts=...).
SetSessionMax(s, limit) == sessions' = [sessions EXCEPT ![s].max = limit]

\* A slip: the attempt is not counted.
RecordFixOnly(s, c, n) == sessions' = [sessions EXCEPT ![s].fix = c]

\* update_session(id, last_fix_sha=..., attempt_count=..., previous_analysis=...).
RecordFix(s, c, n) ==
  sessions' = [sessions EXCEPT ![s] = [@ EXCEPT !.fix = c, !.attempt = n]]
=============================================================================
