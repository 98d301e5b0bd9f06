----------------------------- MODULE Dashboard -----------------------------
(***************************************************************************)
(* What the dashboard's requests do to the table of runs while the handler *)
(* works on it: ui/app.py, the history seed of services/repo_discovery.py, *)
(* and the deletions of services/run_tracker.py.                           *)
(*                                                                         *)
(* None of these requests looks at _active_tasks or at ci_sessions: they   *)
(* replace or delete rows under the tasks' hands.  One history seed is     *)
(* under way at a time.                                                    *)
(***************************************************************************)
EXTENDS HandlerProperties

CONSTANT MaxVisits   \* bound: requests made to the dashboard

ASSUME DashboardAssumption == MaxVisits \in Nat

VARIABLES
  listing,   \* what the provider answered and the seed has yet to record
  tests,     \* test runs that sleep between their two writes
  visits     \* requests so far

dash == <<listing, tests, visits>>

Entry == [key : RunKey, status : {"in_progress", "success", "failure"}]

DashboardTypeOK ==
  /\ TypeOK
  /\ listing \subseteq Entry
  /\ tests \subseteq RunKey
  /\ visits \in Nat

DashboardInit == Init /\ listing = {} /\ tests = {} /\ visits = 0

Visit == visits < MaxVisits /\ visits' = visits + 1

-----------------------------------------------------------------------------
(* The history seed *)

\* The provider lists a run once, with its latest attempt.
Latest(k) ==
  /\ ci[k] # "none"
  /\ \A j \in RunKey : j.sha = k.sha /\ j.wf = k.wf /\ ci[j] # "none" => j.att <= k.att

\* A slip: a run that ended is taken for one that succeeded.
ListedByEnd(k) == [key |-> k, status |-> IF ci[k] = "running" THEN "in_progress" ELSE "success"]

\* "in_progress" stands for whatever the provider says of a run that goes on.
Listed(k) == [key |-> k, status |-> IF ci[k] = "running" THEN "in_progress" ELSE ci[k]]

\* Cancelled runs are passed over.
FetchHistory ==
  /\ Visit
  /\ listing = {}
  /\ listing' = {Listed(k) : k \in {j \in RunKey : Latest(j) /\ ci[j] # "cancelled"}}
  /\ UNCHANGED <<vars, tests>>

\* Each row is one await: the listing is as old as the first of them.
SeedRow(entry) ==
  /\ entry \in listing
  /\ Record(entry.key, entry.status)
  /\ listing' = listing \ {entry}
  /\ UNCHANGED <<sessions, world, guard, pc, locals, tests, visits>>

\* An error is logged and the rest of the listing is dropped.
SeedFails ==
  /\ listing # {}
  /\ listing' = {}
  /\ UNCHANGED <<vars, tests, visits>>

-----------------------------------------------------------------------------
(* Deletions *)

\* Rows may go at any read once their time is over; which ones is left open,
\* as no clock is modelled.  updated_at says nothing about a task at work.
Evict(K) ==
  /\ Visit
  /\ runs' = [k \in RunKey |-> IF k \in K THEN NoRow ELSE runs[k]]
  /\ UNCHANGED <<sessions, world, guard, pc, locals, listing, tests>>

ClearHistory == Evict(RunKey)

-----------------------------------------------------------------------------
(* trigger_test_run: the run's id is a random number, which may well be that *)
(* of a run of the same repository.                                          *)

StartTestRun(k) ==
  /\ Visit
  /\ k.att = 1
  /\ Record(k, "processing")
  /\ tests' = tests \cup {k}
  /\ UNCHANGED <<sessions, world, guard, pc, locals, listing>>

\* A slip: the status the dashboard's badge shows, not the one it is derived from.
FinishTestRunAsBadge(k) ==
  /\ k \in tests
  /\ UpdateStatus(k, "passed", NoSession)
  /\ tests' = tests \ {k}
  /\ UNCHANGED <<sessions, world, guard, pc, locals, listing, visits>>

FinishTestRun(k) ==
  /\ k \in tests
  /\ UpdateStatus(k, "PASSED", NoSession)
  /\ tests' = tests \ {k}
  /\ UNCHANGED <<sessions, world, guard, pc, locals, listing, visits>>

-----------------------------------------------------------------------------
Requests ==
  \/ FetchHistory
  \/ \E entry \in listing : SeedRow(entry)
  \/ SeedFails
  \/ \E k \in RunKey : Evict({k}) \/ StartTestRun(k) \/ FinishTestRun(k)
  \/ ClearHistory

\* A restart ends the requests under way with everything else in memory.
Restart == Crash /\ listing' = {} /\ tests' = {} /\ UNCHANGED visits

DashboardNext ==
  \/ (Provider \/ Server \/ \E t \in Task : Handle(t)) /\ UNCHANGED dash
  \/ Restart
  \/ Requests

DashboardSpec == DashboardInit /\ [][DashboardNext]_<<vars, dash>>

-----------------------------------------------------------------------------
(* What survives the dashboard's writes *)

\* A row that says success, and so makes every redelivery of that run attempt
\* a duplicate, is true: CI accepted that very attempt.
SuccessIsTrue == \A k \in RunKey : runs[k].status = "success" => ci[k] = "success"

\* "Single-row lifecycle": the row a session reports to is a run of the commit
\* the session was opened for, also after that row was deleted and another one
\* took its place; and the session is known.
OneRowLifecycle ==
  \A k \in RunKey : LET s == runs[k].session IN
    s # NoSession => s = k.sha /\ sessions[s].status # "absent"

\* A session is PASSED only if CI accepted a commit pushed for it.
PassedSessionIsGreen ==
  \A s \in Commit : sessions[s].status = "PASSED" => \E c \in PushedBy(s) : CiGreen(c)
=============================================================================
