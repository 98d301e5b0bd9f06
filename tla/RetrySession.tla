---------------------------- MODULE RetrySession ----------------------------
(***************************************************************************)
(* What a retry session promises, without tasks, tables and webhooks:      *)
(* docs/ideas/ci-review-agent-session-loop.md as run_tracker.py and        *)
(* webhook_handler.py realise it.                                          *)
(*                                                                         *)
(* A session is opened for a failing commit, collects the fixes pushed for *)
(* it while it is open and while the budget lasts, and is closed once:     *)
(* PASSED only on a fix CI accepted, EXHAUSTED only when the budget is     *)
(* spent, CANNOT_FIX at any time.                                          *)
(***************************************************************************)
EXTENDS Naturals, FiniteSets

CONSTANTS Commits, Budget

VARIABLES
  verdict,   \* Commits -> "absent", "active" or how the session was closed
  fixes,     \* Commits -> the fixes pushed for the session
  green      \* commits CI has accepted

session == <<verdict, fixes, green>>

Init ==
  /\ verdict = [s \in Commits |-> "absent"]
  /\ fixes = [s \in Commits |-> {}]
  /\ green = {}

Open(s) ==
  /\ verdict[s] = "absent"
  /\ verdict' = [verdict EXCEPT ![s] = "active"]
  /\ UNCHANGED <<fixes, green>>

\* A fix is a new commit, pushed for one session only.
PushFix(s, c) ==
  /\ verdict[s] = "active"
  /\ Cardinality(fixes[s]) < Budget
  /\ \A r \in Commits : c \notin fixes[r]
  /\ fixes' = [fixes EXCEPT ![s] = @ \cup {c}]
  /\ UNCHANGED <<verdict, green>>

Close(s, v) ==
  /\ verdict[s] = "active"
  /\ v = "PASSED" => fixes[s] \cap green # {}
  /\ v = "EXHAUSTED" => Cardinality(fixes[s]) = Budget
  /\ verdict' = [verdict EXCEPT ![s] = v]
  /\ UNCHANGED <<fixes, green>>

CiAccepts(c) ==
  /\ green' = green \cup {c}
  /\ UNCHANGED <<verdict, fixes>>

Next ==
  \E s \in Commits :
    \/ Open(s)
    \/ CiAccepts(s)
    \/ \E c \in Commits : PushFix(s, c)
    \/ \E v \in {"PASSED", "EXHAUSTED", "CANNOT_FIX"} : Close(s, v)

Spec == Init /\ [][Next]_session
=============================================================================
