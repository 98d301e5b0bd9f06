---------------------------- MODULE MCDashboard ----------------------------
(* Model values and symmetry for checking Dashboard with TLC.              *)
EXTENDS Dashboard, TLC

CONSTANTS t1, t2, w1, w2

TwoTasks == {t1, t2}
OneWorkflow == {w1}
TwoWorkflows == {w1, w2}

TaskSymmetry == Permutations(Task)

OnlyBot == {"bot"}

Conclusions == {"success", "failure"}
AllConclusions == {"success", "failure", "cancelled"}
=============================================================================
