-------------------------- MODULE MCWebhookHandler --------------------------
(* Model values and symmetry for checking WebhookHandler with TLC.         *)
EXTENDS HandlerProperties, TLC

CONSTANTS t1, t2, t3, w1, w2

OneTask == {t1}
TwoTasks == {t1, t2}
ThreeTasks == {t1, t2, t3}
OneWorkflow == {w1}
TwoWorkflows == {w1, w2}

TaskSymmetry == Permutations(Task)

OnlyBot == {"bot"}
AnyAuthor == {"human", "bot"}

Failures == {"failure"}
Conclusions == {"success", "failure"}
AllConclusions == {"success", "failure", "cancelled"}
=============================================================================
