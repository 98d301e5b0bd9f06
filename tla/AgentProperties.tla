-------------------------- MODULE AgentProperties --------------------------
(* What one run of the agent graph promises.                               *)
EXTENDS AgentRun

Landed(a) == {c \in Commit : by[c] = a}

\* The graph implements what the handler assumes of run_agent: at most one
\* commit, never after the report, none when it raises.
Contract ==
  INSTANCE AgentContract WITH
    Agents <- Agent,
    Commits <- Commit,
    landed <- [a \in Agent |-> Landed(a)],
    report <- [a \in Agent |-> IF pc[a] = "end" THEN status[a]
                               ELSE IF pc[a] = "raised" THEN "error" ELSE "none"]

RefinesContract == Contract!Spec

\* No silent end: a graph run that ends has either reported a fix or called a
\* human, and not both.
EndedIsAccounted ==
  \A a \in Agent : pc[a] = "end" => (status[a] = "CANNOT_FIX" <=> escalated[a])

\* A commit of the agent changes a file only if its model rewrote it under a
\* name that is not on the list: the rest of the tree is that of the commit
\* before, whatever was pushed between the failing commit and this one.
TouchesOnlyProposal ==
  \A a \in Agent, f \in File : \A c \in Landed(a) :
    tree[c][f] # tree[c - 1][f] => \E n \in proposal[a] \ Guarded : FileOf[n] = f

\* Every run of the graph comes to an end: no route leads back for ever.
RunsEnd == \A a \in Agent : pc[a] = "clone" ~> pc[a] \in {"end", "raised"}

-----------------------------------------------------------------------------
(* What comments and documents say and the code does not do. *)

\* commit_and_push: "creates a commit, and pushes to remote", True when it did.
\* So a run that reports FIX_PUSHED has a commit on the branch.
FixPushedLanded ==
  \A a \in Agent : pc[a] = "end" /\ status[a] = "FIX_PUSHED" => Landed(a) # {}

\* apply_file_changes: "blocks forbidden paths".  So a file that has a forbidden
\* name is not changed by the agent, under no other name either.
ForbiddenUntouched ==
  \A a \in Agent, n \in Guarded : \A c \in Landed(a) :
    FileOf[n] # Outside => tree[c][FileOf[n]] = tree[c - 1][FileOf[n]]

\* PRODUCTION_SPECIFICATION.md: overwriting file contents "cleanly and safely".
\* So what people committed to a file stays in it.
HumanEditsSurvive ==
  \A c, d \in Commit, f \in File :
    c < d /\ d <= head /\ by[c] = "human" /\ c \in tree[c][f] => c \in tree[d][f]
=============================================================================
