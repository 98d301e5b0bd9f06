----------------------------- MODULE MCAgentRun -----------------------------
(* Model values for checking AgentRun with TLC.                            *)
EXTENDS AgentProperties

CONSTANTS a1, a2, f1, f2, n1, n2

TwoAgents == {a1, a2}
TwoFiles == {f1, f2}

\* Two names of the first file, one of which is forbidden; the second file is
\* the rest of the tree.
TwoNames == {n1, n2}
OfFirstFile == [n \in TwoNames |-> f1]
FirstName == {n1}
=============================================================================
