----------------------------- MODULE AgentRun -----------------------------
(***************************************************************************)
(* graph.py, nodes.py and services/git_manager.py: the graph that          *)
(* run_agent executes, single pass, for several failing runs of one branch *)
(* while people go on committing to it.                                    *)
(*                                                                         *)
(* The agent reads the sources at the failing commit, and the model        *)
(* answers with complete file contents; these overwrite the files of a     *)
(* fresh clone of the branch HEAD.  Git is called synchronously: from the  *)
(* model's answer to the push the event loop belongs to one agent, the     *)
(* remote does not.                                                        *)
(*                                                                         *)
(* A file version is the set of commits whose edits it contains.           *)
(***************************************************************************)
EXTENDS Naturals, FiniteSets

CONSTANTS
  Agent,             \* graph runs; each runs once
  File,
  Name,              \* the names the model may give to files
  FileOf,            \* Name -> the file its path leads to, or Outside
  Guarded,           \* the names FORBIDDEN_PATHS matches, as they are spelled
  MaxCommits,        \* bound: commits on the branch
  MaxRetryAttempts   \* settings.max_retry_attempts

Outside == "outside"

ASSUME AgentAssumption ==
  /\ Guarded \subseteq Name /\ FileOf \in [Name -> File \cup {Outside}] /\ Outside \notin File
  /\ MaxCommits \in Nat \ {0} /\ MaxRetryAttempts \in Nat \ {0}
  /\ "human" \notin Agent /\ "nobody" \notin Agent /\ "none" \notin Agent

Commit == 1 .. MaxCommits
Nobody == "none"

VARIABLES
  head,       \* number of commits on the branch
  by,         \* Commit -> who made it
  tree,       \* Commit -> File -> the edits in it
  loop,       \* the agent that blocks the event loop, or Nobody
  pc,         \* Agent -> the part of the graph it is about to run
  base,       \* Agent -> state["commit_sha"], the failing commit
  attempt,    \* Agent -> state["attempt_count"], saturating
  sources,    \* Agent -> the files it fetched at base
  proposal,   \* Agent -> the names of the files the model rewrote
  workspace,  \* Agent -> the commit it cloned to patch
  status,     \* Agent -> state["ci_status"]
  escalated   \* Agent -> was the escalation to a human run?

branch == <<head, by, tree>>
vars == <<head, by, tree, loop, pc, base, attempt, sources, proposal, workspace, status, escalated>>

PC == {"idle", "clone", "fetch", "analyze", "llm", "workspace", "push", "discover", "escalate",
       "end", "raised"}
Status == {"RUNNING", "CANNOT_FIX", "FIX_PUSHED"}

TypeOK ==
  /\ head \in Commit
  /\ by \in [Commit -> Agent \cup {"human", "nobody"}]
  /\ tree \in [Commit -> [File -> SUBSET Commit]]
  /\ loop \in Agent \cup {Nobody}
  /\ pc \in [Agent -> PC]
  /\ base \in [Agent -> Commit]
  /\ attempt \in [Agent -> 1 .. MaxRetryAttempts]
  /\ sources \in [Agent -> SUBSET File]
  /\ proposal \in [Agent -> SUBSET Name]
  /\ workspace \in [Agent -> Commit]
  /\ status \in [Agent -> Status]
  /\ escalated \in [Agent -> BOOLEAN]

Init ==
  /\ head = 1
  /\ by = [c \in Commit |-> IF c = 1 THEN "human" ELSE "nobody"]
  /\ tree = [c \in Commit |-> [f \in File |-> {}]]
  /\ loop = Nobody
  /\ pc = [a \in Agent |-> "idle"]
  /\ base = [a \in Agent |-> 1]
  /\ attempt = [a \in Agent |-> 1]
  /\ sources = [a \in Agent |-> {}]
  /\ proposal = [a \in Agent |-> {}]
  /\ workspace = [a \in Agent |-> 1]
  /\ status = [a \in Agent |-> "RUNNING"]
  /\ escalated = [a \in Agent |-> FALSE]

-----------------------------------------------------------------------------
(* The branch *)

AppendCommit(who, content) ==
  /\ head < MaxCommits
  /\ head' = head + 1
  /\ by' = [by EXCEPT ![head + 1] = who]
  /\ tree' = [tree EXCEPT ![head + 1] = content]

\* Somebody commits an edit of one file, with git's own care for the others.
HumanCommits(f) ==
  /\ AppendCommit("human", [tree[head] EXCEPT ![f] = @ \cup {head + 1}])
  /\ UNCHANGED <<loop, pc, base, attempt, sources, proposal, workspace, status, escalated>>

\* The remote takes only what builds on its head.
FastForward(a) == workspace[a] = head

-----------------------------------------------------------------------------
(* The routes of the graph *)

Goto(a, label) == pc' = [pc EXCEPT ![a] = label]

\* A slip: a route that is no node.
RouteCloneNowhere(result) == IF result = "CANNOT_FIX" THEN "retry" ELSE "fetch"

\* route_clone_outcome
RouteClone(result) == IF result = "CANNOT_FIX" THEN "escalate" ELSE "fetch"

\* Slips: a push is one more attempt (the loop the graph once had inside); a
\* failed fix is tried again however often.
RouteFixLoops(result, n) ==
  IF result = "CANNOT_FIX" \/ n >= MaxRetryAttempts THEN "escalate" ELSE "analyze"
RouteFixAgain(result, n) == IF result = "FIX_PUSHED" THEN "end" ELSE "analyze"

\* route_fix_outcome; llm_fix_code leaves no status but the first two.
RouteFix(result, n) ==
  IF result = "CANNOT_FIX" THEN "escalate"
  ELSE IF result = "FIX_PUSHED" THEN "end"
  ELSE IF n >= MaxRetryAttempts THEN "escalate" ELSE "analyze"

\* The event loop is free for agent a.
Scheduled(a) == loop \in {Nobody, a}

\* llm_fix_code returns: one status, one more attempt, then the route.
FixReturns(a, result) ==
  LET n == IF attempt[a] < MaxRetryAttempts THEN attempt[a] + 1 ELSE attempt[a]
  IN  /\ status' = [status EXCEPT ![a] = result]
      /\ attempt' = [attempt EXCEPT ![a] = n]
      /\ Goto(a, RouteFix(result, n))

-----------------------------------------------------------------------------
(* The nodes *)

\* The handler invokes the graph for a failing commit of the branch.
Invoke(a, c, n) ==
  /\ pc[a] = "idle" /\ Scheduled(a)
  /\ c <= head
  /\ base' = [base EXCEPT ![a] = c]
  /\ attempt' = [attempt EXCEPT ![a] = n]
  /\ Goto(a, "clone")
  /\ UNCHANGED <<branch, loop, sources, proposal, workspace, status, escalated>>

\* clone_repository: can the repository be cloned at all?  The clone is thrown
\* away when the node returns.
CloneRepository(a, result) ==
  /\ pc[a] = "clone" /\ Scheduled(a)
  /\ status' = [status EXCEPT ![a] = result]
  /\ Goto(a, RouteClone(result))
  /\ UNCHANGED <<branch, loop, base, attempt, sources, proposal, workspace, escalated>>

\* fetch_logs_and_alert: some files of the failing commit, as far as the API
\* hands them out.  An error fetching them is survived.
FetchLogsAndAlert(a, files) ==
  /\ pc[a] = "fetch" /\ Scheduled(a)
  /\ sources' = [sources EXCEPT ![a] = files]
  /\ Goto(a, "analyze")
  /\ UNCHANGED <<branch, loop, base, attempt, proposal, workspace, status, escalated>>

\* The CI client or the chat model cannot be built: the node, and the graph,
\* raises.
NodeRaises(a) ==
  /\ pc[a] \in {"fetch", "analyze"} /\ Scheduled(a)
  /\ pc[a] = "analyze" => sources[a] # {}
  /\ Goto(a, "raised")
  /\ UNCHANGED <<branch, loop, base, attempt, sources, proposal, workspace, status, escalated>>

\* llm_fix_code, before the model is asked: infrastructure errors in the logs,
\* or no code to work on.
SkipLlm(a) ==
  /\ pc[a] = "analyze" /\ Scheduled(a)
  /\ FixReturns(a, "CANNOT_FIX")
  /\ UNCHANGED <<branch, loop, base, sources, proposal, workspace, escalated>>

AskLlm(a) ==
  /\ pc[a] = "analyze" /\ Scheduled(a)
  /\ sources[a] # {}
  /\ Goto(a, "llm")
  /\ UNCHANGED <<branch, loop, base, attempt, sources, proposal, workspace, status, escalated>>

\* The model fails, cannot be parsed, or proposes nothing.
LlmFails(a) ==
  /\ pc[a] = "llm" /\ Scheduled(a)
  /\ FixReturns(a, "CANNOT_FIX")
  /\ UNCHANGED <<branch, loop, base, sources, proposal, workspace, escalated>>

\* The answer is parsed and, with no await in between, applied: from here to
\* the push the event loop is blocked.
LlmProposes(a, names) ==
  /\ pc[a] = "llm" /\ Scheduled(a)
  /\ proposal' = [proposal EXCEPT ![a] = names]
  /\ loop' = a
  /\ Goto(a, "workspace")
  /\ UNCHANGED <<branch, base, attempt, sources, workspace, status, escalated>>

\* WorkspaceGitManager.__enter__: the branch as it is now, not the failing
\* commit.
CloneWorkspace(a) ==
  /\ pc[a] = "workspace"
  /\ workspace' = [workspace EXCEPT ![a] = head]
  /\ Goto(a, "push")
  /\ UNCHANGED <<branch, loop, base, attempt, sources, proposal, status, escalated>>

\* GitError, which does not count as an attempt.
CloneFails(a) ==
  /\ pc[a] = "workspace"
  /\ status' = [status EXCEPT ![a] = "CANNOT_FIX"]
  /\ loop' = Nobody
  /\ Goto(a, RouteFix("CANNOT_FIX", attempt[a]))
  /\ UNCHANGED <<branch, base, attempt, sources, proposal, workspace, escalated>>

\* apply_file_changes: a name on the list is skipped, but it is the name that is
\* on the list and the file it leads to that is written.
Written(a) == {FileOf[n] : n \in proposal[a] \ Guarded}

\* A slip: the other files are those of the failing commit, too.
PatchedAtBase(a) ==
  [f \in File |-> IF f \in Written(a) THEN tree[base[a]][f] \cup {head + 1} ELSE tree[base[a]][f]]

\* What the model wrote replaces the file; it knows the edits of the version it
\* was shown.
Patched(a) ==
  [f \in File |->
     IF f \notin Written(a) THEN tree[workspace[a]][f]
     ELSE IF f \in sources[a] THEN tree[base[a]][f] \cup {head + 1}
     ELSE {head + 1}]

\* There is something to commit; one name that leads out of the workspace, and
\* nothing is.
Dirty(a) == Written(a) # {} /\ \A n \in proposal[a] : FileOf[n] # Outside

\* apply_file_changes or commit_and_push fails, or nothing is dirty.
NothingToPush(a) ==
  /\ pc[a] = "push"
  /\ FixReturns(a, "CANNOT_FIX")
  /\ loop' = Nobody
  /\ UNCHANGED <<branch, base, sources, proposal, workspace, escalated>>

\* The remote accepts the commit.
PushAccepted(a) ==
  /\ pc[a] = "push"
  /\ FastForward(a)
  /\ Dirty(a)
  /\ AppendCommit(a, Patched(a))
  /\ loop' = Nobody
  /\ Goto(a, "discover")
  /\ UNCHANGED <<base, attempt, sources, proposal, workspace, status, escalated>>

\* The remote rejects it (the branch has moved on, or is protected): GitPython
\* reports that in the result of push(), which nobody reads.
PushRejected(a) ==
  /\ pc[a] = "push"
  /\ Dirty(a)
  /\ loop' = Nobody
  /\ Goto(a, "discover")
  /\ UNCHANGED <<branch, base, attempt, sources, proposal, workspace, status, escalated>>

\* list_runs for the run id, whose failure is survived; when the CI client
\* cannot be built, the finally clause has no client to close and the outer
\* handler reports CANNOT_FIX.
DiscoverRun(a, result) ==
  /\ pc[a] = "discover" /\ Scheduled(a)
  /\ FixReturns(a, result)
  /\ UNCHANGED <<branch, loop, base, sources, proposal, workspace, escalated>>

\* notify_human_escalation; a message that cannot be sent is logged.
NotifyHumanEscalation(a) ==
  /\ pc[a] = "escalate" /\ Scheduled(a)
  /\ escalated' = [escalated EXCEPT ![a] = TRUE]
  /\ Goto(a, "end")
  /\ UNCHANGED <<branch, loop, base, attempt, sources, proposal, workspace, status>>

Work(a) ==
  \/ \E result \in {"RUNNING", "CANNOT_FIX"} : CloneRepository(a, result)
  \/ \E files \in SUBSET File : FetchLogsAndAlert(a, files)
  \/ NodeRaises(a)
  \/ SkipLlm(a)
  \/ AskLlm(a)
  \/ LlmFails(a)
  \/ \E names \in SUBSET Name \ {{}} : LlmProposes(a, names)
  \/ CloneWorkspace(a)
  \/ CloneFails(a)
  \/ NothingToPush(a)
  \/ PushAccepted(a)
  \/ PushRejected(a)
  \/ \E result \in {"FIX_PUSHED", "CANNOT_FIX"} : DiscoverRun(a, result)
  \/ NotifyHumanEscalation(a)

Next ==
  \/ \E f \in File : HumanCommits(f)
  \/ \E a \in Agent, c \in Commit, n \in 1 .. MaxRetryAttempts : Invoke(a, c, n)
  \/ \E a \in Agent : Work(a)

Spec == Init /\ [][Next]_vars

\* The event loop runs ready tasks; git, HTTP and the model have timeouts.
FairSpec == Spec /\ \A a \in Agent : WF_vars(Work(a))
=============================================================================
