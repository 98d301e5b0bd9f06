--------------------------- MODULE AgentTheorems ---------------------------
(***************************************************************************)
(* Proofs about AgentRun.  Traces is what relates the branch to the place  *)
(* in the graph: an agent has a commit only after its push, at most one,   *)
(* and that commit differs from its parent in the files it was meant to.   *)
(***************************************************************************)
EXTENDS AgentProperties, TLAPS

\* Where in the graph an agent may already have a commit.
AfterPush == {"discover", "escalate", "end"}

Unused ==
  \A c \in Commit : c > head => by[c] = "nobody"

OneCommit ==
  \A a \in Agent :
    /\ pc[a] \notin AfterPush => \A c \in Commit : by[c] # a
    /\ \A c, d \in Commit : by[c] = a /\ by[d] = a => c = d

Accounted ==
  \A a \in Agent :
    /\ pc[a] = "escalate" => status[a] = "CANNOT_FIX"
    /\ pc[a] = "end" => status[a] \in {"CANNOT_FIX", "FIX_PUSHED"}
    /\ pc[a] # "end" => ~escalated[a]
    /\ pc[a] = "end" => (status[a] = "CANNOT_FIX" <=> escalated[a])

Touched ==
  \A a \in Agent, c \in Commit, f \in File :
    by[c] = a /\ f \notin Written(a) => c > 1 /\ tree[c][f] = tree[c - 1][f]

RootIsHuman == by[1] = "human"

Traces == Unused /\ OneCommit /\ Accounted /\ Touched /\ RootIsHuman

AgentInv == TypeOK /\ Traces

-----------------------------------------------------------------------------
(* The routes. *)

\* route_fix_outcome sends the two statuses llm_fix_code returns to nodes of
\* the graph, and a fix to its end.
LEMMA Routes ==
  /\ \A r \in {"RUNNING", "CANNOT_FIX"} : RouteClone(r) = IF r = "CANNOT_FIX" THEN "escalate" ELSE "fetch"
  /\ \A n : RouteFix("CANNOT_FIX", n) = "escalate" /\ RouteFix("FIX_PUSHED", n) = "end"
  BY DEF RouteClone, RouteFix

\* The node attempts stay counted from one to the limit.
LEMMA AttemptsBounded ==
  ASSUME NEW n \in 1 .. MaxRetryAttempts
  PROVE  (IF n < MaxRetryAttempts THEN n + 1 ELSE n) \in 1 .. MaxRetryAttempts
  BY AgentAssumption

-----------------------------------------------------------------------------
(* The invariant. *)

\* The initial states satisfy the invariant.
LEMMA AgentInit == Init => AgentInv
  <1> SUFFICES ASSUME Init PROVE AgentInv
    OBVIOUS
  <1> USE AgentAssumption
  <1>1. TypeOK
    BY DEF Init, TypeOK, Commit, PC, Status, Nobody
  <1>2. Traces
    BY DEF Init, Traces, Unused, OneCommit, Accounted, Touched, RootIsHuman, Commit, AfterPush
  <1> QED
    BY <1>1, <1>2 DEF AgentInv

\* What is written to the branch is a tree of the files.
LEMMA PatchedType ==
  ASSUME TypeOK, NEW a \in Agent, head < MaxCommits
  PROVE  Patched(a) \in [File -> SUBSET Commit]
  <1>1. head + 1 \in Commit
    BY AgentAssumption DEF TypeOK, Commit
  <1>2. \A c \in Commit, f \in File : tree[c][f] \subseteq Commit
    BY DEF TypeOK
  <1>3. workspace[a] \in Commit /\ base[a] \in Commit
    BY DEF TypeOK
  <1> QED
    BY <1>1, <1>2, <1>3 DEF Patched

\* Every step preserves the types.
LEMMA AgentTypeStep == TypeOK /\ [Next]_vars => TypeOK'
  <1> SUFFICES ASSUME TypeOK, [Next]_vars PROVE TypeOK'
    OBVIOUS
  <1> USE AgentAssumption
  <1>0. CASE UNCHANGED vars
    BY <1>0 DEF TypeOK, vars, branch
  <1>1. ASSUME NEW f \in File, HumanCommits(f) PROVE TypeOK'
    <2>1. head + 1 \in Commit
      BY <1>1 DEF HumanCommits, AppendCommit, TypeOK, Commit
    <2>2. [tree[head] EXCEPT ![f] = @ \cup {head + 1}] \in [File -> SUBSET Commit]
      BY <2>1 DEF TypeOK
    <2> QED
      BY <1>1, <2>1, <2>2 DEF HumanCommits, AppendCommit, TypeOK
  <1>2. ASSUME NEW a \in Agent, NEW c \in Commit, NEW n \in 1 .. MaxRetryAttempts, Invoke(a, c, n)
        PROVE  TypeOK'
    BY <1>2 DEF Invoke, Goto, branch, TypeOK, PC
  <1>3. ASSUME NEW a \in Agent, Work(a) PROVE TypeOK'
    <2> DEFINE bumped == IF attempt[a] < MaxRetryAttempts THEN attempt[a] + 1 ELSE attempt[a]
    <2>0. /\ bumped \in 1 .. MaxRetryAttempts
          /\ \A r \in {"FIX_PUSHED", "CANNOT_FIX"}, n \in Nat : RouteFix(r, n) \in PC
          /\ \A r \in {"RUNNING", "CANNOT_FIX"} : RouteClone(r) \in PC
      BY Routes, AttemptsBounded DEF TypeOK, PC
    <2>00. ASSUME NEW r \in {"FIX_PUSHED", "CANNOT_FIX"}, FixReturns(a, r)
           PROVE  /\ status' \in [Agent -> Status]
                  /\ attempt' \in [Agent -> 1 .. MaxRetryAttempts]
                  /\ pc' \in [Agent -> PC]
      <3>1. bumped \in Nat
        BY <2>0
      <3>2. /\ status' = [status EXCEPT ![a] = r]
            /\ attempt' = [attempt EXCEPT ![a] = bumped]
            /\ pc' = [pc EXCEPT ![a] = RouteFix(r, bumped)]
        BY <2>00 DEF FixReturns, Goto
      <3>3. RouteFix(r, bumped) \in PC
        BY <2>0, <3>1
      <3> QED
        BY <2>0, <3>2, <3>3 DEF TypeOK, Status
    <2>1. CASE \E result \in {"RUNNING", "CANNOT_FIX"} : CloneRepository(a, result)
      BY <2>0, <2>1 DEF CloneRepository, Goto, branch, TypeOK, Status
    <2>2. CASE \E files \in SUBSET File : FetchLogsAndAlert(a, files)
      BY <2>2 DEF FetchLogsAndAlert, Goto, branch, TypeOK, PC
    <2>3. CASE NodeRaises(a) \/ AskLlm(a)
      BY <2>3 DEF NodeRaises, AskLlm, Goto, branch, TypeOK, PC
    <2>4. CASE SkipLlm(a) \/ LlmFails(a)
      BY <2>00, <2>4 DEF SkipLlm, LlmFails, branch, TypeOK
    <2>5. CASE \E names \in SUBSET Name \ {{}} : LlmProposes(a, names)
      BY <2>5 DEF LlmProposes, Goto, branch, TypeOK, PC
    <2>6. CASE CloneWorkspace(a)
      BY <2>6 DEF CloneWorkspace, Goto, branch, TypeOK, PC
    <2>7. CASE CloneFails(a)
      BY <2>7, Routes DEF CloneFails, Goto, branch, TypeOK, PC, Status
    <2>8. CASE NothingToPush(a)
      BY <2>00, <2>8 DEF NothingToPush, branch, TypeOK
    <2>9. CASE PushAccepted(a)
      <3>1. head + 1 \in Commit /\ head < MaxCommits
        BY <2>9 DEF PushAccepted, AppendCommit, TypeOK, Commit
      <3>2. Patched(a) \in [File -> SUBSET Commit]
        BY <3>1, PatchedType
      <3> QED
        BY <2>9, <3>1, <3>2 DEF PushAccepted, AppendCommit, Goto, TypeOK, PC
    <2>10. CASE PushRejected(a)
      BY <2>10 DEF PushRejected, Goto, branch, TypeOK, PC
    <2>11. CASE \E result \in {"FIX_PUSHED", "CANNOT_FIX"} : DiscoverRun(a, result)
      BY <2>00, <2>11 DEF DiscoverRun, branch, TypeOK
    <2>12. CASE NotifyHumanEscalation(a)
      BY <2>12 DEF NotifyHumanEscalation, Goto, branch, TypeOK, PC
    <2> QED
      BY <1>3, <2>1, <2>2, <2>3, <2>4, <2>5, <2>6, <2>7, <2>8, <2>9, <2>10, <2>11, <2>12 DEF Work
  <1> QED
    BY <1>0, <1>1, <1>2, <1>3 DEF Next

\* What the attempts do: every action but the two that write to the branch
\* leaves it alone; proposals are made before the push; an agent acts on its
\* own place in the graph only.
LEMMA OwnPlace ==
  ASSUME TypeOK, NEW a \in Agent, Work(a)
  PROVE  /\ \A b \in Agent \ {a} : /\ pc'[b] = pc[b]
                                   /\ status'[b] = status[b]
                                   /\ escalated'[b] = escalated[b]
                                   /\ proposal'[b] = proposal[b]
         /\ proposal'[a] # proposal[a] => pc[a] = "llm"
         /\ pc[a] \in AfterPush => pc'[a] \in AfterPush
         /\ UNCHANGED branch \/ PushAccepted(a)
  BY Routes DEF Work, TypeOK, AfterPush, CloneRepository, FetchLogsAndAlert, NodeRaises, SkipLlm,
     AskLlm, LlmFails, LlmProposes, CloneWorkspace, CloneFails, NothingToPush, PushAccepted,
     PushRejected, DiscoverRun, NotifyHumanEscalation, FixReturns, Goto

\* Where a route leads and what it leaves in ci_status.
LEMMA Outcomes ==
  ASSUME TypeOK, NEW a \in Agent, Work(a)
  PROVE  /\ pc'[a] = "escalate" => status'[a] = "CANNOT_FIX" /\ UNCHANGED escalated
         /\ pc'[a] = "end" =>
              \/ status'[a] = "FIX_PUSHED" /\ UNCHANGED escalated
              \/ pc[a] = "escalate" /\ UNCHANGED status /\ escalated'[a] = TRUE
         /\ pc'[a] # "end" => UNCHANGED escalated
         /\ pc[a] \notin {"end", "idle", "raised"}
  BY Routes DEF Work, TypeOK, CloneRepository, FetchLogsAndAlert, NodeRaises, SkipLlm, PC,
     AskLlm, LlmFails, LlmProposes, CloneWorkspace, CloneFails, NothingToPush, PushAccepted,
     PushRejected, DiscoverRun, NotifyHumanEscalation, FixReturns, Goto

\* The end of a graph run stays accounted for.
LEMMA AccountedStep ==
  ASSUME AgentInv, [Next]_vars
  PROVE  Accounted'
  <1> USE DEF AgentInv, Traces
  <1>1. CASE UNCHANGED vars
    BY <1>1 DEF vars, Accounted
  <1>2. ASSUME NEW f \in File, HumanCommits(f) PROVE Accounted'
    BY <1>2 DEF HumanCommits, Accounted
  <1>3. ASSUME NEW a \in Agent, NEW c \in Commit, NEW n \in 1 .. MaxRetryAttempts, Invoke(a, c, n)
        PROVE  Accounted'
    BY <1>3 DEF Invoke, Goto, Accounted, TypeOK
  <1>4. ASSUME NEW a \in Agent, Work(a) PROVE Accounted'
    <2>1. ASSUME NEW b \in Agent \ {a}
          PROVE  pc'[b] = pc[b] /\ status'[b] = status[b] /\ escalated'[b] = escalated[b]
      BY <1>4, OwnPlace
    <2>2. /\ pc'[a] = "escalate" => status'[a] = "CANNOT_FIX"
          /\ pc'[a] = "end" => status'[a] \in {"CANNOT_FIX", "FIX_PUSHED"}
          /\ pc'[a] # "end" => ~escalated'[a]
          /\ pc'[a] = "end" => (status'[a] = "CANNOT_FIX" <=> escalated'[a])
      BY <1>4, Outcomes DEF Accounted
    <2> QED
      BY <2>1, <2>2 DEF Accounted
  <1> QED
    BY <1>1, <1>2, <1>3, <1>4 DEF Next

\* A push is the only step of an agent that adds to the branch.
LEMMA BranchWriters ==
  ASSUME AgentInv, [Next]_vars
  PROVE  \/ UNCHANGED branch
         \/ \E f \in File : HumanCommits(f)
         \/ \E a \in Agent : PushAccepted(a)
  <1>1. CASE UNCHANGED vars
    BY <1>1 DEF vars, branch
  <1>2. ASSUME NEW a \in Agent, NEW c \in Commit, NEW n \in 1 .. MaxRetryAttempts, Invoke(a, c, n)
        PROVE  UNCHANGED branch
    BY <1>2 DEF Invoke
  <1>3. ASSUME NEW a \in Agent, Work(a) PROVE UNCHANGED branch \/ PushAccepted(a)
    BY <1>3, OwnPlace DEF AgentInv
  <1> QED
    BY <1>1, <1>2, <1>3 DEF Next

\* What is on the branch stays; what is new is one commit after the head.
LEMMA BranchStep ==
  ASSUME AgentInv, [Next]_vars
  PROVE  /\ Unused' /\ RootIsHuman'
         /\ \A c \in Commit : c # head + 1 => by'[c] = by[c] /\ tree'[c] = tree[c]
         /\ \A a \in Agent : by'[head + 1] = a /\ head + 1 \in Commit => PushAccepted(a)
  <1> USE AgentAssumption DEF AgentInv, Traces, Commit
  <1> head \in Commit
    BY DEF TypeOK
  <1>1. CASE UNCHANGED branch
    BY <1>1 DEF branch, Unused, RootIsHuman
  <1>2. ASSUME NEW f \in File, HumanCommits(f)
        PROVE  /\ head' = head + 1 /\ head < MaxCommits
               /\ by' = [by EXCEPT ![head + 1] = "human"]
               /\ \E content : tree' = [tree EXCEPT ![head + 1] = content]
    BY <1>2 DEF HumanCommits, AppendCommit
  <1>3. ASSUME NEW a \in Agent, PushAccepted(a)
        PROVE  /\ head' = head + 1 /\ head < MaxCommits
               /\ by' = [by EXCEPT ![head + 1] = a]
               /\ \E content : tree' = [tree EXCEPT ![head + 1] = content]
    BY <1>3 DEF PushAccepted, AppendCommit
  <1>4. ASSUME NEW f \in File, HumanCommits(f)
        PROVE  /\ Unused' /\ RootIsHuman'
               /\ \A c \in Commit : c # head + 1 => by'[c] = by[c] /\ tree'[c] = tree[c]
               /\ by'[head + 1] = "human"
    BY <1>2, <1>4 DEF Unused, RootIsHuman, TypeOK
  <1>5. ASSUME NEW a \in Agent, PushAccepted(a)
        PROVE  /\ Unused' /\ RootIsHuman'
               /\ \A c \in Commit : c # head + 1 => by'[c] = by[c] /\ tree'[c] = tree[c]
               /\ by'[head + 1] = a
    BY <1>3, <1>5 DEF Unused, RootIsHuman, TypeOK
  <1>6. CASE UNCHANGED branch
    <2>1. head + 1 \in Commit => by'[head + 1] = "nobody"
      BY <1>6 DEF branch, Unused
    <2> QED
      BY <1>1, <1>6, <2>1 DEF branch
  <1> QED
    BY <1>4, <1>5, <1>6, BranchWriters

\* Nobody's proposal changes, and nobody leaves the end of the graph, once the
\* push is behind.
LEMMA PlacesStep ==
  ASSUME AgentInv, [Next]_vars, NEW b \in Agent
  PROVE  /\ pc[b] \in AfterPush => pc'[b] \in AfterPush /\ proposal'[b] = proposal[b]
         /\ PushAccepted(b) => pc[b] = "push" /\ pc'[b] = "discover" /\ proposal'[b] = proposal[b]
  <1> USE DEF AgentInv
  <1>1. CASE UNCHANGED vars
    BY <1>1 DEF vars, TypeOK, PushAccepted, Goto
  <1>2. ASSUME NEW f \in File, HumanCommits(f)
        PROVE  pc' = pc /\ proposal' = proposal
    BY <1>2 DEF HumanCommits
  <1>3. ASSUME NEW a \in Agent, NEW c \in Commit, NEW n \in 1 .. MaxRetryAttempts, Invoke(a, c, n)
        PROVE  pc[b] \in AfterPush => pc'[b] \in AfterPush /\ proposal'[b] = proposal[b]
    BY <1>3 DEF Invoke, Goto, TypeOK, AfterPush
  <1>4. ASSUME NEW a \in Agent, Work(a)
        PROVE  pc[b] \in AfterPush => pc'[b] \in AfterPush /\ proposal'[b] = proposal[b]
    BY <1>4, OwnPlace DEF AfterPush
  <1>5. PushAccepted(b) => pc[b] = "push" /\ pc'[b] = "discover" /\ proposal'[b] = proposal[b]
    BY DEF PushAccepted, Goto, TypeOK
  <1> QED
    BY <1>1, <1>2, <1>3, <1>4, <1>5 DEF Next, vars

\* An agent still has at most one commit, made by its push.
LEMMA OneCommitStep ==
  ASSUME AgentInv, [Next]_vars
  PROVE  OneCommit'
  <1> SUFFICES ASSUME NEW a \in Agent
               PROVE  /\ pc'[a] \notin AfterPush => \A c \in Commit : by'[c] # a
                      /\ \A c, d \in Commit : by'[c] = a /\ by'[d] = a => c = d
    BY DEF OneCommit
  <1>1. /\ pc[a] \notin AfterPush => \A c \in Commit : by[c] # a
        /\ \A c, d \in Commit : by[c] = a /\ by[d] = a => c = d
    BY DEF AgentInv, Traces, OneCommit
  <1>2. CASE PushAccepted(a)
    <2>1. pc[a] \notin AfterPush /\ pc'[a] \in AfterPush
      BY <1>2, PlacesStep DEF AfterPush
    <2> QED
      BY <1>1, <2>1, BranchStep
  <1>3. CASE ~PushAccepted(a)
    <2>1. \A c \in Commit : by'[c] = a => by[c] = a
      BY <1>3, BranchStep
    <2> QED
      BY <1>1, <2>1, PlacesStep
  <1> QED
    BY <1>2, <1>3

\* The commits on the branch still touch only what their agent proposed.
LEMMA TouchedStep ==
  ASSUME AgentInv, [Next]_vars
  PROVE  Touched'
  <1> USE AgentAssumption
  <1> SUFFICES ASSUME NEW a \in Agent, NEW c \in Commit, NEW f \in File,
                      by'[c] = a, f \notin Written(a)'
               PROVE  c > 1 /\ tree'[c][f] = tree'[c - 1][f]
    BY DEF Touched
  <1>00. proposal'[a] = proposal[a] => Written(a)' = Written(a)
    BY DEF Written
  <1>0. head \in 1 .. MaxCommits /\ c \in 1 .. MaxCommits /\ Commit = 1 .. MaxCommits
    BY DEF AgentInv, TypeOK, Commit
  <1>1. CASE c # head + 1
    <2>1. by[c] = a /\ tree'[c] = tree[c]
      BY <1>1, BranchStep
    <2>2. pc[a] \in AfterPush
      BY <2>1 DEF AgentInv, Traces, OneCommit
    <2>3. proposal'[a] = proposal[a]
      BY <2>2, PlacesStep
    <2>4. c > 1 /\ tree[c][f] = tree[c - 1][f]
      BY <1>00, <2>1, <2>3 DEF AgentInv, Traces, Touched
    <2>5. c <= head
      BY <2>1, <1>0 DEF AgentInv, Traces, Unused
    <2>6. c - 1 \in Commit /\ c - 1 # head + 1
      BY <1>0, <2>4, <2>5
    <2>7. tree'[c - 1] = tree[c - 1]
      BY <2>6, BranchStep
    <2> QED
      BY <2>1, <2>4, <2>7
  <1>2. CASE c = head + 1
    <2>1. PushAccepted(a)
      BY <1>2, BranchStep
    <2>2. /\ workspace[a] = head
          /\ tree' = [tree EXCEPT ![head + 1] = Patched(a)]
      BY <2>1 DEF PushAccepted, FastForward, AppendCommit
    <2>3. proposal'[a] = proposal[a]
      BY <2>1, PlacesStep
    <2>4. tree'[c][f] = tree[head][f]
      BY <1>00, <1>2, <2>2, <2>3 DEF Patched, AgentInv, TypeOK
    <2>5. tree'[head] = tree[head]
      BY <1>0, BranchStep
    <2> QED
      BY <1>0, <1>2, <2>4, <2>5
  <1> QED
    BY <1>1, <1>2

\* Every step preserves the invariant.
LEMMA AgentStep == AgentInv /\ [Next]_vars => AgentInv'
  BY AgentTypeStep, AccountedStep, BranchStep, OneCommitStep, TouchedStep DEF AgentInv, Traces

\* The invariant holds throughout.
LEMMA AgentInvariant == Spec => []AgentInv
  BY AgentInit, AgentStep, PTL DEF Spec

-----------------------------------------------------------------------------
(* The theorems. *)

\* The graph's state has its types.
THEOREM AgentTypeCorrect == Spec => []TypeOK
  <1>1. AgentInv => TypeOK
    BY DEF AgentInv
  <1> QED
    BY <1>1, AgentInvariant, PTL

\* A graph run ends with a pushed fix or with a human called, never silently:
\* the routes of graph.py and the statuses of nodes.py fit together.
THEOREM AccountedCorrect == Spec => []EndedIsAccounted
  <1>1. AgentInv => EndedIsAccounted
    BY DEF AgentInv, Traces, Accounted, EndedIsAccounted
  <1> QED
    BY <1>1, AgentInvariant, PTL

\* However many people and agents push to the branch, a commit of an agent
\* differs from its parent only in files its model rewrote under names that
\* are not on the list: what git_manager.py clones and what the remote accepts leave no
\* room for anything else.
THEOREM TouchesCorrect == Spec => []TouchesOnlyProposal
  <1>1. AgentInv => TouchesOnlyProposal
    BY DEF AgentInv, Traces, Touched, TouchesOnlyProposal, Landed, Written
  <1> QED
    BY <1>1, AgentInvariant, PTL

-----------------------------------------------------------------------------
(* The graph implements its contract. *)

\* Nothing has landed or been reported in the initial states.
LEMMA ContractInit == Init => Contract!Init
  BY AgentAssumption DEF Init, Contract!Init, Landed, Commit

\* A push is the contract's Land.
LEMMA PushLands ==
  ASSUME AgentInv, [Next]_vars, NEW a \in Agent, PushAccepted(a)
  PROVE  Contract!Land(a, head + 1)
  <1> USE AgentAssumption
  <1>0. head + 1 \in Commit /\ by'[head + 1] = a
    BY DEF PushAccepted, AppendCommit, AgentInv, TypeOK, Commit
  <1>1. pc[a] = "push" /\ pc' = [pc EXCEPT ![a] = "discover"] /\ UNCHANGED status
    BY DEF PushAccepted, Goto
  <1>2. Landed(a) = {}
    BY <1>1 DEF AgentInv, Traces, OneCommit, AfterPush, Landed
  <1>3. by[head + 1] = "nobody"
    BY <1>0 DEF AgentInv, Traces, Unused, TypeOK, Commit
  <1>4. \A b \in Agent : head + 1 \notin Landed(b)
    BY <1>3 DEF Landed
  <1>5. Landed(a)' = {head + 1}
    BY <1>0, <1>2, BranchStep DEF Landed
  <1>6. \A b \in Agent \ {a} : Landed(b)' = Landed(b)
    BY <1>0, <1>3, BranchStep DEF Landed
  <1>7. \A b \in Agent : pc'[b] = IF b = a THEN "discover" ELSE pc[b]
    BY <1>1 DEF AgentInv, TypeOK
  <1> DEFINE landed == [b \in Agent |-> Landed(b)]
             report == [b \in Agent |-> IF pc[b] = "end" THEN status[b]
                                        ELSE IF pc[b] = "raised" THEN "error" ELSE "none"]
  <1>8. landed' = [landed EXCEPT ![a] = {head + 1}]
    BY <1>5, <1>6
  <1>9. report' = report
    BY <1>1, <1>7
  <1>10. report[a] = "none"
    BY <1>1
  <1> QED
    BY <1>2, <1>4, <1>8, <1>9, <1>10 DEF Contract!Land

\* A step that pushes nothing reports, or is invisible to the handler.
LEMMA OthersReport ==
  ASSUME AgentInv, [Next]_vars, \A a \in Agent : ~PushAccepted(a)
  PROVE  [Contract!Next]_Contract!contract
  <1> USE AgentAssumption
  <1> DEFINE rep(p, s) == IF p = "end" THEN s ELSE IF p = "raised" THEN "error" ELSE "none"
  <1>1. \A b \in Agent : Landed(b)' = Landed(b)
    <2>1. ASSUME NEW b \in Agent, NEW c \in Commit
          PROVE  by'[c] = b <=> by[c] = b
      <3>1. CASE c # head + 1
        BY <3>1, BranchStep
      <3>2. CASE c = head + 1
        BY <3>2, BranchStep DEF AgentInv, Traces, Unused, TypeOK, Commit
      <3> QED
        BY <3>1, <3>2
    <2> QED
      BY <2>1 DEF Landed
  <1>2. (\A b \in Agent : rep(pc'[b], status'[b]) = rep(pc[b], status[b])) => UNCHANGED Contract!contract
    BY <1>1 DEF Contract!contract
  <1>3. CASE UNCHANGED vars \/ \E f \in File : HumanCommits(f)
    BY <1>2, <1>3 DEF vars, HumanCommits
  <1>4. ASSUME NEW a \in Agent, NEW c \in Commit, NEW n \in 1 .. MaxRetryAttempts, Invoke(a, c, n)
        PROVE  UNCHANGED Contract!contract
    BY <1>2, <1>4 DEF Invoke, Goto, AgentInv, TypeOK
  <1>5. ASSUME NEW a \in Agent, Work(a)
        PROVE  [Contract!Next]_Contract!contract
    <2>1. \A b \in Agent \ {a} : pc'[b] = pc[b] /\ status'[b] = status[b]
      BY <1>5, OwnPlace DEF AgentInv
    <2>2. pc[a] \notin {"end", "idle", "raised"}
      BY <1>5, Outcomes DEF AgentInv
    <2>3. CASE pc'[a] \notin {"end", "raised"}
      BY <1>2, <2>1, <2>2, <2>3
    <2>4. CASE pc'[a] \in {"end", "raised"}
      <3>1. PICK r \in {"FIX_PUSHED", "CANNOT_FIX", "error"} : r = rep(pc'[a], status'[a])
        BY <2>4, AccountedStep DEF Accounted
      <3>2. r = "error" => Landed(a) = {}
        <4>1. SUFFICES ASSUME pc'[a] = "raised" PROVE Landed(a) = {}
          BY <2>4, <3>1, AccountedStep DEF Accounted
        <4>2. pc[a] \notin AfterPush
          BY <4>1, PlacesStep DEF AfterPush
        <4> QED
          BY <4>2 DEF AgentInv, Traces, OneCommit, Landed
      <3>3. Contract!Report(a, r)
        BY <1>1, <2>1, <2>2, <2>4, <3>1, <3>2 DEF Contract!Report
      <3> QED
        BY <3>3 DEF Contract!Next
    <2> QED
      BY <2>3, <2>4
  <1> QED
    BY <1>3, <1>4, <1>5 DEF Next

\* Whatever the number of agents, commits and files, the graph gives the
\* handler what AgentContract promises: at most one commit per run, none after
\* the report, none when it raised.
THEOREM ContractImplemented == Spec => RefinesContract
  <1>1. AgentInv /\ [Next]_vars => [Contract!Next]_Contract!contract
    <2> SUFFICES ASSUME AgentInv, [Next]_vars PROVE [Contract!Next]_Contract!contract
      OBVIOUS
    <2>1. ASSUME NEW a \in Agent, PushAccepted(a)
          PROVE  Contract!Next
      <3>1. head + 1 \in Commit
        BY <2>1, AgentAssumption DEF PushAccepted, AppendCommit, AgentInv, TypeOK, Commit
      <3> QED
        BY <2>1, <3>1, PushLands DEF Contract!Next
    <2> QED
      BY <2>1, OthersReport
  <1> QED
    BY <1>1, ContractInit, AgentInvariant, PTL DEF Spec, RefinesContract, Contract!Spec
-----------------------------------------------------------------------------
(* A graph run comes to its end: what of RunsEnd needs no fairness. *)

\* How many more nodes and awaits a run passes, at most, from one on.
StepsLeft(label) ==
  CASE label \in {"end", "raised"} -> 0
    [] label = "escalate" -> 1
    [] label = "discover" -> 2
    [] label = "push" -> 3
    [] label = "workspace" -> 4
    [] label = "llm" -> 5
    [] label = "analyze" -> 6
    [] label = "fetch" -> 7
    [] label = "clone" -> 8
    [] label = "idle" -> 9

\* Whoever moves, a run is never set back; its own steps move it.
NeverBack ==
  \A a \in Agent :
    /\ pc'[a] = pc[a] \/ StepsLeft(pc'[a]) < StepsLeft(pc[a])
    /\ Work(a) => StepsLeft(pc'[a]) < StepsLeft(pc[a])

\* No route of the graph leads back.
LEMMA RoutesLeadOn ==
  ASSUME TypeOK, NEW a \in Agent, Work(a)
  PROVE  StepsLeft(pc'[a]) < StepsLeft(pc[a])
  <1>g. \A label : Goto(a, label) => pc'[a] = label
    BY DEF Goto, TypeOK
  <1>f. \A r \in {"FIX_PUSHED", "CANNOT_FIX"} : FixReturns(a, r) => pc'[a] \in {"end", "escalate"}
    BY <1>g, Routes DEF FixReturns
  <1> USE DEF StepsLeft
  <1>1. ASSUME NEW r \in {"RUNNING", "CANNOT_FIX"}, CloneRepository(a, r)
        PROVE  StepsLeft(pc'[a]) < StepsLeft(pc[a])
    <2>1. pc[a] = "clone" /\ pc'[a] \in {"fetch", "escalate"}
      BY <1>1, <1>g, Routes DEF CloneRepository
    <2> QED
      BY <2>1
  <1>2. ASSUME NEW files, FetchLogsAndAlert(a, files) \/ LlmProposes(a, files)
        PROVE  StepsLeft(pc'[a]) < StepsLeft(pc[a])
    BY <1>2, <1>g DEF FetchLogsAndAlert, LlmProposes
  <1>3. CASE NodeRaises(a) \/ AskLlm(a) \/ CloneWorkspace(a) \/ PushAccepted(a) \/ PushRejected(a)
             \/ NotifyHumanEscalation(a)
    BY <1>3, <1>g DEF NodeRaises, AskLlm, CloneWorkspace, PushAccepted, PushRejected,
       NotifyHumanEscalation
  <1>4. CASE SkipLlm(a) \/ LlmFails(a) \/ NothingToPush(a)
    <2>1. pc[a] \in {"analyze", "llm", "push"} /\ pc'[a] \in {"end", "escalate"}
      BY <1>4, <1>f DEF SkipLlm, LlmFails, NothingToPush
    <2> QED
      BY <2>1
  <1>5. CASE CloneFails(a)
    <2>1. pc[a] = "workspace" /\ pc'[a] = "escalate"
      BY <1>5, <1>g, Routes DEF CloneFails
    <2> QED
      BY <2>1
  <1>6. ASSUME NEW r \in {"FIX_PUSHED", "CANNOT_FIX"}, DiscoverRun(a, r)
        PROVE  StepsLeft(pc'[a]) < StepsLeft(pc[a])
    <2>1. pc[a] = "discover" /\ pc'[a] \in {"end", "escalate"}
      BY <1>6, <1>f DEF DiscoverRun
    <2> QED
      BY <2>1
  <1> QED
    BY <1>1, <1>2, <1>3, <1>4, <1>5, <1>6 DEF Work

\* graph.py has an edge from llm_fix_code back to itself, but the statuses the
\* node returns never take it: a run passes each node at most once, however
\* many runs and people share the branch.  With fairness of the event loop
\* that is RunsEnd.
THEOREM GraphRunsOut == Spec => [][NeverBack]_vars
  <1>1. AgentInv /\ [Next]_vars => NeverBack \/ UNCHANGED vars
    <2> SUFFICES ASSUME AgentInv, Next PROVE NeverBack
      OBVIOUS
    <2>t. TypeOK
      BY DEF AgentInv
    <2>1. ASSUME NEW a \in Agent, Work(a)
          PROVE  StepsLeft(pc'[a]) < StepsLeft(pc[a])
      BY <2>1, <2>t, RoutesLeadOn
    <2>2. ASSUME NEW a \in Agent
          PROVE  pc'[a] = pc[a] \/ StepsLeft(pc'[a]) < StepsLeft(pc[a])
      <3>1. ASSUME NEW f \in File, HumanCommits(f) PROVE pc'[a] = pc[a]
        BY <3>1 DEF HumanCommits
      <3>2. ASSUME NEW b \in Agent, NEW c \in Commit, NEW n \in 1 .. MaxRetryAttempts, Invoke(b, c, n)
            PROVE  pc'[a] = pc[a] \/ (pc[a] = "idle" /\ pc'[a] = "clone")
        BY <2>t, <3>2 DEF Invoke, Goto, TypeOK
      <3>3. ASSUME NEW b \in Agent, Work(b)
            PROVE  pc'[a] = pc[a] \/ StepsLeft(pc'[a]) < StepsLeft(pc[a])
        BY <2>t, <2>1, <3>3, OwnPlace
      <3>4. pc[a] = "idle" /\ pc'[a] = "clone" => StepsLeft(pc'[a]) < StepsLeft(pc[a])
        BY DEF StepsLeft
      <3> QED
        BY <3>1, <3>2, <3>3, <3>4 DEF Next
    <2> QED
      BY <2>1, <2>2 DEF NeverBack
  <1> QED
    BY <1>1, AgentInvariant, PTL DEF Spec
=============================================================================
