-------------------------- MODULE SessionTheorems --------------------------
(***************************************************************************)
(* Proofs about the retry session of WebhookHandler: one agent at a time,  *)
(* attempts that are counted, one verdict, and so RetrySession implemented.*)
(* They hold where CI runs one workflow once on every commit and no        *)
(* webhook is delivered twice; people may push, authors stay unknown, the  *)
(* push get lost and the server restart as the configuration allows.       *)
(***************************************************************************)
EXTENDS HandlerTheorems, FiniteSetTheorems

-----------------------------------------------------------------------------
(* What a task holds, whatever the provider does *)

\* The task was told how a run ended.
Terminated(t) == ev[t].phase \in Terminal

\* The calls on the way to the agent that only the end of a run leads to.
AfterTerminal == {"complete_session", "exhaust_session", "resolve_target", "find_session",
                  "create_session", "set_max", "mark_working", "update_session"} \cup PcAgent

\* The calls a task makes before it holds a session.
BeforeSession == {"done", "is_duplicate", "match_author", "skip_bot", "find_session",
                  "create_session"}

TaskHolds(t) ==
  /\ pc[t] \in BeforeSession => sid[t] = NoSession
  /\ pc[t] \in AfterTerminal => Terminated(t)
  /\ pc[t] \in {"is_completed", "track_only", "event_status"} /\ sid[t] # NoSession => Terminated(t)
  /\ fix[t] \in Commit => pc[t] \in {"final_status", "update_session"}
  /\ pc[t] = "exhaust_session" => ev[t].phase \in {"failure", "cancelled"}
  /\ pc[t] \in HoldsTarget => IF sid[t] = NoSession THEN tgt[t] = ev[t].key ELSE tgt[t].sha = sid[t]

\* A row is only ever bound to the session of its own commit.
RowsOwn == \A k \in RunKey : runs[k].session # NoSession => runs[k].session = k.sha

HoldsInv == RowsOwn /\ \A t \in Task : TaskHolds(t)

\* What the classifiers say of an event, read backwards.
LEMMA VerdictPhases ==
  ASSUME NEW e \in Event
  PROVE  /\ BotTerminalStatus(e) \in {"success", "failure"} => e.phase \in Terminal
         /\ BotTerminalStatus(e) = "none" => e.phase = "running"
         /\ BotTerminalStatus(e) = "failure" => e.phase \in {"failure", "cancelled"}
         /\ IsFailure(e) => e.phase \in {"failure", "cancelled"}
<1>1. e.phase \in Phase
  BY DEF Event
<1>2. CASE e.phase = "running" /\ Payload(e.phase) = Triple("in_progress", "in_progress", "null")
  BY <1>2 DEF Triple, BotTerminalStatus, IsFailure
<1>3. CASE e.phase \in Terminal /\ Payload(e.phase) = Triple("completed", "completed", e.phase)
  BY <1>3 DEF Triple, BotTerminalStatus, IsFailure, Terminal
<1>4. CASE e.phase = "cancelled" /\ Payload(e.phase) = Triple("failure", "cancelled", "failure")
  BY <1>4 DEF Triple, BotTerminalStatus, IsFailure, Terminal
<1>5. CASE e.phase \in {"success", "failure"} /\ Payload(e.phase) = Triple(e.phase, e.phase, e.phase)
  BY <1>5 DEF Triple, BotTerminalStatus, IsFailure, Terminal
<1>6. QED
  BY <1>1, <1>2, <1>3, <1>4, <1>5, PayloadCases

\* A task that ended holds nothing.
LEMMA EndHolds ==
  ASSUME TypeInv, NEW t \in Task, Return(t) \/ Finally(t)
  PROVE  TaskHolds(t)' /\ pc'[t] = "done" /\ sid'[t] = NoSession /\ fix'[t] \notin Commit
<1>1. pc'[t] = "done" /\ sid'[t] = NoSession /\ fix'[t] \notin Commit
  BY FixKinds DEF Return, Finally, Goto, ForgetLocals, TypeInv, TypeOK, TasksOK, LocalsOK
<1>2. QED
  BY <1>1 DEF TaskHolds, AfterTerminal, BeforeSession, HoldsTarget, PcAgent

\* The rows of a session are its commit's.
LEMMA OwnRows ==
  ASSUME RowsOwn, NEW s \in Commit, NEW k \in LifecycleRows(s)
  PROVE  k \in RunKey /\ k.sha = s
BY DEF RowsOwn, LifecycleRows, Commit, NoSession

\* A step of a task keeps what it holds.
LEMMA HandleHolds ==
  ASSUME TypeInv, HoldsInv, NEW t \in Task, Handle(t)
  PROVE  TaskHolds(t)'
<1> USE DEF locals
<1>t. TasksOK /\ LocalsOK /\ TaskOK(t) /\ TaskHolds(t)
  BY DEF TypeInv, TypeOK, TasksOK, HoldsInv
<1>end. Return(t) \/ Finally(t) => TaskHolds(t)'
  BY EndHolds
<1>e. pc[t] # "done" => ev[t] \in Event /\ ev[t].key \in RunKey /\ ev[t].key.sha \in Commit
  BY <1>t DEF TaskOK, Event, RunKey
<1>p. pc[t] # "done" => /\ BotTerminalStatus(ev[t]) \in {"success", "failure"} => Terminated(t)
                        /\ BotTerminalStatus(ev[t]) = "failure" => ev[t].phase \in {"failure", "cancelled"}
                        /\ IsFailure(ev[t]) => Terminated(t)
  BY <1>e, VerdictPhases DEF Terminated, Terminal
<1>c. NoSession \notin Commit
  BY DEF NoSession, Commit
<1> USE DEF TasksOK, LocalsOK, Goto
<1>1. CASE CheckDuplicate(t)
  BY <1>1, <1>t, <1>end DEF CheckDuplicate, TaskHolds, Terminated, AfterTerminal, BeforeSession,
     HoldsTarget, PcAgent
<1>2. CASE TreatAsHuman(t)
  BY <1>2, <1>t DEF TreatAsHuman, TaskHolds, Terminated, AfterTerminal, BeforeSession, HoldsTarget,
     PcAgent
<1>3. CASE MatchNothing(t)
  BY <1>3, <1>t DEF MatchNothing, TaskHolds, Terminated, AfterTerminal, BeforeSession, HoldsTarget,
     PcAgent
<1>4. ASSUME NEW s \in Commit, MatchSession(t, s)  PROVE  TaskHolds(t)'
  BY <1>4, <1>t, <1>p DEF MatchSession, TaskHolds, Terminated, AfterTerminal, BeforeSession,
     HoldsTarget, PcAgent
<1>5. CASE CloseSession(t)
  BY <1>5, <1>t DEF CloseSession, TaskHolds, Terminated, AfterTerminal, BeforeSession, HoldsTarget,
     PcAgent
<1>6. CASE FindRow(t)
  BY <1>6, <1>t, <1>end, <1>c, OwnRows DEF FindRow, TaskHolds, Terminated, AfterTerminal,
     BeforeSession, HoldsTarget, PcAgent, HoldsSession, TaskOK, HoldsInv
<1>7. CASE UpdateRow(t)
  BY <1>7, <1>t, <1>end DEF UpdateRow, TaskHolds, Terminated, AfterTerminal, BeforeSession,
     HoldsTarget, PcAgent
<1>8. CASE RecordSkippedBot(t)
  BY <1>8, <1>t, <1>end DEF RecordSkippedBot, TaskHolds, Terminated, AfterTerminal, BeforeSession,
     HoldsTarget, PcAgent
<1>9. CASE ResolveTarget(t)
  BY <1>9, <1>t, <1>c, OwnRows DEF ResolveTarget, TaskHolds, Terminated, AfterTerminal,
     BeforeSession, HoldsTarget, PcAgent, HoldsSession, TaskOK, HoldsInv
<1>10. CASE CheckRerun(t)
  BY <1>10, <1>t DEF CheckRerun, TaskHolds, Terminated, AfterTerminal, BeforeSession, HoldsTarget,
     PcAgent
<1>11. CASE TrackOnly(t)
  BY <1>11, <1>t, <1>end DEF TrackOnly, TaskHolds, Terminated, AfterTerminal, BeforeSession,
     HoldsTarget, PcAgent
<1>12. CASE WriteEventStatus(t)
  BY <1>12, <1>t, <1>end, <1>p DEF WriteEventStatus, TaskHolds, Terminated, AfterTerminal,
     BeforeSession, HoldsTarget, PcAgent
<1>13. CASE FindSession(t)
  BY <1>13, <1>t, <1>e, <1>c DEF FindSession, TaskHolds, Terminated, AfterTerminal, BeforeSession,
     HoldsTarget, PcAgent
<1>14. CASE CreateSession(t)
  BY <1>14, <1>t, <1>e, <1>c DEF CreateSession, TaskHolds, Terminated, AfterTerminal, BeforeSession,
     HoldsTarget, PcAgent
<1>15. CASE SetMaxAttempts(t)
  BY <1>15, <1>t DEF SetMaxAttempts, TaskHolds, Terminated, AfterTerminal, BeforeSession,
     HoldsTarget, PcAgent
<1>16. CASE MarkWorking(t)
  BY <1>16, <1>t DEF MarkWorking, TaskHolds, Terminated, AfterTerminal, BeforeSession, HoldsTarget,
     PcAgent
<1>17. CASE AgentPushes(t)
  BY <1>17, <1>t DEF AgentPushes, TaskHolds, Terminated, AfterTerminal, BeforeSession, HoldsTarget,
     PcAgent
<1>18. CASE AgentLosesPush(t)
  BY <1>18, <1>t DEF AgentLosesPush, TaskHolds, Terminated, AfterTerminal, BeforeSession,
     HoldsTarget, PcAgent
<1>19. CASE AgentGivesUp(t)
  BY <1>19, <1>t DEF AgentGivesUp, TaskHolds, Terminated, AfterTerminal, BeforeSession, HoldsTarget,
     PcAgent
<1>20. CASE AgentRaises(t)
  BY <1>20, <1>t DEF AgentRaises, TaskHolds, Terminated, AfterTerminal, BeforeSession, HoldsTarget,
     PcAgent
<1>21. CASE WriteFinalStatus(t)
  BY <1>21, <1>t, <1>end DEF WriteFinalStatus, TaskHolds, Terminated, AfterTerminal, BeforeSession,
     HoldsTarget, PcAgent
<1>22. CASE UpdateSession(t)
  BY <1>22, <1>t, <1>end DEF UpdateSession, TaskHolds, Terminated, AfterTerminal, BeforeSession,
     HoldsTarget, PcAgent
<1>23. CASE WriteErrorStatus(t)
  BY <1>23, <1>t, <1>end DEF WriteErrorStatus, TaskHolds, Terminated, AfterTerminal, BeforeSession,
     HoldsTarget, PcAgent
<1>24. QED
  BY <1>1, <1>2, <1>3, <1>4, <1>5, <1>6, <1>7, <1>8, <1>9, <1>10, <1>11, <1>12,
     <1>13, <1>14, <1>15, <1>16, <1>17, <1>18, <1>19, <1>20, <1>21, <1>22, <1>23 DEF Handle

\* Every step keeps what the tasks hold, and the rows with their own sessions.
LEMMA HoldsStep ==
  ASSUME TypeInv, HoldsInv, [Next]_vars
  PROVE  HoldsInv'
<1>t. TablesOK /\ TasksOK /\ LocalsOK
  BY DEF TypeInv, TypeOK, TasksOK
<1>1. ASSUME NEW t \in Task
      PROVE  TaskHolds(t)'
  <2>0. TaskHolds(t)
    BY DEF HoldsInv
  <2>1. CASE Provider \/ UNCHANGED vars
    BY <2>0, <2>1 DEF Provider, HumanPush, Rerun, RunConcludes, vars, locals, TaskHolds, Terminated
  <2>2. CASE Crash
    BY <2>2, FixKinds DEF Crash, TaskHolds, AfterTerminal, BeforeSession, HoldsTarget, PcAgent
  <2>3. ASSUME NEW e \in Event, DispatchDropped(e)
        PROVE  TaskHolds(t)'
    BY <2>0, <2>3 DEF DispatchDropped, locals, TaskHolds, Terminated
  <2>4. ASSUME NEW e \in Event, NEW u \in Task, Dispatch(u, e), u # t
        PROVE  TaskHolds(t)'
    BY <2>0, <2>4, <1>t DEF Dispatch, TasksOK, LocalsOK, TaskHolds, Terminated
  <2>5. ASSUME NEW e \in Event, Dispatch(t, e)
        PROVE  TaskHolds(t)'
    BY <2>0, <2>5, <1>t DEF Dispatch, TasksOK, LocalsOK, TaskHolds, Terminated, Live,
       AfterTerminal, BeforeSession, HoldsTarget, PcAgent
  <2>6. ASSUME NEW u \in Task, Handle(u), u # t
        PROVE  TaskHolds(t)'
    BY <2>0, <2>6, <1>t, OthersKeep DEF TypeInv, TaskHolds, Terminated
  <2>7. QED
    BY <2>1, <2>2, <2>3, <2>4, <2>5, <2>6, HandleHolds DEF Next, Server
<1>2. ASSUME NEW k \in RunKey, runs'[k].session # NoSession
      PROVE  runs'[k].session = k.sha
  <2>1. ASSUME NEW t \in Task, NEW status, pc[t] \in HoldsTarget, UpdateStatus(tgt[t], status, sid[t])
        PROVE  runs'[k].session = k.sha
    <3>1. tgt[t] \in RunKey /\ (sid[t] # NoSession => tgt[t].sha = sid[t])
      BY <2>1 DEF TypeInv, TaskOK, HoldsInv, TaskHolds
    <3>2. runs'[k] = runs[k] \/ (k = tgt[t] /\ runs'[k].session \in {runs[k].session, sid[t]})
      BY <2>1, <3>1, <1>t DEF UpdateStatus, TablesOK, Row
    <3>3. QED
      BY <1>2, <3>1, <3>2 DEF HoldsInv, RowsOwn
  <2>2. ASSUME NEW t \in Task, NEW status, ev[t].key \in RunKey, Record(ev[t].key, status)
        PROVE  runs'[k].session = k.sha
    <3>1. runs'[k].session = runs[k].session
      BY <2>2, <1>t DEF Record, TablesOK, Row
    <3>2. QED
      BY <1>2, <3>1 DEF HoldsInv, RowsOwn
  <2>3. ASSUME NEW t \in Task, UpdateRow(t) \/ MarkWorking(t) \/ WriteFinalStatus(t) \/ WriteErrorStatus(t)
        PROVE  runs'[k].session = k.sha
    BY <2>1, <2>3 DEF UpdateRow, MarkWorking, WriteFinalStatus, WriteErrorStatus, HoldsTarget, PcAgent
  <2>4. CASE UNCHANGED runs
    BY <1>2, <2>4 DEF HoldsInv, RowsOwn
  <2>5. QED
    BY <2>1, <2>2, <2>3, <2>4, RowWriters DEF HoldsTarget
<1>3. QED
  BY <1>1, <1>2 DEF HoldsInv, RowsOwn

\* Initially no row is bound and no task holds anything.
LEMMA HoldsInit == Init => HoldsInv
BY FixKinds DEF Init, TablesInit, HoldsInv, RowsOwn, TaskHolds, NoRow, AfterTerminal, BeforeSession,
   HoldsTarget, PcAgent

-----------------------------------------------------------------------------
(* What a step does *)

\* A task under way goes on with its event and, once it has one, with its
\* session; a new task begins with an event that is true and not yet delivered
\* as often as it may be.
LEMMA TaskSteps ==
  ASSUME TypeInv, HoldsInv, [Next]_vars, NEW t \in Task, pc'[t] # "done"
  PROVE  \/ /\ pc[t] # "done" /\ ev'[t] = ev[t]
            /\ sid[t] # NoSession => sid'[t] = sid[t]
            /\ pc'[t] \in {"is_duplicate", "match_author"} => pc[t] \in {"is_duplicate", "match_author"}
         \/ \E e \in Event : Dispatch(t, e) /\ ev'[t] = e /\ pc'[t] = "is_duplicate" /\ sid'[t] = NoSession
<1>t. TypeOK /\ TasksOK /\ LocalsOK /\ TaskHolds(t)
  BY DEF TypeInv, TypeOK, TasksOK, HoldsInv
<1> DEFINE Goes == /\ pc[t] # "done" /\ ev'[t] = ev[t]
                   /\ sid[t] # NoSession => sid'[t] = sid[t]
                   /\ pc'[t] \in {"is_duplicate", "match_author"} => pc[t] \in {"is_duplicate", "match_author"}
<1>1. CASE Provider \/ Crash \/ UNCHANGED vars
  BY <1>1 DEF Provider, HumanPush, Rerun, RunConcludes, Crash, vars, locals
<1>2. ASSUME NEW e \in Event, DispatchDropped(e)
      PROVE  Goes
  BY <1>2 DEF DispatchDropped, locals
<1>3. ASSUME NEW e \in Event, NEW u \in Task, Dispatch(u, e), u # t
      PROVE  Goes
  BY <1>3, <1>t DEF Dispatch, TasksOK, LocalsOK
<1>4. ASSUME NEW e \in Event, Dispatch(t, e)
      PROVE  ev'[t] = e /\ pc'[t] = "is_duplicate" /\ sid'[t] = NoSession
  BY <1>4, <1>t DEF Dispatch, Live, TasksOK, LocalsOK, TaskHolds, BeforeSession
<1>5. ASSUME NEW u \in Task, Handle(u), u # t
      PROVE  Goes
  BY <1>5, <1>t, OthersKeep
<1>6. CASE Handle(t)
  <2>1. ~Return(t) /\ ~Finally(t)
    BY <1>t DEF Return, Finally, Goto, TasksOK
  <2>2. \A label : Goto(t, label) => pc'[t] = label
    BY <1>t DEF Goto, TasksOK
  <2>3. CASE \/ CheckDuplicate(t) \/ TreatAsHuman(t) \/ MatchNothing(t) \/ \E s \in Commit : MatchSession(t, s)
             \/ CloseSession(t) \/ FindRow(t) \/ UpdateRow(t) \/ RecordSkippedBot(t) \/ ResolveTarget(t)
             \/ CheckRerun(t) \/ TrackOnly(t) \/ WriteEventStatus(t)
    BY <2>1, <2>2, <2>3, <1>t DEF CheckDuplicate, TreatAsHuman, MatchNothing, MatchSession,
       CloseSession, FindRow, UpdateRow, RecordSkippedBot, ResolveTarget, CheckRerun, TrackOnly,
       WriteEventStatus, locals, TaskHolds, BeforeSession
  <2>4. CASE FindSession(t) \/ CreateSession(t)
    BY <2>2, <2>4, <1>t DEF FindSession, CreateSession, TaskHolds, BeforeSession
  <2>5. CASE \/ SetMaxAttempts(t) \/ MarkWorking(t) \/ AgentPushes(t) \/ AgentLosesPush(t) \/ AgentGivesUp(t)
             \/ AgentRaises(t) \/ WriteFinalStatus(t) \/ UpdateSession(t) \/ WriteErrorStatus(t)
    BY <2>1, <2>2, <2>5 DEF SetMaxAttempts, MarkWorking, AgentPushes, AgentLosesPush, AgentGivesUp,
       AgentRaises, WriteFinalStatus, UpdateSession, WriteErrorStatus, locals
  <2>6. QED
    BY <1>6, <2>3, <2>4, <2>5 DEF Handle
<1>7. QED
  BY <1>1, <1>2, <1>3, <1>4, <1>5, <1>6 DEF Next, Server

\* A task in charge of a session: it holds the session and knows how CI ended
\* on the commit it handles.
Charge(t) == sid[t] # NoSession /\ Terminated(t)

\* Its session is still open until it goes on to show the row.
InCharge(t) == Charge(t) /\ pc[t] \notin {"find_row", "update_row"}

\* The calls from which a task may still come to the agent.
Working == {"resolve_target", "is_completed", "track_only", "event_status", "set_max",
            "mark_working", "update_session"} \cup PcAgent

\* How far a task in charge has come is never undone.
Onward(t) ==
  /\ pc'[t] \notin {"find_row", "update_row"} => pc[t] \notin {"find_row", "update_row"} /\ ~CloseSession(t)
  /\ pc'[t] # "set_max" => pc[t] # "set_max" \/ SetMaxAttempts(t)
  /\ pc'[t] \in Working => pc[t] \in Working
  /\ pc'[t] = "exhaust_session" => pc[t] = "exhaust_session"
  /\ (fix'[t] \in Commit <=> fix[t] \in Commit) \/ AgentPushes(t)
  /\ ~UpdateSession(t)

\* How a task comes to be in charge of a session, and how it goes on.
LEMMA ChargeSteps ==
  ASSUME TypeInv, HoldsInv, [Next]_vars, NEW t \in Task, Charge(t)'
  PROVE  /\ pc[t] # "done" /\ ev'[t] = ev[t]
         /\ \/ Charge(t) /\ sid'[t] = sid[t] /\ count'[t] = count[t] /\ Onward(t)
            \/ \E s \in Commit : MatchSession(t, s) /\ BotTerminalStatus(ev[t]) # "none"
            \/ FindSession(t) /\ sessions[ev[t].key.sha].status # "absent"
            \/ CreateSession(t)
<1>t. TypeOK /\ TasksOK /\ LocalsOK /\ TaskHolds(t) /\ TaskOK(t)
  BY DEF TypeInv, TypeOK, TasksOK, HoldsInv
<1>0. pc'[t] # "done" /\ sid'[t] # NoSession /\ ev'[t].phase \in Terminal
  BY HoldsStep DEF HoldsInv, TaskHolds, BeforeSession, Charge, Terminated
<1>e. pc[t] # "done" /\ ev'[t] = ev[t]
  BY <1>0, TaskSteps
<1> DEFINE Goes == Charge(t) /\ sid'[t] = sid[t] /\ count'[t] = count[t] /\ Onward(t)
<1>still. /\ pc'[t] = pc[t] /\ ev'[t] = ev[t] /\ sid'[t] = sid[t] /\ count'[t] = count[t] /\ fix'[t] = fix[t]
          /\ ~CloseSession(t) /\ ~UpdateSession(t)
          => Goes
  BY <1>0 DEF Charge, Terminated, Onward
<1>no. pc'[t] = pc[t] => ~CloseSession(t) /\ ~UpdateSession(t)
  BY <1>t DEF CloseSession, UpdateSession, Goto, Finally, TasksOK
<1>1. CASE Provider \/ Crash \/ UNCHANGED vars
  BY <1>0, <1>1, <1>still, <1>no DEF Provider, HumanPush, Rerun, RunConcludes, Crash, vars, locals
<1>2. CASE Server
  <2>1. pc'[t] = pc[t] /\ sid'[t] = sid[t] /\ count'[t] = count[t] /\ fix'[t] = fix[t]
    BY <1>2, <1>e, <1>t DEF Server, Dispatch, DispatchDropped, Live, locals, TasksOK, LocalsOK
  <2>2. QED
    BY <2>1, <1>e, <1>still, <1>no
<1>3. ASSUME NEW u \in Task, Handle(u), u # t
      PROVE  Goes
  BY <1>3, <1>t, <1>still, <1>no, OthersKeep
<1>4. CASE Handle(t)
  <2>1. ~Return(t) /\ ~Finally(t)
    BY <1>0, <1>t DEF Return, Finally, Goto, TasksOK
  <2>2. \A label : Goto(t, label) => pc'[t] = label
    BY <1>t DEF Goto, TasksOK
  <2>c. ~UpdateSession(t) /\ (Charge(t) <=> sid[t] # NoSession)
    BY <2>1, <1>0, <1>e DEF UpdateSession, Charge, Terminated
  <2>3. CASE CheckDuplicate(t) \/ TreatAsHuman(t) \/ MatchNothing(t) \/ RecordSkippedBot(t) \/ TrackOnly(t)
    BY <2>1, <2>3, <1>0, <1>t DEF CheckDuplicate, TreatAsHuman, MatchNothing, RecordSkippedBot,
       TrackOnly,
       TaskHolds, BeforeSession, locals
  <2>4. ASSUME NEW s \in Commit, MatchSession(t, s)
        PROVE  BotTerminalStatus(ev[t]) # "none"
    <3>1. ev[t] \in Event
      BY <1>e, <1>t DEF TaskOK
    <3>2. QED
      BY <3>1, <1>0, <1>e, VerdictPhases DEF Terminal
  <2>5. CASE CloseSession(t) \/ FindRow(t) \/ UpdateRow(t)
    <3>1. pc'[t] \in {"find_row", "update_row"} /\ sid'[t] = sid[t] /\ count'[t] = count[t] /\ fix'[t] = fix[t]
      BY <2>1, <2>2, <2>5 DEF CloseSession, FindRow, UpdateRow, locals
    <3>2. pc[t] # "set_max" /\ pc'[t] \notin Working
      BY <2>5, <3>1 DEF CloseSession, FindRow, UpdateRow, Working, PcAgent
    <3>3. QED
      BY <2>c, <3>1, <3>2, <1>0, <1>e DEF Onward
  <2>6. CASE ResolveTarget(t) \/ CheckRerun(t) \/ WriteEventStatus(t)
    <3>1. /\ pc[t] \in {"resolve_target", "is_completed", "event_status"}
          /\ sid'[t] = sid[t] /\ count'[t] = count[t] /\ fix'[t] = fix[t]
      BY <2>1, <2>6 DEF ResolveTarget, CheckRerun, WriteEventStatus, locals
    <3>2. pc'[t] # "exhaust_session" /\ ~CloseSession(t)
      BY <2>1, <2>2, <2>6 DEF ResolveTarget, CheckRerun, WriteEventStatus, CloseSession
    <3>3. QED
      BY <2>c, <3>1, <3>2, <1>0, <1>e DEF Onward, Working
  <2>7. CASE FindSession(t)
    BY <2>7, <1>0, <1>t DEF FindSession, TaskHolds, BeforeSession
  <2>8. CASE SetMaxAttempts(t) \/ MarkWorking(t) \/ AgentGivesUp(t) \/ AgentRaises(t) \/ WriteFinalStatus(t)
             \/ WriteErrorStatus(t)
    <3>1. sid'[t] = sid[t] /\ count'[t] = count[t] /\ fix'[t] = fix[t]
      BY <2>1, <2>8 DEF SetMaxAttempts, MarkWorking, AgentGivesUp, AgentRaises, WriteFinalStatus,
         WriteErrorStatus, locals
    <3>2. pc[t] \in Working /\ (pc[t] = "set_max" => SetMaxAttempts(t)) /\ ~CloseSession(t)
      BY <2>8 DEF SetMaxAttempts, MarkWorking, AgentGivesUp, AgentRaises, WriteFinalStatus,
         WriteErrorStatus,
         CloseSession, Working, PcAgent
    <3>3. pc'[t] # "exhaust_session"
      BY <2>1, <2>2, <2>8 DEF SetMaxAttempts, MarkWorking, AgentGivesUp, AgentRaises, WriteFinalStatus,
         WriteErrorStatus
    <3>4. pc[t] \notin {"find_row", "update_row"}
      BY <3>2 DEF Working, PcAgent
    <3>5. QED
      BY <2>c, <3>1, <3>2, <3>3, <3>4, <1>0, <1>e DEF Onward
  <2>9. CASE AgentPushes(t) \/ AgentLosesPush(t)
    <3>1. pc[t] = "run_agent" /\ pc'[t] = "final_status" /\ sid'[t] = sid[t] /\ count'[t] = count[t]
      BY <2>2, <2>9 DEF AgentPushes, AgentLosesPush
    <3>2. AgentPushes(t) \/ (fix'[t] \in Commit <=> fix[t] \in Commit)
      BY <2>9, <3>1, <1>t, FixKinds DEF AgentLosesPush, LocalsOK, TaskHolds
    <3>3. QED
      BY <2>c, <3>1, <3>2, <1>0, <1>e DEF Onward, Working, PcAgent, CloseSession
  <2>10. QED
    BY <1>4, <1>e, <2>c, <2>3, <2>4, <2>5, <2>6, <2>7, <2>8, <2>9 DEF Handle
<1>5. QED
  BY <1>e, <1>1, <1>2, <1>3, <1>4 DEF Next

\* What happens to a session: it is opened once for its commit, and everything
\* else is done to it by a task that holds it.
LEMMA SessionSteps ==
  ASSUME TypeInv, KnownSessions, HoldsInv, [Next]_vars, NEW s \in Commit, sessions'[s] # sessions[s]
  PROVE  \/ \E t \in Task :
              /\ CreateSession(t) /\ ev[t].key.sha = s /\ sessions[s].status = "absent"
              /\ sessions'[s].status = "active" /\ sessions'[s].attempt = 1
              /\ sessions'[s].max = TableMaxAttempts /\ sessions'[s].fix \notin Commit
         \/ \E t \in Task :
              /\ Charge(t) /\ sid[t] = s /\ sessions[s].status # "absent"
              /\ \/ /\ SetMaxAttempts(t)
                    /\ sessions'[s] = [sessions[s] EXCEPT !.max = MaxRetryAttempts]
                 \/ /\ CloseSession(t) /\ out[t] \in {"PASSED", "EXHAUSTED"}
                    /\ sessions'[s] = [sessions[s] EXCEPT !.status = out[t]]
                 \/ /\ UpdateSession(t) /\ out[t] = "FIX_PUSHED"
                    /\ sessions'[s] = [sessions[s] EXCEPT !.fix = fix[t], !.attempt = count[t] + 1]
                 \/ /\ UpdateSession(t) /\ out[t] = "CANNOT_FIX"
                    /\ sessions'[s] = [sessions[s] EXCEPT !.status = "CANNOT_FIX"]
<1>t. TablesOK /\ TasksOK /\ LocalsOK /\ sessions \in [Commit -> Session] /\ NoSession \notin Commit
  BY DEF TypeInv, TypeOK, TablesOK, TasksOK, Commit, NoSession
<1>1. ASSUME NEW t \in Task, CreateSession(t)
      PROVE  /\ ev[t].key.sha = s /\ sessions[s].status = "absent"
             /\ sessions'[s].status = "active" /\ sessions'[s].attempt = 1
             /\ sessions'[s].max = TableMaxAttempts /\ sessions'[s].fix \notin Commit
  BY <1>1, <1>t, FixKinds DEF CreateSession, InsertSession
<1>2. ASSUME NEW t \in Task, SetMaxAttempts(t) \/ CloseSession(t) \/ UpdateSession(t)
      PROVE  Charge(t) /\ sid[t] \in Commit /\ sessions[sid[t]].status # "absent"
  <2>1. pc[t] \in AfterTerminal \cap HoldsSession
    BY <1>2 DEF SetMaxAttempts, CloseSession, UpdateSession, AfterTerminal, HoldsSession
  <2>2. sid[t] \in Commit /\ Terminated(t)
    BY <2>1 DEF TypeInv, TaskOK, HoldsInv, TaskHolds
  <2>3. QED
    BY <2>2, <1>t DEF Charge, KnownSessions
<1>3. ASSUME NEW t \in Task, SetMaxAttempts(t)
      PROVE  sid[t] = s /\ sessions'[s] = [sessions[s] EXCEPT !.max = MaxRetryAttempts]
  BY <1>2, <1>3, <1>t DEF SetMaxAttempts, SetSessionMax
<1>4. ASSUME NEW t \in Task, CloseSession(t)
      PROVE  /\ sid[t] = s /\ sessions'[s] = [sessions[s] EXCEPT !.status = out[t]]
             /\ out[t] \in {"PASSED", "EXHAUSTED"}
  <2>1. out[t] \in {"PASSED", "EXHAUSTED"}
    BY <1>4 DEF CloseSession, TypeInv, TaskOK
  <2>2. QED
    BY <1>2, <1>4, <2>1, <1>t DEF CloseSession, SetSessionStatus
<1>5. ASSUME NEW t \in Task, UpdateSession(t), out[t] = "FIX_PUSHED"
      PROVE  sid[t] = s /\ sessions'[s] = [sessions[s] EXCEPT !.fix = fix[t], !.attempt = count[t] + 1]
  BY <1>2, <1>5, <1>t DEF UpdateSession, RecordFix
<1>6. ASSUME NEW t \in Task, UpdateSession(t), out[t] # "FIX_PUSHED"
      PROVE  /\ sid[t] = s /\ sessions'[s] = [sessions[s] EXCEPT !.status = "CANNOT_FIX"]
             /\ out[t] = "CANNOT_FIX"
  <2>1. out[t] = "CANNOT_FIX"
    BY <1>6 DEF UpdateSession, TypeInv, TaskOK
  <2>2. QED
    BY <1>2, <1>6, <2>1, <1>t DEF UpdateSession, SetSessionStatus
<1>7. PICK t \in Task : CreateSession(t) \/ SetMaxAttempts(t) \/ CloseSession(t) \/ UpdateSession(t)
  BY SessionWriters
<1>8. CASE CreateSession(t)
  BY <1>1, <1>8
<1>9. CASE SetMaxAttempts(t)
  BY <1>2, <1>3, <1>9
<1>10. CASE CloseSession(t)
  BY <1>2, <1>4, <1>10
<1>11. CASE UpdateSession(t)
  BY <1>2, <1>5, <1>6, <1>11
<1>12. QED
  BY <1>7, <1>8, <1>9, <1>10, <1>11

\* A delivery is counted, and only of an event that has happened and may be
\* delivered once more.
LEMMA DeliverySteps ==
  ASSUME TypeInv, [Next]_vars, NEW e \in Event
  PROVE  /\ delivered'[e] >= delivered[e]
         /\ delivered'[e] # delivered[e] => Happened(e) /\ delivered[e] < MaxDeliveries
         /\ \A t \in Task : Dispatch(t, e) =>
              delivered[e] < MaxDeliveries /\ delivered'[e] >= 1 /\ Happened(e) /\ pc[t] = "done" /\ UNCHANGED sessions
<1>t. delivered \in [Event -> Nat]
  BY DEF TypeInv, TypeOK, WorldOK
<1>1. ASSUME NEW f \in Event, Deliver(f)
      PROVE  /\ delivered'[e] >= delivered[e]
             /\ delivered'[e] # delivered[e] => Happened(e) /\ delivered[e] < MaxDeliveries
             /\ e = f => delivered[e] < MaxDeliveries /\ delivered'[e] >= 1 /\ Happened(e)
  BY <1>1, <1>t DEF Deliver
<1>2. ASSUME NEW t \in Task, Handle(t)
      PROVE  UNCHANGED delivered
  BY <1>2 DEF Handle, CheckDuplicate, TreatAsHuman, MatchNothing, MatchSession, CloseSession, FindRow,
     UpdateRow, RecordSkippedBot, ResolveTarget, CheckRerun, TrackOnly, WriteEventStatus, FindSession,
     CreateSession, SetMaxAttempts, MarkWorking, AgentPushes, AgentLosesPush, AgentGivesUp, AgentRaises,
     WriteFinalStatus, UpdateSession, WriteErrorStatus, world
<1>3. CASE Provider \/ Crash \/ UNCHANGED vars
  <2>1. UNCHANGED delivered
    BY <1>3 DEF Provider, HumanPush, Rerun, RunConcludes, Crash, vars
  <2>2. QED
    BY <2>1, <1>t, <1>1 DEF Dispatch, Live
<1>4. ASSUME NEW f \in Event, DispatchDropped(f) \/ \E t \in Task : Dispatch(t, f)
      PROVE  Deliver(f)
  BY <1>4 DEF DispatchDropped, Dispatch
<1>5. ASSUME NEW t \in Task, Dispatch(t, e)
      PROVE  delivered[e] < MaxDeliveries /\ delivered'[e] >= 1 /\ Happened(e) /\ pc[t] = "done" /\ UNCHANGED sessions
  BY <1>5, <1>1 DEF Dispatch, Live
<1>6. CASE UNCHANGED delivered
  BY <1>6, <1>5, <1>t
<1>7. QED
  BY <1>1, <1>2, <1>3, <1>4, <1>5, <1>6 DEF Next, Server

-----------------------------------------------------------------------------
(* Every event once *)

\* The provider runs one workflow once on a commit, and delivers no webhook
\* twice: nobody has pressed "re-run" or "redeliver".
CalmProvider ==
  /\ \A v, w \in Workflow : v = w
  /\ MaxRunAttempts <= 1
  /\ MaxDeliveries <= 1

\* The server was told how a run ended.
Verdict(e) == e.phase \in Terminal /\ delivered[e] >= 1

Heard(c) == \E e \in Event : e.key.sha = c /\ Verdict(e)

\* What was delivered is true, and no two tasks handle the same event.
EventsOnce ==
  /\ \A e \in Event : Verdict(e) => ci[e.key] = e.phase
  /\ \A t \in Task : Live(t) => delivered[ev[t]] >= 1
  /\ \A t, u \in Task : Live(t) /\ Live(u) /\ ev[t] = ev[u] => t = u

\* In such a world a commit has one run.
LEMMA OneKey ==
  ASSUME CalmProvider, NEW j \in RunKey, NEW k \in RunKey, j.sha = k.sha
  PROVE  j = k
BY AttemptsAssumption DEF CalmProvider, RunKey

\* An event is its run and its phase.
LEMMA SameEvent ==
  ASSUME NEW e \in Event, NEW f \in Event, e.key = f.key, e.phase = f.phase
  PROVE  e = f
BY DEF Event

\* A commit has one verdict.
LEMMA OneVerdict ==
  ASSUME CalmProvider, EventsOnce, NEW e \in Event, NEW f \in Event, Verdict(e), Verdict(f),
         e.key.sha = f.key.sha
  PROVE  e = f
<1>1. e.key = f.key
  BY OneKey DEF Event
<1>2. e.phase = f.phase
  BY <1>1 DEF EventsOnce
<1>3. QED
  BY <1>1, <1>2, SameEvent

\* So one task handles it.
LEMMA OneHandler ==
  ASSUME CalmProvider, TypeInv, EventsOnce, NEW t \in Task, NEW u \in Task,
         Live(t), Live(u), Terminated(t), Terminated(u), ev[t].key.sha = ev[u].key.sha
  PROVE  t = u
<1>1. ev[t] \in Event /\ ev[u] \in Event
  BY DEF TypeInv, TaskOK, Live
<1>2. Verdict(ev[t]) /\ Verdict(ev[u])
  BY DEF EventsOnce, Verdict, Terminated
<1>3. ev[t] = ev[u]
  BY <1>1, <1>2, OneVerdict
<1>4. QED
  BY <1>3 DEF EventsOnce

\* A verdict that comes in is the first one on its commit.
LEMMA FirstVerdict ==
  ASSUME CalmProvider, TypeInv, EventsOnce, [Next]_vars, NEW e \in Event, NEW t \in Task,
         Dispatch(t, e), e.phase \in Terminal
  PROVE  ~Heard(e.key.sha)
<1>1. delivered[e] < 1 /\ delivered[e] \in Nat /\ ci[e.key] = e.phase
  <2>1. delivered[e] < MaxDeliveries /\ Happened(e)
    BY DeliverySteps
  <2>2. delivered[e] \in Nat
    BY DEF TypeInv, TypeOK, WorldOK
  <2>3. QED
    BY <2>1, <2>2, HandlerAssumption DEF CalmProvider, Happened, Terminal
<1>2. ASSUME NEW f \in Event, f.key.sha = e.key.sha, Verdict(f)
      PROVE  FALSE
  <2>1. f.key = e.key
    BY <1>2, OneKey DEF Event
  <2>2. f.phase = e.phase
    BY <1>1, <1>2, <2>1 DEF EventsOnce
  <2>3. f = e
    BY <2>1, <2>2, SameEvent
  <2>4. QED
    BY <1>1, <1>2, <2>3 DEF Verdict
<1>3. QED
  BY <1>2 DEF Heard

\* What was heard stays heard.
LEMMA HeardStays ==
  ASSUME TypeInv, [Next]_vars, TypeInv'
  PROVE  /\ \A e \in Event : Verdict(e) => Verdict(e)'
         /\ \A c : Heard(c) => Heard(c)'
<1>1. ASSUME NEW e \in Event, Verdict(e)
      PROVE  Verdict(e)'
  <2>1. delivered[e] \in Nat /\ delivered'[e] \in Nat
    BY DEF TypeInv, TypeOK, WorldOK
  <2>2. QED
    BY <1>1, <2>1, DeliverySteps DEF Verdict
<1>2. QED
  BY <1>1 DEF Heard

\* Every step keeps the events single.
LEMMA EventsStep ==
  ASSUME CalmProvider, TypeInv, HoldsInv, FreshCommits, EventsOnce, [Next]_vars, TypeInv'
  PROVE  EventsOnce'
<1>t. /\ delivered \in [Event -> Nat] /\ delivered' \in [Event -> Nat]
      /\ \A t \in Task : Live(t) => ev[t] \in Event
  BY DEF TypeInv, TypeOK, WorldOK, TaskOK, Live
<1>1. ASSUME NEW e \in Event, Verdict(e)'
      PROVE  ci'[e.key] = e.phase
  <2>1. ci[e.key] = e.phase /\ e.phase \in Terminal
    <3>1. CASE delivered'[e] = delivered[e]
      BY <1>1, <3>1 DEF Verdict, EventsOnce
    <3>2. CASE delivered'[e] # delivered[e]
      BY <1>1, <3>2, DeliverySteps DEF Verdict, Happened, Terminal
    <3>3. QED
      BY <3>1, <3>2
  <2>2. QED
    BY <2>1, HistoryGrows DEF Event
<1>2. ASSUME NEW t \in Task, Live(t)'
      PROVE  delivered'[ev'[t]] >= 1
  <2>1. CASE Live(t) /\ ev'[t] = ev[t]
    <3>1. delivered[ev[t]] >= 1 /\ delivered'[ev[t]] >= delivered[ev[t]]
      BY <2>1, <1>t, DeliverySteps DEF EventsOnce
    <3>2. QED
      BY <2>1, <3>1, <1>t
  <2>2. QED
    BY <1>2, <2>1, TaskSteps, DeliverySteps DEF Live
<1>3. ASSUME NEW t \in Task, NEW u \in Task, Live(t)', Live(u)', ev'[t] = ev'[u]
      PROVE  t = u
  <2>1. ASSUME NEW v \in Task, NEW w \in Task, NEW e \in Event, Dispatch(v, e), Live(w), ev[w] = e
        PROVE  FALSE
    <3>1. delivered[e] < 1 /\ delivered[e] >= 1
      BY <2>1, <1>t, DeliverySteps, HandlerAssumption DEF CalmProvider, EventsOnce
    <3>2. QED
      BY <3>1, <1>t
  <2>2. ASSUME NEW e \in Event, NEW f \in Event, Dispatch(t, e), Dispatch(u, f)
        PROVE  t = u
    <3>1. pc \in [Task -> PC] /\ pc[u] = "done"
      BY <2>2, DeliverySteps DEF TypeInv, TypeOK, TasksOK
    <3>2. QED
      BY <2>2, <3>1, <1>3 DEF Dispatch, Live
  <2>3. QED
    BY <1>3, <2>1, <2>2, TaskSteps DEF EventsOnce, Live
<1>4. QED
  BY <1>1, <1>2, <1>3 DEF EventsOnce, Live

-----------------------------------------------------------------------------
(* One task in charge of a session *)

\* A session was opened on the verdict on its commit, and the task that handles
\* that verdict, if it still lives, holds this session.
OpenedOnce ==
  /\ \A s \in Commit : sessions[s].status # "absent" => Heard(s)
  /\ \A t \in Task : Live(t) /\ Terminated(t) /\ sessions[ev[t].key.sha].status # "absent" =>
       sid[t] = ev[t].key.sha

\* The commit whose verdict the session waits for, or last heard.
Front(s) == IF sessions[s].fix \in Commit THEN sessions[s].fix ELSE s

\* A task in charge handles the verdict on the last fix of a session that is
\* open until that task is done with it.
Charges ==
  \A t \in Task : Charge(t) =>
    /\ ev[t].key.sha = Front(sid[t])
    /\ InCharge(t) => IsActive(sid[t])

\* Where a task in charge stands.
LEMMA ChargeType ==
  ASSUME TypeInv, KnownSessions, HoldsInv, NEW t \in Task, Charge(t)
  PROVE  /\ Live(t) /\ Terminated(t) /\ ev[t] \in Event /\ ev[t].key \in RunKey /\ ev[t].key.sha \in Commit
         /\ sid[t] \in Commit /\ sessions[sid[t]].status # "absent"
<1>1. pc[t] # "done" /\ sid[t] \in Commit
  BY DEF HoldsInv, TaskHolds, BeforeSession, Charge, TypeInv, TypeOK, TasksOK, LocalsOK
<1>2. QED
  BY <1>1 DEF TypeInv, TaskOK, Event, RunKey, Live, Charge, KnownSessions

\* A session has one task in charge.
LEMMA OneCharge ==
  ASSUME CalmProvider, TypeInv, KnownSessions, HoldsInv, EventsOnce, Charges,
         NEW t \in Task, NEW u \in Task, Charge(t), Charge(u), sid[t] = sid[u]
  PROVE  t = u
BY ChargeType, OneHandler DEF Charges

\* Every step keeps it so that a session is opened once.
LEMMA OpenedStep ==
  ASSUME CalmProvider, TypeInv, KnownSessions, HoldsInv, EventsOnce, OpenedOnce, [Next]_vars, TypeInv'
  PROVE  OpenedOnce'
<1>l. \A t \in Task : Live(t) => ev[t] \in Event /\ ev[t].key \in RunKey /\ ev[t].key.sha \in Commit
  BY DEF TypeInv, TaskOK, Live, Event, RunKey
<1>create. ASSUME NEW t \in Task, CreateSession(t)
           PROVE  Live(t) /\ Terminated(t) /\ ev'[t] = ev[t] /\ UNCHANGED delivered
                  /\ (sessions[ev[t].key.sha].status = "absent" => sid'[t] = ev[t].key.sha)
  <2>1. Live(t) /\ Terminated(t) /\ ev'[t] = ev[t] /\ UNCHANGED delivered
    BY <1>create DEF CreateSession, HoldsInv, TaskHolds, AfterTerminal, Live, world
  <2>2. ASSUME sessions[ev[t].key.sha].status = "absent"
        PROVE  sid'[t] = ev[t].key.sha
    <3>1. sessions'[ev[t].key.sha].status = "active"
      BY <1>create, <2>1, <2>2, <1>l DEF CreateSession, InsertSession, TypeInv, TypeOK, TablesOK
    <3>2. QED
      BY <1>create, <3>1 DEF CreateSession, TypeInv, TypeOK, TasksOK, LocalsOK
  <2>3. QED
    BY <2>1, <2>2
<1>1. ASSUME NEW s \in Commit, sessions'[s].status # "absent"
      PROVE  Heard(s)'
  <2>1. CASE sessions[s].status # "absent"
    BY <2>1, HeardStays DEF OpenedOnce
  <2>2. CASE sessions[s].status = "absent"
    <3>1. PICK t \in Task : CreateSession(t) /\ ev[t].key.sha = s
      BY <1>1, <2>2, SessionCreators
    <3>2. Verdict(ev[t]) /\ ev[t] \in Event
      BY <3>1, <1>create, <1>l DEF Verdict, EventsOnce, Terminated
    <3>3. Heard(s)
      BY <3>1, <3>2 DEF Heard
    <3>4. QED
      BY <3>3, HeardStays
  <2>3. QED
    BY <2>1, <2>2
<1>2. ASSUME NEW t \in Task, Live(t)', Terminated(t)', sessions'[ev'[t].key.sha].status # "absent"
      PROVE  sid'[t] = ev'[t].key.sha
  <2> DEFINE c == ev'[t].key.sha
  <2>c. c \in Commit
    BY <1>2 DEF TypeInv, TaskOK, Live, Event, RunKey
  <2>1. CASE Live(t) /\ ev'[t] = ev[t]
    <3>1. CASE sessions[c].status # "absent"
      <4>1. sid[t] = c
        BY <1>2, <2>1, <3>1 DEF OpenedOnce, Terminated
      <4>2. sid[t] # NoSession
        BY <4>1, <2>c DEF Commit, NoSession
      <4>3. QED
        BY <1>2, <2>1, <4>1, <4>2, TaskSteps DEF Live, Dispatch
    <3>2. CASE sessions[c].status = "absent"
      <4>1. PICK u \in Task : CreateSession(u) /\ ev[u].key.sha = c
        BY <1>2, <2>c, <3>2, SessionCreators
      <4>2. u = t
        BY <1>2, <2>1, <4>1, <1>create, OneHandler DEF Terminated
      <4>3. QED
        BY <2>1, <3>2, <4>1, <4>2, <1>create
    <3>3. QED
      BY <3>1, <3>2
  <2>2. ASSUME NEW e \in Event, Dispatch(t, e), ev'[t] = e
        PROVE  FALSE
    <3>1. ~Heard(c)
      BY <1>2, <2>2, FirstVerdict DEF Terminated
    <3>2. sessions[c].status # "absent"
      BY <1>2, <2>2, DeliverySteps
    <3>3. QED
      BY <2>c, <3>1, <3>2 DEF OpenedOnce
  <2>3. QED
    BY <1>2, <2>1, <2>2, TaskSteps DEF Live
<1>3. QED
  BY <1>1, <1>2 DEF OpenedOnce, Live, Terminated

\* The session a task is in charge of changes under its own hands only.
LEMMA ChargeKeeps ==
  ASSUME CalmProvider, TypeInv, KnownSessions, HoldsInv, EventsOnce, Charges, [Next]_vars,
         NEW t \in Task, Charge(t), ~UpdateSession(t)
  PROVE  \/ sessions'[sid[t]] = sessions[sid[t]]
         \/ SetMaxAttempts(t) /\ sessions'[sid[t]] = [sessions[sid[t]] EXCEPT !.max = MaxRetryAttempts]
         \/ CloseSession(t) /\ sessions'[sid[t]] = [sessions[sid[t]] EXCEPT !.status = out[t]]
<1>1. sid[t] \in Commit /\ sessions[sid[t]].status # "absent"
  BY ChargeType
<1>2. ASSUME NEW u \in Task, Charge(u), sid[u] = sid[t]
      PROVE  u = t
  BY <1>2, OneCharge
<1> DEFINE s == sid[t]
<1>3. CASE sessions'[s] = sessions[s]
  BY <1>3
<1>4. CASE sessions'[s] # sessions[s]
  <2>1. PICK u \in Task :
          /\ Charge(u) /\ sid[u] = s
          /\ \/ SetMaxAttempts(u) /\ sessions'[s] = [sessions[s] EXCEPT !.max = MaxRetryAttempts]
             \/ CloseSession(u) /\ sessions'[s] = [sessions[s] EXCEPT !.status = out[u]]
             \/ UpdateSession(u)
    <3> HIDE DEF s
    <3>1. s \in Commit /\ sessions[s].status # "absent"
      BY <1>1 DEF s
    <3>2. QED
      BY <3>1, <1>4, SessionSteps
  <2>2. u = t
    BY <2>1, <1>2
  <2>3. QED
    BY <2>1, <2>2
<1>5. QED
  BY <1>3, <1>4

\* Every step keeps one task in charge.
LEMMA ChargesStep ==
  ASSUME CalmProvider, TypeInv, KnownSessions, HoldsInv, EventsOnce, OpenedOnce, Charges, [Next]_vars
  PROVE  Charges'
<1>t. TasksOK /\ LocalsOK /\ NoSession \notin Commit /\ sessions \in [Commit -> Session]
  BY DEF TypeInv, TypeOK, TablesOK, TasksOK, Commit, NoSession
<1> DEFINE Good(t) == ev'[t].key.sha = Front(sid[t])' /\ (InCharge(t)' => IsActive(sid[t])')
<1> SUFFICES ASSUME NEW t \in Task, Charge(t)'
             PROVE  Good(t)
  BY DEF Charges, InCharge, Charge, Terminated, Front, IsActive
<1>e. pc[t] # "done" /\ ev'[t] = ev[t] /\ Terminated(t)
  BY ChargeSteps DEF Charge, Terminated
<1>k. ev[t].key.sha \in Commit /\ ev[t] \in Event
  BY <1>e DEF TypeInv, TaskOK, Event, RunKey
<1>1. CASE Charge(t) /\ sid'[t] = sid[t] /\ Onward(t)
  <2>1. /\ \/ sessions'[sid[t]] = sessions[sid[t]]
           \/ sessions'[sid[t]] = [sessions[sid[t]] EXCEPT !.max = MaxRetryAttempts]
           \/ CloseSession(t) /\ sessions'[sid[t]] = [sessions[sid[t]] EXCEPT !.status = out[t]]
        /\ sid[t] \in Commit
    BY <1>1, ChargeKeeps, ChargeType DEF Onward
  <2>2. sessions'[sid[t]].fix = sessions[sid[t]].fix
    BY <2>1, <1>t DEF Session
  <2>3. ev'[t].key.sha = Front(sid[t])'
    BY <1>1, <1>e, <2>2 DEF Charges, Front
  <2>4. ASSUME InCharge(t)'
        PROVE  IsActive(sid[t])'
    <3>1. InCharge(t) /\ ~CloseSession(t)
      BY <1>1, <2>4 DEF Onward, InCharge
    <3>2. sessions'[sid[t]].status = sessions[sid[t]].status
      BY <2>1, <3>1, <1>t DEF Session
    <3>3. QED
      BY <1>1, <3>1, <3>2 DEF Charges, IsActive
  <2>5. QED
    BY <2>3, <2>4
<1>2. ASSUME NEW s \in Commit, MatchSession(t, s)
      PROVE  Good(t)
  <2>1. sid'[t] = s /\ UNCHANGED sessions /\ IsActive(s) /\ sessions[s].fix = ev[t].key.sha
    <3>1. sid'[t] = s /\ UNCHANGED sessions /\ s \in SessionsByFix(ev[t].key.sha)
      BY <1>2, <1>t DEF MatchSession, LocalsOK
    <3>2. QED
      BY <3>1 DEF SessionsByFix
  <2>2. sessions[s].fix \in Commit
    BY <1>k, <2>1 DEF Commit, NoCommit
  <2>3. QED
    BY <1>e, <2>1, <2>2 DEF Front, IsActive
<1>3. CASE FindSession(t) \/ CreateSession(t)
  <2>1. sid[t] = NoSession /\ Live(t)
    BY <1>3, <1>e DEF FindSession, CreateSession, HoldsInv, TaskHolds, BeforeSession, Live
  <2>2. sessions[ev[t].key.sha].status = "absent"
    BY <2>1, <1>e, <1>k, <1>t DEF OpenedOnce
  <2>3. ~FindSession(t)
    BY <2>1, <2>2 DEF FindSession, Charge
  <2>4. CreateSession(t)
    BY <1>3, <2>3
  <2>5. sessions'[ev[t].key.sha].status = "active" /\ sessions'[ev[t].key.sha].fix \notin Commit
    BY <2>2, <2>4, <1>k, <1>t, FixKinds DEF CreateSession, InsertSession
  <2>6. sid'[t] = ev[t].key.sha
    BY <2>4, <2>5, <1>t DEF CreateSession, LocalsOK
  <2>7. QED
    BY <1>e, <2>5, <2>6 DEF Front, IsActive
<1>4. QED
  BY <1>1, <1>2, <1>3, ChargeSteps

-----------------------------------------------------------------------------
(* One task for a run *)

\* The end of run k has been handled.
Settled(k) ==
  /\ \E e \in Event : e.key = k /\ Verdict(e)
  /\ \A t \in Task : Live(t) /\ Terminated(t) => ev[t].key # k

\* A task is registered for its run, unless a retry popped it from
\* _active_tasks, and then it is a late "running" that nothing can follow.
Guarded ==
  \A t \in Task : Live(t) =>
    guard[ev[t].key] = t \/ (~Terminated(t) /\ Settled(ev[t].key))

\* So no second task handles the run.
LEMMA GuardedAlone == TypeInv /\ EventsOnce /\ Guarded => OneTaskPerRun
<1> SUFFICES ASSUME TypeInv, EventsOnce, Guarded, NEW t \in Task, NEW u \in Task,
                    Live(t), Live(u), ev[t].key = ev[u].key
             PROVE  t = u
  BY DEF OneTaskPerRun
<1>1. ev[t] \in Event /\ ev[u] \in Event /\ NoTask \notin Task
  BY HandlerAssumption DEF TypeInv, TaskOK, Live, NoTask
<1>2. CASE guard[ev[t].key] = t /\ guard[ev[u].key] = u
  BY <1>2
<1>3. CASE ~Terminated(t) /\ ~Terminated(u)
  <2>1. ev[t].phase = "running" /\ ev[u].phase = "running"
    BY <1>1, <1>3 DEF Terminated, Event, Phase
  <2>2. ev[t] = ev[u]
    BY <1>1, <2>1, SameEvent
  <2>3. QED
    BY <2>2 DEF EventsOnce
<1>4. QED
  BY <1>2, <1>3 DEF Guarded, Settled

\* A run that is settled stays so.
LEMMA SettledStays ==
  ASSUME CalmProvider, TypeInv, HoldsInv, EventsOnce, [Next]_vars, TypeInv',
         NEW k \in RunKey, Settled(k)
  PROVE  Settled(k)'
<1>1. \E e \in Event : e.key = k /\ Verdict(e)'
  BY HeardStays DEF Settled
<1>2. ASSUME NEW t \in Task, Live(t)', Terminated(t)', ev'[t].key = k
      PROVE  FALSE
  <2>1. CASE Live(t) /\ ev'[t] = ev[t]
    BY <1>2, <2>1 DEF Settled, Terminated
  <2>2. ASSUME NEW e \in Event, Dispatch(t, e), ev'[t] = e
        PROVE  FALSE
    BY <1>2, <2>2, FirstVerdict DEF Settled, Terminated, Heard
  <2>3. QED
    BY <1>2, <2>1, <2>2, TaskSteps DEF Live
<1>3. QED
  BY <1>1, <1>2 DEF Settled, Live, Terminated, Verdict

\* Who takes an entry out of _active_tasks or puts one in.
LEMMA GuardSteps ==
  ASSUME TypeInv, [Next]_vars, NEW k \in RunKey, guard'[k] # guard[k]
  PROVE  \/ Crash
         \/ \E t \in Task, e \in Event : Dispatch(t, e) /\ guard[k] = NoTask
         \/ \E t \in Task : /\ Handle(t) /\ pc'[t] = "done"
                            /\ \/ guard[k] = t
                               \/ k = tgt[t] /\ pc[t] \in {"final_status", "error_status", "update_session"}
<1>t. TypeOK /\ TasksOK
  BY DEF TypeInv, TypeOK
<1>1. CASE Provider \/ UNCHANGED vars
  BY <1>1 DEF Provider, HumanPush, Rerun, RunConcludes, vars
<1>2. CASE Server
  BY <1>2, <1>t DEF Server, Dispatch, DispatchDropped, TasksOK, Busy
<1>3. ASSUME NEW t \in Task, Handle(t)
      PROVE  /\ pc'[t] = "done"
             /\ \/ guard[k] = t
                \/ k = tgt[t] /\ pc[t] \in {"final_status", "error_status", "update_session"}
  <2>1. Return(t) => pc'[t] = "done" /\ guard[k] = t
    BY <1>t DEF Return, Goto, TasksOK, Unguarded
  <2>2. Finally(t) => pc'[t] = "done" /\ (guard[k] = t \/ k = tgt[t])
    BY <1>t DEF Finally, Goto, TasksOK, Unguarded
  <2>3. Return(t) \/ WriteFinalStatus(t) \/ UpdateSession(t) \/ WriteErrorStatus(t)
    BY <1>3 DEF Handle, CheckDuplicate, TreatAsHuman, MatchNothing, MatchSession, CloseSession, FindRow,
       UpdateRow, RecordSkippedBot, ResolveTarget, CheckRerun, TrackOnly, WriteEventStatus, FindSession,
       CreateSession, SetMaxAttempts, MarkWorking, AgentPushes, AgentLosesPush, AgentGivesUp, AgentRaises
  <2>4. QED
    BY <2>1, <2>2, <2>3 DEF WriteFinalStatus, UpdateSession, WriteErrorStatus
<1>4. QED
  BY <1>1, <1>2, <1>3 DEF Next

\* Every step leaves a task registered, or its run settled.
LEMMA GuardedStep ==
  ASSUME CalmProvider, TypeInv, KnownSessions, HoldsInv, EventsOnce, OpenedOnce, Charges, Guarded,
         [Next]_vars, TypeInv'
  PROVE  Guarded'
<1> SUFFICES ASSUME NEW t \in Task, Live(t)', NEW k \in RunKey, k = ev'[t].key
             PROVE  guard'[k] = t \/ (~Terminated(t)' /\ Settled(k)')
  <2>1. \A t \in Task : Live(t)' => ev'[t].key \in RunKey
    BY DEF TypeInv, TaskOK, Live, Event
  <2>2. QED
    BY <2>1 DEF Guarded, Live, Terminated, Settled, Verdict
<1>t. TypeOK /\ TasksOK /\ LocalsOK /\ NoTask \notin Task
  BY HandlerAssumption DEF TypeInv, TypeOK, TasksOK, NoTask
<1>1. ASSUME NEW e \in Event, Dispatch(t, e), ev'[t] = e
      PROVE  guard'[k] = t
  BY <1>1, <1>t DEF Dispatch, TasksOK, Event
<1>2. CASE Live(t) /\ ev'[t] = ev[t]
  <2>k. k = ev[t].key
    BY <1>2
  <2>1. CASE ~Terminated(t) /\ Settled(k)
    BY <1>2, <2>1, <2>k, SettledStays DEF Terminated
  <2>2. CASE guard[k] = t /\ guard'[k] = guard[k]
    BY <1>2, <2>2
  <2>3. CASE guard[k] = t /\ guard'[k] # guard[k]
    <3>1. ~Crash
      BY DEF Crash, Live
    <3>2. PICK u \in Task : /\ Handle(u) /\ pc'[u] = "done" /\ k = tgt[u]
                            /\ pc[u] \in {"final_status", "error_status", "update_session"}
      <4>1. guard[k] # NoTask
        BY <2>3, <1>t
      <4>2. QED
        BY <2>3, <3>1, <4>1, GuardSteps DEF Live
    <3>3. u # t /\ Live(u) /\ Terminated(u)
      BY <3>2 DEF Live, HoldsInv, TaskHolds, AfterTerminal, PcAgent
    <3>4. ev[u].key # k
      BY <1>2, <2>k, <3>3, GuardedAlone DEF OneTaskPerRun
    <3>5. sid[u] # NoSession /\ sid[u] = k.sha
      BY <3>2, <3>4 DEF HoldsInv, TaskHolds, HoldsTarget, PcAgent
    <3>6. Charge(u) /\ sid[u] \in Commit /\ sessions[sid[u]].status # "absent"
      BY <3>3, <3>5, ChargeType DEF Charge
    <3>7. ASSUME NEW v \in Task, Live(v), Terminated(v), ev[v].key = k
          PROVE  v = u
      <4>1. sid[v] = sid[u] /\ Charge(v)
        BY <3>5, <3>6, <3>7 DEF OpenedOnce, Charge
      <4>2. QED
        BY <3>6, <4>1, OneCharge
    <3>8. \A v \in Task : Live(v) /\ Terminated(v) => ev[v].key # k
      BY <3>4, <3>7
    <3>9. PICK e \in Event : e.key.sha = k.sha /\ Verdict(e)
      BY <3>5, <3>6 DEF OpenedOnce, Heard
    <3>10. e.key = k
      BY <3>9, OneKey DEF Event
    <3>11. Settled(k)
      BY <3>8, <3>9, <3>10 DEF Settled
    <3>12. QED
      BY <1>2, <2>k, <3>8, <3>11, SettledStays DEF Terminated
  <2>4. QED
    BY <1>2, <2>1, <2>2, <2>3 DEF Guarded
<1>3. QED
  BY <1>1, <1>2, TaskSteps DEF Live

-----------------------------------------------------------------------------
(* Attempts are counted *)

Pushes(s) == Cardinality(PushedBy(s))

\* The verdict on the last fix of an open session is still to come, or to be
\* matched with the session.
Awaited(s) ==
  /\ IsActive(s) /\ sessions[s].fix \in Commit
  /\ \A e \in Event : e.key.sha = sessions[s].fix /\ Verdict(e) =>
       \E t \in Task : ev[t] = e /\ pc[t] \in {"is_duplicate", "match_author"}

\* The copy of the session that a task in charge works with is the session's,
\* and counts the pushes.
ChargeCounts(t) ==
  /\ count[t] >= 1 /\ count[t] = sessions[sid[t]].attempt
  /\ count[t] + (IF fix[t] \in Commit THEN 1 ELSE 0) = Pushes(sid[t]) + 1
  /\ pc[t] # "set_max" => sessions[sid[t]].max = MaxRetryAttempts
  /\ pc[t] \in Working => count[t] <= PushesAllowed
  /\ pc[t] = "exhaust_session" => count[t] = PushesAllowed + 1

SessionCounts(s) ==
  /\ sessions[s].status = "absent" => PushedBy(s) = {}
  /\ Awaited(s) => /\ sessions[s].max = MaxRetryAttempts
                   /\ sessions[s].attempt \in 2 .. PushesAllowed + 1
                   /\ sessions[s].attempt = Pushes(s) + 1
  /\ Pushes(s) <= PushesAllowed

Counted ==
  /\ \A s \in Commit : SessionCounts(s)
  /\ \A t \in Task : InCharge(t) => ChargeCounts(t)

\* A limit of n attempts allows n - 1 pushes, and one when n is 1.
LEMMA AllowedType ==
  /\ PushesAllowed \in Nat /\ PushesAllowed >= 1 /\ MaxRetryAttempts \in Nat
  /\ MaxRetryAttempts > 2 => PushesAllowed = MaxRetryAttempts - 1
  /\ MaxRetryAttempts <= 2 => PushesAllowed = 1
BY RetryAssumption DEF PushesAllowed

\* The pushes of a session are commits, and as many as can be counted.
LEMMA PushesType ==
  ASSUME NEW s
  PROVE  IsFiniteSet(PushedBy(s)) /\ Pushes(s) \in Nat
<1>1. IsFiniteSet(Commit)
  BY CommitsAssumption, FS_Interval DEF Commit
<1>2. PushedBy(s) \subseteq Commit
  BY DEF PushedBy
<1>3. QED
  BY <1>1, <1>2, FS_Subset, FS_CardinalityType DEF Pushes

\* A session gains a push from a task that works for it, one at a time.
LEMMA PushSteps ==
  ASSUME TypeInv, FreshCommits, [Next]_vars, NEW s \in Commit
  PROVE  /\ \/ PushedBy(s)' = PushedBy(s)
            \/ \E t \in Task : AgentPushes(t) /\ sid[t] = s
         /\ \A t \in Task : AgentPushes(t) /\ sid[t] = s =>
              Pushes(s)' = Pushes(s) + 1 /\ PushedBy(s)' = PushedBy(s) \cup {head + 1}
              /\ head + 1 \in Commit /\ author[head + 1] = "nobody"
<1>t. WorldOK /\ LocalsOK /\ NoSession \notin Commit
  BY DEF TypeInv, TypeOK, TasksOK, Commit, NoSession
<1>1. ASSUME NEW t \in Task, AgentPushes(t), sid[t] = s
      PROVE  /\ PushedBy(s)' = PushedBy(s) \cup {head + 1}
             /\ head + 1 \in Commit /\ author[head + 1] = "nobody"
  <2>1. head + 1 \in Commit /\ head \in Nat
    BY <1>1, <1>t, CommitsAssumption DEF AgentPushes, Push, WorldOK, Commit
  <2>2. author[head + 1] = "nobody"
    BY <2>1 DEF FreshCommits
  <2>3. author' = [author EXCEPT ![head + 1] = "bot"] /\ owner' = [owner EXCEPT ![head + 1] = s]
    BY <1>1 DEF AgentPushes, Push
  <2>4. QED
    BY <2>1, <2>2, <2>3, <1>t DEF PushedBy, WorldOK
<1>2. ASSUME NEW t \in Task, AgentPushes(t), sid[t] = s
      PROVE  Pushes(s)' = Pushes(s) + 1
  <2>1. head + 1 \notin PushedBy(s)
    BY <1>1, <1>2 DEF PushedBy
  <2>2. Cardinality(PushedBy(s) \cup {head + 1}) = Cardinality(PushedBy(s)) + 1
    BY <2>1, PushesType, FS_AddElement
  <2>3. QED
    BY <1>1, <1>2, <2>2 DEF Pushes
<1>3. ASSUME NEW who \in {"human", "bot"}, NEW r \in Commit \cup {NoSession}, Push(who, r),
             who = "human" \/ r # s
      PROVE  PushedBy(s)' = PushedBy(s)
  <2>1. author' = [author EXCEPT ![head + 1] = who] /\ owner' = [owner EXCEPT ![head + 1] = r]
    BY <1>3 DEF Push
  <2>2. head + 1 \in Commit /\ author[head + 1] = "nobody"
    BY <1>3, <1>t, CommitsAssumption DEF Push, WorldOK, Commit, FreshCommits
  <2>3. QED
    BY <1>3, <2>1, <2>2, <1>t DEF PushedBy, WorldOK
<1>4. ASSUME NEW t \in Task, AgentPushes(t), sid[t] # s
      PROVE  PushedBy(s)' = PushedBy(s)
  BY <1>3, <1>4, <1>t DEF AgentPushes, LocalsOK
<1>5. UNCHANGED <<author, owner>> => PushedBy(s)' = PushedBy(s)
  BY DEF PushedBy
<1>6. PushedBy(s)' = PushedBy(s) \/ \E t \in Task : AgentPushes(t) /\ sid[t] = s
  BY <1>3, <1>4, <1>5, WorldWriters DEF Rerun, RunConcludes
<1>7. QED
  BY <1>1, <1>2, <1>6

\* What every counting step rests on.
CalmInv ==
  /\ TypeInv /\ KnownSessions /\ HoldsInv /\ FreshCommits
  /\ EventsOnce /\ OpenedOnce /\ Charges

\* While a task is in charge nothing is awaited.
InHand == \A t \in Task : Charge(t) => ~Awaited(sid[t])

LEMMA NotAwaited == CalmInv => InHand
<1> SUFFICES ASSUME TypeInv, KnownSessions, HoldsInv, EventsOnce, Charges,
                    NEW t \in Task, Charge(t), Awaited(sid[t])
             PROVE  FALSE
  BY DEF CalmInv, InHand
<1>1. Live(t) /\ ev[t] \in Event /\ Verdict(ev[t]) /\ ev[t].key.sha = sessions[sid[t]].fix
  BY ChargeType DEF EventsOnce, Verdict, Charges, Front, Awaited, Terminated
<1>2. PICK u \in Task : ev[u] = ev[t] /\ pc[u] \in {"is_duplicate", "match_author"}
  BY <1>1 DEF Awaited
<1>3. u = t
  BY <1>1, <1>2 DEF EventsOnce, Live
<1>4. QED
  BY <1>2, <1>3 DEF HoldsInv, TaskHolds, BeforeSession, Charge

\* Nothing but a new fix makes a session wait.
LEMMA AwaitedStays ==
  ASSUME CalmProvider, TypeInv, HoldsInv, EventsOnce, [Next]_vars, TypeInv', NEW s \in Commit,
         sessions'[s] = sessions[s], Awaited(s)'
  PROVE  Awaited(s)
<1>1. IsActive(s) /\ sessions[s].fix \in Commit
  BY DEF Awaited, IsActive
<1>2. ASSUME NEW e \in Event, e.key.sha = sessions[s].fix, Verdict(e)
      PROVE  \E t \in Task : ev[t] = e /\ pc[t] \in {"is_duplicate", "match_author"}
  <2>1. Verdict(e)'
    BY <1>2, HeardStays
  <2>2. PICK t \in Task : ev'[t] = e /\ pc'[t] \in {"is_duplicate", "match_author"}
    BY <1>2, <2>1 DEF Awaited
  <2>3. ~Dispatch(t, e)
    BY <1>2, FirstVerdict DEF Heard, Verdict
  <2>4. pc[t] \in {"is_duplicate", "match_author"} /\ ev'[t] = ev[t]
    BY <2>2, <2>3, TaskSteps
  <2>5. QED
    BY <2>2, <2>4
<1>3. QED
  BY <1>1, <1>2 DEF Awaited

\* A task that is about to be matched makes its session an awaited one.
LEMMA MatchAwaited ==
  ASSUME CalmProvider, TypeInv, EventsOnce, NEW t \in Task, Live(t), Terminated(t),
         pc[t] = "match_author", NEW s \in SessionsByFix(ev[t].key.sha)
  PROVE  Awaited(s)
<1>1. ev[t] \in Event /\ ev[t].key.sha \in Commit
  BY DEF TypeInv, TaskOK, Live, Event, RunKey
<1>2. IsActive(s) /\ sessions[s].fix = ev[t].key.sha /\ sessions[s].fix \in Commit
  BY <1>1 DEF SessionsByFix, Commit, NoCommit
<1>3. Verdict(ev[t])
  BY DEF EventsOnce, Verdict, Terminated
<1>4. ASSUME NEW e \in Event, e.key.sha = sessions[s].fix, Verdict(e)
      PROVE  e = ev[t]
  BY <1>1, <1>2, <1>3, <1>4, OneVerdict
<1>5. QED
  BY <1>2, <1>4 DEF Awaited

\* An agent at work is in charge of its session and has a push left.
LEMMA AgentCharge ==
  ASSUME CalmInv, NEW t \in Task, AgentPushes(t), sid[t] # NoSession
  PROVE  /\ InCharge(t) /\ fix[t] \notin Commit /\ pc[t] \in Working /\ sid[t] \in Commit
         /\ IsActive(sid[t])
<1>1. pc[t] = "run_agent"
  BY DEF AgentPushes
<1>2. Charge(t) /\ fix[t] \notin Commit
  BY <1>1 DEF CalmInv, HoldsInv, TaskHolds, AfterTerminal, PcAgent, Charge
<1>3. QED
  BY <1>1, <1>2, ChargeType DEF CalmInv, InCharge, Working, PcAgent, Charges

\* Every step keeps the count of a session.
LEMMA SessionCountsStep ==
  ASSUME CalmProvider, CalmInv, CalmInv', Counted, [Next]_vars, NEW s \in Commit
  PROVE  SessionCounts(s)'
<1>t. /\ TypeInv /\ KnownSessions /\ HoldsInv /\ FreshCommits /\ EventsOnce /\ OpenedOnce /\ Charges
      /\ TypeInv' /\ sessions \in [Commit -> Session] /\ SessionCounts(s)
  BY DEF CalmInv, TypeInv, TypeOK, TablesOK, Counted
<1>n. Pushes(s) \in Nat /\ PushesAllowed \in Nat
  BY PushesType, AllowedType
<1>calm. ~(\E t \in Task : AgentPushes(t) /\ sid[t] = s) => PushedBy(s)' = PushedBy(s) /\ Pushes(s)' = Pushes(s)
  BY <1>t, PushSteps DEF Pushes
<1>1. ASSUME NEW t \in Task, AgentPushes(t), sid[t] = s
      PROVE  SessionCounts(s)'
  <2>1. InCharge(t) /\ fix[t] \notin Commit /\ pc[t] \in Working /\ IsActive(s)
    BY <1>1, AgentCharge DEF Commit, NoSession
  <2>2. count[t] + 0 = Pushes(s) + 1 /\ count[t] <= PushesAllowed
    BY <1>1, <2>1 DEF Counted, ChargeCounts
  <2>3. Pushes(s)' = Pushes(s) + 1
    BY <1>1, <1>t, PushSteps
  <2>4. UNCHANGED sessions
    BY <1>1 DEF AgentPushes
  <2>5. ~Awaited(s)
    BY <1>1, <2>1, NotAwaited DEF InCharge, InHand
  <2>6. ~Awaited(s)'
    BY <1>t, <2>4, <2>5, AwaitedStays
  <2>7. sessions'[s].status # "absent"
    BY <2>1, <2>4 DEF IsActive
  <2>8. Pushes(s)' <= PushesAllowed
    BY <1>t, <1>n, <2>2, <2>3 DEF CalmInv, TypeInv, TypeOK, TasksOK, LocalsOK
  <2>9. QED
    BY <2>6, <2>7, <2>8 DEF SessionCounts, PushesAllowed
<1>2. CASE /\ ~(\E t \in Task : AgentPushes(t) /\ sid[t] = s)
           /\ sessions'[s] = sessions[s]
  <2>1. Awaited(s)' => Awaited(s)
    BY <1>2, <1>t, AwaitedStays
  <2>2. QED
    BY <1>2, <1>t, <1>calm, <2>1 DEF SessionCounts, PushesAllowed
<1>3. CASE /\ ~(\E t \in Task : AgentPushes(t) /\ sid[t] = s)
           /\ sessions'[s] # sessions[s]
  <2>0. sessions'[s].status # "absent" /\ Pushes(s)' <= PushesAllowed
    <3>1. Pushes(s)' <= PushesAllowed
      BY <1>3, <1>t, <1>calm DEF SessionCounts
    <3>2. sessions[s].status # "absent" => sessions'[s].status # "absent"
      BY <1>t, SessionsKeep
    <3>3. sessions[s].status = "absent" => sessions'[s].status = "active"
      BY <1>3, <1>t, SessionSteps
    <3>4. QED
      BY <3>1, <3>2, <3>3
  <2>1. ASSUME ~Awaited(s)'
        PROVE  SessionCounts(s)'
    BY <2>0, <2>1 DEF SessionCounts, PushesAllowed
  <2>2. CASE sessions'[s].fix \notin Commit \/ sessions'[s].status # "active"
    BY <2>1, <2>2 DEF Awaited, IsActive
  <2>3. ASSUME NEW t \in Task, Charge(t), sid[t] = s, SetMaxAttempts(t)
        PROVE  SessionCounts(s)'
    <3>1. Charge(t)' /\ sid'[t] = s
      BY <2>3 DEF SetMaxAttempts, locals, Charge, Terminated
    <3>2. ~Awaited(sid[t])'
      <4>1. InHand'
        BY NotAwaited, PTL
      <4>2. QED
        BY <3>1, <4>1 DEF InHand
    <3>3. ~Awaited(s)'
      BY <3>1, <3>2 DEF Awaited, IsActive
    <3>4. QED
      BY <2>1, <3>3
  <2>4. ASSUME NEW t \in Task, Charge(t), sid[t] = s, UpdateSession(t), out[t] = "FIX_PUSHED",
               fix[t] \in Commit,
               sessions'[s] = [sessions[s] EXCEPT !.fix = fix[t], !.attempt = count[t] + 1]
        PROVE  SessionCounts(s)'
    <3>1. InCharge(t) /\ pc[t] \in Working /\ pc[t] # "set_max"
      BY <2>4 DEF UpdateSession, InCharge, Working
    <3>2. /\ count[t] >= 1 /\ count[t] = sessions[s].attempt /\ count[t] + 1 = Pushes(s) + 1
          /\ sessions[s].max = MaxRetryAttempts /\ count[t] <= PushesAllowed
      BY <2>4, <3>1 DEF Counted, ChargeCounts
    <3>3. count[t] \in Nat /\ sessions'[s].attempt = count[t] + 1 /\ sessions'[s].max = sessions[s].max
      BY <2>4, <1>t DEF Session, TypeInv, TypeOK, TasksOK, LocalsOK
    <3>4. sessions'[s].attempt \in 2 .. PushesAllowed + 1 /\ sessions'[s].attempt = Pushes(s) + 1
      BY <3>2, <3>3, <1>n
    <3>5. QED
      BY <1>3, <1>calm, <2>0, <3>2, <3>3, <3>4 DEF SessionCounts, PushesAllowed
  <2>5. ASSUME NEW t \in Task, UpdateSession(t), out[t] = "FIX_PUSHED", fix[t] \notin Commit,
               sessions'[s] = [sessions[s] EXCEPT !.fix = fix[t], !.attempt = count[t] + 1]
        PROVE  SessionCounts(s)'
    BY <2>2, <2>5, <1>t DEF Session
  <2>6. ASSUME NEW status, status # "active", sessions'[s] = [sessions[s] EXCEPT !.status = status]
        PROVE  SessionCounts(s)'
    BY <2>2, <2>6, <1>t DEF Session
  <2>7. QED
    BY <1>3, <1>t, <2>2, <2>3, <2>4, <2>5, <2>6, SessionSteps
<1>4. QED
  BY <1>1, <1>2, <1>3

\* A task that is matched with a session copies what the session counts.
LEMMA MatchCounts ==
  ASSUME CalmProvider, CalmInv, Counted, [Next]_vars, NEW t \in Task, NEW s \in Commit,
         MatchSession(t, s), BotTerminalStatus(ev[t]) # "none"
  PROVE  ChargeCounts(t)'
<1>t. TypeInv /\ HoldsInv /\ FreshCommits /\ EventsOnce /\ TasksOK /\ LocalsOK /\ sessions[s] \in Session
  BY DEF CalmInv, TypeInv, TypeOK, TablesOK, TasksOK
<1>1. /\ pc[t] = "match_author" /\ s \in SessionsByFix(ev[t].key.sha)
      /\ sid'[t] = s /\ count'[t] = sessions[s].attempt /\ fix'[t] = fix[t]
      /\ UNCHANGED <<sessions, author, owner>>
  BY <1>t DEF MatchSession, LocalsOK, world
<1>2. Live(t) /\ ev[t] \in Event /\ fix[t] \notin Commit
  BY <1>1, <1>t DEF Live, TypeInv, TaskOK, HoldsInv, TaskHolds
<1>3. BotTerminalStatus(ev[t]) \in {"success", "failure"}
  BY DEF MatchSession
<1>4. Terminated(t)
  BY <1>2, <1>3, VerdictPhases DEF Terminated
<1>5. Awaited(s)
  BY <1>1, <1>2, <1>4, <1>t, MatchAwaited
<1>6. /\ sessions[s].max = MaxRetryAttempts /\ sessions[s].attempt \in 2 .. PushesAllowed + 1
      /\ sessions[s].attempt = Pushes(s) + 1
  BY <1>5 DEF Counted, SessionCounts
<1>7. Pushes(s)' = Pushes(s)
  BY <1>1 DEF Pushes, PushedBy
<1> DEFINE a == sessions[s].attempt
<1>8. a \in Nat /\ a >= 2 /\ a <= PushesAllowed + 1
  BY <1>6, AllowedType
<1>9. pc'[t] \in Working => a <= PushesAllowed
  <2>1. pc'[t] \in Working => ~Spent(s)
    BY <1>1, <1>t DEF MatchSession, Goto, TasksOK, Working, PcAgent
  <2>2. ~Spent(s) => ~(a >= MaxRetryAttempts)
    BY <1>6 DEF Spent
  <2>3. QED
    BY <2>1, <2>2, <1>8, AllowedType
<1>10. pc'[t] = "exhaust_session" => a = PushesAllowed + 1
  <2>1. pc'[t] = "exhaust_session" => Spent(s)
    BY <1>1, <1>t DEF MatchSession, Goto, TasksOK
  <2>2. Spent(s) => a >= MaxRetryAttempts
    BY <1>6 DEF Spent
  <2>3. QED
    BY <2>1, <2>2, <1>8, AllowedType
<1>11. /\ count'[t] >= 1 /\ count'[t] = sessions'[sid'[t]].attempt
       /\ count'[t] + (IF fix'[t] \in Commit THEN 1 ELSE 0) = Pushes(s)' + 1
       /\ sessions'[sid'[t]].max = MaxRetryAttempts
  BY <1>1, <1>2, <1>6, <1>7, <1>8
<1>12. Pushes(s)' = Pushes(sid[t])'
  BY <1>1 DEF Pushes, PushedBy
<1>13. QED
  BY <1>1, <1>9, <1>10, <1>11, <1>12 DEF ChargeCounts, PushesAllowed

\* So does the task that opens one.
LEMMA CreateCounts ==
  ASSUME CalmProvider, CalmInv, Counted, [Next]_vars, NEW t \in Task, CreateSession(t)
  PROVE  ChargeCounts(t)'
<1>t. TypeInv /\ HoldsInv /\ TasksOK /\ LocalsOK /\ sessions \in [Commit -> Session]
  BY DEF CalmInv, TypeInv, TypeOK, TablesOK, TasksOK
<1>1. /\ pc[t] = "create_session" /\ sid[t] = NoSession /\ Terminated(t) /\ Live(t)
      /\ ev[t].key.sha \in Commit /\ fix[t] \notin Commit
  BY <1>t DEF CreateSession, HoldsInv, TaskHolds, BeforeSession, AfterTerminal, Live, TypeInv, TaskOK,
     Event, RunKey
<1>s. PICK s \in Commit : s = ev[t].key.sha
  BY <1>1
<1>2. sessions[s].status = "absent"
  BY <1>1, <1>s DEF CalmInv, OpenedOnce, Commit, NoSession
<1>3. /\ sessions'[s].status = "active" /\ sessions'[s].attempt = 1 /\ sessions'[s].max = TableMaxAttempts
  BY <1>s, <1>2, <1>t DEF CreateSession, InsertSession
<1>4. /\ sid'[t] = s /\ count'[t] = 1 /\ fix'[t] \notin Commit /\ UNCHANGED <<author, owner>>
      /\ pc'[t] = IF TableMaxAttempts # MaxRetryAttempts THEN "set_max" ELSE "mark_working"
  BY <1>1, <1>s, <1>3, <1>t DEF CreateSession, LocalsOK, TasksOK, Goto, world
<1>5. PushedBy(sid[t])' = {}
  <2>1. PushedBy(s) = {}
    BY <1>2 DEF Counted, SessionCounts
  <2>2. QED
    BY <1>4, <2>1 DEF PushedBy
<1>6. Pushes(sid[t])' = 0
  BY <1>5, FS_EmptySet DEF Pushes
<1>7. QED
  BY <1>3, <1>4, <1>6, AllowedType DEF ChargeCounts, Working, PcAgent, PushesAllowed

\* A task in charge that goes on keeps count.
LEMMA ChargeGoesOn ==
  ASSUME CalmProvider, CalmInv, Counted, [Next]_vars, NEW t \in Task, InCharge(t)', Charge(t),
         sid'[t] = sid[t], count'[t] = count[t], Onward(t)
  PROVE  ChargeCounts(t)'
<1>t. /\ TypeInv /\ KnownSessions /\ HoldsInv /\ FreshCommits /\ EventsOnce /\ Charges
      /\ TasksOK /\ LocalsOK /\ sessions \in [Commit -> Session]
  BY DEF CalmInv, TypeInv, TypeOK, TablesOK, TasksOK
<1>1. InCharge(t) /\ ~CloseSession(t) /\ ~UpdateSession(t)
  BY DEF Onward, InCharge
<1>2. PICK s \in Commit : s = sid[t]
  BY <1>t, ChargeType
<1>3. ChargeCounts(t)
  BY <1>1 DEF Counted
<1>4. \/ sessions'[s] = sessions[s]
      \/ sessions'[s] = [sessions[s] EXCEPT !.max = MaxRetryAttempts]
  BY <1>1, <1>2, <1>t, ChargeKeeps
<1>5. sessions'[s].attempt = sessions[s].attempt /\ sessions'[s].max \in {sessions[s].max, MaxRetryAttempts}
  BY <1>4, <1>t DEF Session
<1>6. pc'[t] # "set_max" => sessions'[s].max = MaxRetryAttempts
  <2>1. CASE pc[t] # "set_max"
    BY <1>2, <1>3, <1>5, <2>1 DEF ChargeCounts
  <2>2. CASE SetMaxAttempts(t)
    BY <1>2, <2>2, <1>t DEF SetMaxAttempts, SetSessionMax, Session
  <2>3. QED
    BY <2>1, <2>2 DEF Onward
<1>7. count'[t] + (IF fix'[t] \in Commit THEN 1 ELSE 0) = Pushes(s)' + 1
  <2>0. /\ count[t] + (IF fix[t] \in Commit THEN 1 ELSE 0) = Pushes(s) + 1
        /\ count[t] \in Nat /\ Pushes(s) \in Nat
    BY <1>2, <1>3, <1>t, PushesType DEF ChargeCounts, LocalsOK
  <2>1. CASE AgentPushes(t)
    <3>1. Pushes(s)' = Pushes(s) + 1 /\ head + 1 \in Commit
      BY <1>2, <1>t, <2>1, PushSteps
    <3>2. fix[t] \notin Commit
      BY <2>1, <1>2, AgentCharge DEF Commit, NoSession
    <3>3. fix'[t] \in Commit
      BY <2>1, <3>1, <1>t DEF AgentPushes, LocalsOK, Commit, NoCommit
    <3>4. QED
      BY <2>0, <3>1, <3>2, <3>3
  <2>2. CASE ~AgentPushes(t)
    <3>1. ASSUME NEW u \in Task, AgentPushes(u), sid[u] = s
          PROVE  FALSE
      <4>1. Charge(u)
        BY <1>2, <3>1, AgentCharge DEF Commit, NoSession, InCharge
      <4>2. QED
        BY <1>2, <1>t, <2>2, <3>1, <4>1, OneCharge
    <3>2. Pushes(s)' = Pushes(s)
      BY <1>t, <3>1, PushSteps DEF Pushes
    <3>3. fix'[t] \in Commit <=> fix[t] \in Commit
      BY <2>2 DEF Onward
    <3>4. QED
      BY <2>0, <3>2, <3>3
  <2>3. QED
    BY <2>1, <2>2
<1>8. Pushes(s)' = Pushes(sid[t])'
  BY <1>2 DEF Pushes, PushedBy
<1>9. QED
  BY <1>2, <1>3, <1>5, <1>6, <1>7, <1>8 DEF ChargeCounts, Onward, PushesAllowed

\* Every step keeps the count.
LEMMA CountedStep ==
  ASSUME CalmProvider, CalmInv, CalmInv', Counted, [Next]_vars
  PROVE  Counted'
<1>1. ASSUME NEW t \in Task, InCharge(t)'
      PROVE  ChargeCounts(t)'
  <2>1. Charge(t)'
    BY <1>1 DEF InCharge
  <2>2. ~(FindSession(t) /\ sessions[ev[t].key.sha].status # "absent")
    <3>1. ASSUME FindSession(t)
          PROVE  sid[t] = NoSession /\ Live(t) /\ Terminated(t) /\ ev[t].key.sha \in Commit
      BY <3>1 DEF FindSession, CalmInv, HoldsInv, TaskHolds, BeforeSession, AfterTerminal, Live, TypeInv,
         TaskOK, Event, RunKey
    <3>2. QED
      BY <3>1 DEF CalmInv, OpenedOnce, Commit, NoSession
  <2>3. QED
    BY <1>1, <2>1, <2>2, ChargeSteps, MatchCounts, CreateCounts, ChargeGoesOn DEF CalmInv
<1>2. QED
  BY <1>1, SessionCountsStep DEF Counted

-----------------------------------------------------------------------------
(* Attempts written down, and the last failure *)

\* As long as the server never died, an open session counts the pushes, but
\* for one that its task has not written back yet.
Recorded ==
  crashes = 0 =>
    \A s \in Commit : IsActive(s) /\ (\A t \in Task : sid[t] = s => fix[t] \notin Commit) =>
      sessions[s].attempt >= Pushes(s) + 1

\* A task that pushed keeps that to itself until it writes the session.
LEMMA PushedSteps ==
  ASSUME TypeInv, HoldsInv, [Next]_vars, ~Crash, NEW t \in Task, fix[t] \in Commit, sid[t] # NoSession
  PROVE  UpdateSession(t) \/ (sid'[t] = sid[t] /\ fix'[t] = fix[t])
<1>t. TypeOK /\ TasksOK /\ LocalsOK /\ pc[t] \in {"final_status", "update_session"}
  BY DEF TypeInv, TypeOK, TasksOK, HoldsInv, TaskHolds
<1>1. CASE Provider \/ Server \/ UNCHANGED vars
  BY <1>1 DEF Provider, HumanPush, Rerun, RunConcludes, Server, Dispatch, DispatchDropped, vars, locals
<1>2. ASSUME NEW u \in Task, Handle(u), u # t
      PROVE  sid'[t] = sid[t] /\ fix'[t] = fix[t]
  BY <1>2, <1>t, OthersKeep
<1>3. CASE Handle(t)
  <2>1. WriteFinalStatus(t) \/ UpdateSession(t)
    BY <1>t, <1>3 DEF Handle, CheckDuplicate, TreatAsHuman, MatchNothing, MatchSession,
       CloseSession, FindRow,
       UpdateRow, RecordSkippedBot, ResolveTarget, CheckRerun, TrackOnly, WriteEventStatus, FindSession,
       CreateSession, SetMaxAttempts, MarkWorking, AgentPushes, AgentLosesPush, AgentGivesUp, AgentRaises,
       WriteErrorStatus
  <2>2. QED
    BY <2>1 DEF WriteFinalStatus, locals
<1>4. QED
  BY <1>1, <1>2, <1>3 DEF Next

\* Every step keeps what is written down.
LEMMA RecordedStep ==
  ASSUME CalmProvider, CalmInv, Counted, Recorded, [Next]_vars, TypeInv'
  PROVE  Recorded'
<1>t. /\ TypeInv /\ KnownSessions /\ HoldsInv /\ FreshCommits /\ EventsOnce /\ Charges
      /\ TasksOK /\ LocalsOK /\ sessions \in [Commit -> Session]
  BY DEF CalmInv, TypeInv, TypeOK, TablesOK, TasksOK
<1> SUFFICES ASSUME crashes' = 0, NEW s \in Commit, sessions'[s].status = "active",
                    \A t \in Task : sid'[t] = s => fix'[t] \notin Commit
             PROVE  sessions'[s].attempt >= Pushes(s)' + 1
  BY DEF Recorded, IsActive
<1>n. s # NoSession /\ Pushes(s) \in Nat
  BY PushesType DEF Commit, NoSession
<1>0. ~Crash /\ crashes = 0
  <2>1. crashes \in Nat
    BY <1>t DEF TypeInv, TypeOK, WorldOK
  <2>2. ~Crash
    <3>1. Crash => crashes' = crashes + 1
      BY DEF Crash
    <3>2. QED
      BY <2>1, <3>1
  <2>3. CASE Provider \/ Server \/ UNCHANGED vars
    <3>1. Provider => UNCHANGED crashes
      BY DEF Provider, HumanPush, Rerun, RunConcludes
    <3>2. Server => UNCHANGED crashes
      BY DEF Server, Dispatch, DispatchDropped
    <3>3. UNCHANGED vars => UNCHANGED crashes
      BY DEF vars
    <3>4. UNCHANGED crashes
      BY <2>3, <3>1, <3>2, <3>3, Zenon
    <3>5. QED
      BY <2>2, <3>4
  <2>4. ASSUME NEW t \in Task, Handle(t)
        PROVE  UNCHANGED crashes
    BY <2>4 DEF Handle, CheckDuplicate, TreatAsHuman, MatchNothing, MatchSession, CloseSession, FindRow,
       UpdateRow, RecordSkippedBot, ResolveTarget, CheckRerun, TrackOnly, WriteEventStatus, FindSession,
       CreateSession, SetMaxAttempts, MarkWorking, AgentPushes, AgentLosesPush, AgentGivesUp, AgentRaises,
       WriteFinalStatus, UpdateSession, WriteErrorStatus, world
  <2>5. QED
    BY <2>2, <2>3, <2>4 DEF Next
<1>1. Pushes(s)' = Pushes(s)
  <2>1. ASSUME NEW t \in Task, AgentPushes(t), sid[t] = s
        PROVE  FALSE
    <3>1. head + 1 \in Commit
      BY <2>1, <1>t, PushSteps
    <3>2. sid'[t] = s /\ fix'[t] = head + 1
      BY <2>1, <1>t DEF AgentPushes, LocalsOK
    <3>3. QED
      BY <3>1, <3>2 DEF Commit, NoCommit
  <2>2. QED
    BY <2>1, <1>t, PushSteps DEF Pushes
<1>2. ASSUME NEW t \in Task, UpdateSession(t), sid[t] = s
      PROVE  sessions'[s].attempt >= Pushes(s)' + 1
  <2>1. InCharge(t)
    BY <1>2, <1>n, <1>t DEF UpdateSession, HoldsInv, TaskHolds, AfterTerminal, InCharge, Charge
  <2>2. /\ count[t] \in Nat
        /\ count[t] + (IF fix[t] \in Commit THEN 1 ELSE 0) = Pushes(s) + 1
    BY <1>2, <2>1, <1>t DEF Counted, ChargeCounts, LocalsOK
  <2>3. out[t] = "FIX_PUSHED"
    <3>1. out[t] # "FIX_PUSHED" => sessions'[s].status = out[t]
      BY <1>2, <1>t DEF UpdateSession, SetSessionStatus, Session
    <3>2. QED
      BY <1>2, <3>1, <1>t DEF UpdateSession, TypeInv, TaskOK
  <2>4. sessions'[s].attempt = count[t] + 1
    <3>1. sessions' = [sessions EXCEPT ![s] = [@ EXCEPT !.fix = fix[t], !.attempt = count[t] + 1]]
      BY <1>2, <2>3 DEF UpdateSession, RecordFix
    <3>2. sessions[s] \in Session /\ sessions'[s] = [sessions[s] EXCEPT !.fix = fix[t], !.attempt = count[t] + 1]
      BY <3>1, <1>t
    <3>3. QED
      BY <3>2 DEF Session
  <2>5. count[t] \in Nat /\ count[t] >= Pushes(s)
    BY <1>n, <2>2
  <2>6. QED
    BY <1>1, <1>n, <2>4, <2>5
<1>3. CASE \E t \in Task : sid[t] = s /\ fix[t] \in Commit
  BY <1>0, <1>2, <1>3, <1>n, <1>t, PushedSteps
<1>4. CASE \A t \in Task : sid[t] = s => fix[t] \notin Commit
  <2>1. IsActive(s) => sessions[s].attempt >= Pushes(s) + 1
    BY <1>0, <1>4 DEF Recorded
  <2>2. CASE sessions'[s] = sessions[s]
    BY <1>1, <2>1, <2>2 DEF IsActive
  <2>3. CASE sessions[s].status = "absent" /\ sessions'[s].attempt = 1
    <3>1. Pushes(s) = 0
      BY <2>3, FS_EmptySet DEF Counted, SessionCounts, Pushes
    <3>2. QED
      BY <1>1, <2>3, <3>1
  <2>4. CASE sessions'[s] = [sessions[s] EXCEPT !.max = MaxRetryAttempts]
    BY <1>1, <1>t, <2>1, <2>4 DEF IsActive, Session
  <2>5. ASSUME NEW t \in Task, sessions'[s] = [sessions[s] EXCEPT !.status = out[t]],
               out[t] \in {"PASSED", "EXHAUSTED"}
        PROVE  FALSE
    BY <2>5, <1>t DEF Session
  <2>6. CASE \E t \in Task : UpdateSession(t) /\ sid[t] = s
    BY <1>2, <2>6
  <2>7. QED
    BY <1>t, <2>2, <2>3, <2>4, <2>5, <2>6, SessionSteps
<1>5. QED
  BY <1>3, <1>4

\* A session that is about to be EXHAUSTED remembers the fix that failed.
ToExhaust == \A t \in Task : pc[t] = "exhaust_session" => sessions[sid[t]].fix \in Commit

\* Every step keeps that fix.
LEMMA ToExhaustStep ==
  ASSUME CalmProvider, CalmInv, ToExhaust, [Next]_vars, TypeInv'
  PROVE  ToExhaust'
<1>t. /\ TypeInv /\ KnownSessions /\ HoldsInv /\ EventsOnce /\ OpenedOnce /\ Charges
      /\ TasksOK /\ LocalsOK /\ sessions \in [Commit -> Session]
  BY DEF CalmInv, TypeInv, TypeOK, TablesOK, TasksOK
<1> SUFFICES ASSUME NEW t \in Task, pc'[t] = "exhaust_session"
             PROVE  sessions'[sid'[t]].fix \in Commit
  BY DEF ToExhaust
<1>1. Charge(t)'
  BY <1>t, HoldsStep DEF HoldsInv, TaskHolds, AfterTerminal, Charge, TypeInv, TaskOK, HoldsSession,
     Commit, NoSession
<1>2. CASE Charge(t) /\ sid'[t] = sid[t] /\ Onward(t)
  <2>1. pc[t] = "exhaust_session" /\ ~UpdateSession(t) /\ sid[t] \in Commit
    BY <1>2, <1>t, ChargeType DEF Onward
  <2>2. sessions'[sid[t]].fix = sessions[sid[t]].fix
    <3>1. PICK s \in Commit : s = sid[t]
      BY <2>1
    <3>2. /\ sessions[s] \in Session
          /\ \/ sessions'[s] = sessions[s]
             \/ sessions'[s] = [sessions[s] EXCEPT !.max = MaxRetryAttempts]
             \/ sessions'[s] = [sessions[s] EXCEPT !.status = out[t]]
      BY <1>2, <1>t, <2>1, <3>1, ChargeKeeps
    <3>3. QED
      BY <3>1, <3>2 DEF Session
  <2>3. QED
    BY <1>2, <2>1, <2>2 DEF ToExhaust
<1>3. ASSUME NEW s \in Commit, MatchSession(t, s)
      PROVE  sessions'[sid'[t]].fix \in Commit
  <2>1. sid'[t] = s /\ UNCHANGED sessions /\ sessions[s].fix = ev[t].key.sha /\ pc[t] = "match_author"
    BY <1>3, <1>t DEF MatchSession, LocalsOK, SessionsByFix
  <2>2. ev[t].key.sha \in Commit
    BY <2>1, <1>t DEF TypeInv, TaskOK, Event, RunKey
  <2>3. QED
    BY <2>1, <2>2 DEF Commit, NoCommit
<1>4. ~FindSession(t) /\ ~CreateSession(t)
  BY <1>t DEF FindSession, CreateSession, Goto, TasksOK
<1>5. QED
  BY <1>1, <1>2, <1>3, <1>4, <1>t, ChargeSteps

\* CI turned down the last fix of an exhausted session: its run failed, or was
\* cancelled, which _bot_terminal_status takes for a failure.
TurnedDown ==
  \A s \in Commit : sessions[s].status = "EXHAUSTED" =>
    \E k \in RunKey : k.sha = sessions[s].fix /\ ci[k] \in {"failure", "cancelled"}

\* Every step keeps the failure of an exhausted session.
LEMMA ExhaustedStep ==
  ASSUME CalmProvider, CalmInv, ToExhaust, TurnedDown, [Next]_vars
  PROVE  TurnedDown'
<1>t. /\ TypeInv /\ KnownSessions /\ HoldsInv /\ FreshCommits /\ EventsOnce /\ Charges
      /\ sessions \in [Commit -> Session]
  BY DEF CalmInv, TypeInv, TypeOK, TablesOK
<1> SUFFICES ASSUME NEW s \in Commit, sessions'[s].status = "EXHAUSTED"
             PROVE  \E k \in RunKey : k.sha = sessions'[s].fix /\ ci'[k] \in {"failure", "cancelled"}
  BY DEF TurnedDown
<1>stays. ASSUME NEW k \in RunKey, ci[k] \in {"failure", "cancelled"}
          PROVE  ci'[k] = ci[k]
  BY <1>stays, <1>t, HistoryGrows DEF Terminal
<1>1. CASE sessions'[s] = sessions[s]
  BY <1>1, <1>stays DEF TurnedDown
<1>2. CASE sessions'[s] # sessions[s]
  <2>1. PICK t \in Task :
          /\ Charge(t) /\ sid[t] = s /\ sessions[s].status # "absent"
          /\ \/ /\ SetMaxAttempts(t)
                /\ sessions'[s] = [sessions[s] EXCEPT !.max = MaxRetryAttempts]
             \/ /\ CloseSession(t) /\ out[t] \in {"PASSED", "EXHAUSTED"}
                /\ sessions'[s] = [sessions[s] EXCEPT !.status = out[t]]
             \/ /\ UpdateSession(t) /\ out[t] = "FIX_PUSHED"
                /\ sessions'[s] = [sessions[s] EXCEPT !.fix = fix[t], !.attempt = count[t] + 1]
             \/ /\ UpdateSession(t) /\ out[t] = "CANNOT_FIX"
                /\ sessions'[s] = [sessions[s] EXCEPT !.status = "CANNOT_FIX"]
    <3>1. sessions'[s].status # "active"
      OBVIOUS
    <3>2. TypeInv /\ KnownSessions /\ HoldsInv
      BY <1>t
    <3>3. QED
      BY <1>2, <3>1, <3>2, SessionSteps
  <2>2. InCharge(t) /\ sessions[s].status = "active"
    BY <2>1, <1>t DEF SetMaxAttempts, CloseSession, UpdateSession, InCharge, Charges, IsActive
  <2>3. CloseSession(t) /\ sessions'[s] = [sessions[s] EXCEPT !.status = out[t]] /\ out[t] = "EXHAUSTED"
    BY <2>1, <2>2, <1>t DEF Session
  <2>4. pc[t] = "exhaust_session"
    BY <2>3, <1>t DEF CloseSession, TypeInv, TaskOK
  <2>5. sessions'[s].fix = sessions[s].fix /\ sessions[s].fix \in Commit
    BY <2>1, <2>3, <2>4, <1>t DEF Session, ToExhaust
  <2>6. ev[t].key.sha = sessions[s].fix /\ ev[t].key \in RunKey /\ ev[t] \in Event /\ Live(t)
    BY <2>1, <2>5, <1>t, ChargeType DEF Charges, Front
  <2>7. ev[t].phase \in {"failure", "cancelled"}
    BY <2>4, <1>t DEF HoldsInv, TaskHolds
  <2>8. ci[ev[t].key] = ev[t].phase
    BY <2>6, <2>7, <1>t DEF EventsOnce, Verdict, Terminal
  <2>9. QED
    BY <2>5, <2>6, <2>7, <2>8, <1>stays
<1>3. QED
  BY <1>1, <1>2

-----------------------------------------------------------------------------
(* The inductive invariant and what follows from it *)

SessionInv ==
  /\ CalmInv /\ Guarded
  /\ Counted /\ Recorded /\ ToExhaust /\ TurnedDown

\* Initially nothing was delivered, opened or pushed.
LEMMA SessionInit == Init => SessionInv
<1> SUFFICES ASSUME Init  PROVE SessionInv
  OBVIOUS
<1>t. TypeInv /\ KnownSessions /\ HoldsInv /\ FreshCommits
  BY TypeInit, KnownInit, HoldsInit, SafetyInit DEF SafetyInv
<1>i. /\ sessions = [s \in Commit |-> NoSessionRow] /\ delivered = [e \in Event |-> 0]
      /\ pc = [t \in Task |-> "done"] /\ sid = [t \in Task |-> NoSession]
      /\ author = [c \in Commit |-> "nobody"]
  BY DEF Init, TablesInit
<1>1. EventsOnce /\ OpenedOnce /\ Charges /\ Guarded /\ ToExhaust /\ TurnedDown
  BY <1>i DEF EventsOnce, Verdict, Live, OpenedOnce, NoSessionRow, Charges, Charge, Guarded, ToExhaust,
     TurnedDown
<1>2. \A s \in Commit : PushedBy(s) = {} /\ Pushes(s) = 0 /\ sessions[s].status = "absent"
  BY <1>i, FS_EmptySet DEF PushedBy, Pushes, NoSessionRow
<1>3. \A s \in Commit : SessionCounts(s)
  BY <1>2, AllowedType DEF SessionCounts, Awaited, IsActive
<1>4. Counted /\ Recorded
  BY <1>i, <1>2, <1>3 DEF Counted, Recorded, InCharge, Charge, IsActive
<1>5. QED
  BY <1>t, <1>1, <1>4 DEF SessionInv, CalmInv

\* Every step keeps it.
LEMMA SessionStep ==
  ASSUME CalmProvider, SessionInv, [Next]_vars
  PROVE  SessionInv'
<1>t. TypeInv /\ KnownSessions /\ HoldsInv /\ FreshCommits /\ EventsOnce /\ OpenedOnce /\ Charges
  BY DEF SessionInv, CalmInv
<1>1. TypeInv' /\ KnownSessions' /\ HoldsInv' /\ FreshCommits'
  BY <1>t, TypeStep, KnownStep, HoldsStep, HistoryGrows
<1>2. CalmInv'
  BY <1>t, <1>1, EventsStep, OpenedStep, ChargesStep DEF CalmInv
<1>3. Guarded'
  BY <1>t, <1>1, GuardedStep DEF SessionInv
<1>4. Counted' /\ Recorded' /\ ToExhaust' /\ TurnedDown'
  BY <1>1, <1>2, CountedStep, RecordedStep, ToExhaustStep, ExhaustedStep DEF SessionInv
<1>5. QED
  BY <1>2, <1>3, <1>4 DEF SessionInv

\* So it holds throughout.
LEMMA SessionInvariant ==
  ASSUME CalmProvider
  PROVE  Spec => []SessionInv
<1>1. SessionInv /\ [Next]_vars => SessionInv'
  BY SessionStep
<1>2. QED
  BY <1>1, SessionInit, PTL DEF Spec

\* One task in charge, one agent.
LEMMA OneAgent ==
  ASSUME CalmProvider
  PROVE  SessionInv => OneAgentPerSession
<1> SUFFICES ASSUME SessionInv, NEW t \in Task, NEW u \in Task, pc[t] \in PcAgent, pc[u] \in PcAgent,
                    sid[t] = sid[u], sid[t] # NoSession
             PROVE  t = u
  BY DEF OneAgentPerSession
<1>1. CalmInv
  BY DEF SessionInv
<1>2. Charge(t) /\ Charge(u)
  BY <1>1 DEF CalmInv, HoldsInv, TaskHolds, AfterTerminal, Charge
<1>3. QED
  BY <1>1, <1>2, OneCharge DEF CalmInv

\* One task for a run.
LEMMA OneTask == SessionInv => OneTaskPerRun
BY GuardedAlone DEF SessionInv, CalmInv

\* attempt_count misses no push but one on its way to the table.
LEMMA AttemptsCount ==
  ASSUME CalmProvider
  PROVE  SessionInv => (crashes = 0 => AttemptsCountPushes)
<1> SUFFICES ASSUME SessionInv, crashes = 0, NEW s \in Commit, IsActive(s),
                    NEW pending, pending = {t \in Task : sid[t] = s /\ fix[t] \in Commit}
             PROVE  sessions[s].attempt + Cardinality(pending) >= 1 + Cardinality(PushedBy(s))
  BY DEF AttemptsCountPushes
<1>t. /\ TypeInv /\ KnownSessions /\ HoldsInv /\ EventsOnce /\ Charges /\ Counted /\ Recorded
      /\ sessions[s].attempt \in Nat /\ Pushes(s) \in Nat /\ Pushes(s) = Cardinality(PushedBy(s))
  BY PushesType DEF SessionInv, CalmInv, TypeInv, TypeOK, TablesOK, Session, Pushes
<1>1. ASSUME NEW u \in pending
      PROVE  u \in Task /\ InCharge(u) /\ sid[u] = s /\ fix[u] \in Commit
  <2>1. u \in Task /\ sid[u] = s /\ fix[u] \in Commit
    BY <1>1
  <2>2. pc[u] \in {"final_status", "update_session"} /\ Terminated(u)
    BY <1>t, <2>1 DEF HoldsInv, TaskHolds, AfterTerminal, PcAgent
  <2>3. QED
    BY <2>1, <2>2 DEF Commit, NoSession, InCharge, Charge
<1>2. CASE pending = {}
  <2>1. \A t \in Task : sid[t] = s => fix[t] \notin Commit
    BY <1>2
  <2>2. sessions[s].attempt >= Pushes(s) + 1
    BY <1>t, <2>1 DEF Recorded
  <2>3. Cardinality(pending) = 0
    BY <1>2, FS_EmptySet
  <2>4. QED
    BY <1>t, <2>2, <2>3
<1>3. ASSUME NEW u \in pending
      PROVE  sessions[s].attempt + Cardinality(pending) >= 1 + Cardinality(PushedBy(s))
  <2>1. pending = {u}
    BY <1>t, <1>1, OneCharge DEF InCharge
  <2>2. Cardinality(pending) = 1
    BY <2>1, FS_Singleton
  <2>3. sessions[s].attempt + 1 = Pushes(s) + 1
    BY <1>t, <1>1 DEF Counted, ChargeCounts
  <2>4. QED
    BY <1>t, <2>2, <2>3
<1>4. QED
  BY <1>2, <1>3

\* The budget is within the setting.
LEMMA PushLimit == SessionInv => HardLimit
<1> SUFFICES ASSUME SessionInv, NEW s \in Commit
             PROVE  Cardinality(PushedBy(s)) <= MaxRetryAttempts
  BY DEF HardLimit
<1>1. Pushes(s) <= PushesAllowed /\ Pushes(s) \in Nat
  BY PushesType DEF SessionInv, Counted, SessionCounts
<1>2. PushesAllowed <= MaxRetryAttempts
  BY AllowedType, RetryAssumption
<1>3. QED
  BY <1>1, <1>2, AllowedType DEF Pushes

\* A task in charge works for an open session.
LEMMA OpenOnly == SessionInv => NeverResurrected
<1> SUFFICES ASSUME SessionInv, NEW t \in Task, pc[t] = "run_agent", sid[t] # NoSession
             PROVE  IsActive(sid[t])
  BY DEF NeverResurrected
<1>1. InCharge(t)
  BY DEF SessionInv, CalmInv, HoldsInv, TaskHolds, AfterTerminal, PcAgent, InCharge, Charge
<1>2. QED
  BY <1>1 DEF SessionInv, CalmInv, Charges, InCharge

\* A row of ci_runs is only ever bound to the session of its own commit:
\* update_status is never handed another one, whatever the provider delivers,
\* reruns or repeats and however often the server restarts.
THEOREM RowsOwnCorrect == Spec => []RowsOwn
<1>1. Init => TypeInv /\ KnownSessions /\ HoldsInv
  BY TypeInit, KnownInit, HoldsInit
<1>2. TypeInv /\ KnownSessions /\ HoldsInv /\ [Next]_vars => (TypeInv /\ KnownSessions /\ HoldsInv)'
  BY TypeStep, KnownStep, HoldsStep
<1>3. HoldsInv => RowsOwn
  BY DEF HoldsInv
<1>4. QED
  BY <1>1, <1>2, <1>3, PTL DEF Spec

\* Two tasks never run the agent for the same session: the verdict that brings
\* a task to run_agent is the only one on the last fix of its session.
THEOREM OneAgentCorrect ==
  ASSUME CalmProvider
  PROVE  Spec => []OneAgentPerSession
<1>1. SessionInv => OneAgentPerSession
  BY OneAgent
<1>2. QED
  BY <1>1, SessionInvariant, PTL

\* While a task handles a run, dispatch_webhook_event starts no second one for
\* it, although the finally clause of a retry pops the key of another row.
THEOREM OneTaskCorrect ==
  ASSUME CalmProvider
  PROVE  Spec => []OneTaskPerRun
BY OneTask, SessionInvariant, PTL

\* A provider that cancels no run has no run that was cancelled.
LEMMA NeverCancelled ==
  ASSUME "cancelled" \notin Results
  PROVE  Spec => [](\A k \in RunKey : ci[k] # "cancelled")
<1> DEFINE Never == \A k \in RunKey : ci[k] # "cancelled"
<1>1. Init => Never
  BY DEF Init
<1>2. TypeOK /\ Never /\ [Next]_vars => Never'
  <2> SUFFICES ASSUME TypeOK, Never, [Next]_vars, NEW k \in RunKey  PROVE ci'[k] # "cancelled"
    OBVIOUS
  <2>t. ci \in [RunKey -> CiState] /\ ci[k] # "cancelled"
    BY DEF TypeOK, WorldOK
  <2>1. CASE UNCHANGED <<head, author, owner, ci>>
    BY <2>t, <2>1
  <2>2. ASSUME NEW who, NEW s, Push(who, s)
        PROVE  ci'[k] # "cancelled"
    BY <2>t, <2>2 DEF Push
  <2>3. ASSUME NEW j \in RunKey, Rerun(j) \/ \E result \in Results : RunConcludes(j, result)
        PROVE  ci'[k] # "cancelled"
    BY <2>t, <2>3 DEF Rerun, RunConcludes
  <2>4. QED
    BY <2>1, <2>2, <2>3, WorldWriters DEF AgentPushes
<1>3. QED
  BY <1>1, <1>2, TypeCorrect, PTL DEF Spec

\* handle_webhook_event says EXHAUSTED only of a session whose last recorded
\* fix failed in CI, unless the provider cancels runs: a bot run that was
\* cancelled counts as a failed one.
THEOREM ExhaustedCorrect ==
  ASSUME CalmProvider, "cancelled" \notin Results
  PROVE  Spec => []ExhaustedHasFailed
<1>1. Spec => [](\A k \in RunKey : ci[k] # "cancelled")
  BY NeverCancelled
<1>2. TurnedDown /\ (\A k \in RunKey : ci[k] # "cancelled") => ExhaustedHasFailed
  BY DEF TurnedDown, ExhaustedHasFailed
<1>3. QED
  BY <1>1, <1>2, SessionInvariant, PTL DEF SessionInv

\* Until the server restarts, attempt_count of an open session misses at most
\* the push that run_agent has reported and update_session not yet recorded.
THEOREM AttemptsCorrect ==
  ASSUME CalmProvider
  PROVE  Spec => [](crashes = 0 => AttemptsCountPushes)
<1>1. SessionInv => (crashes = 0 => AttemptsCountPushes)
  BY AttemptsCount
<1>2. QED
  BY <1>1, SessionInvariant, PTL

\* Fixes are retried up to a hard limit, as the design document has it: the
\* pushes of a session never exceed max_retry_attempts, however often the
\* server restarts.
THEOREM LimitCorrect ==
  ASSUME CalmProvider
  PROVE  Spec => []HardLimit
BY PushLimit, SessionInvariant, PTL

\* The agent works only for sessions that are open: create_session's "never
\* resurrect completed sessions" also holds of get_session_by_head_sha.
THEOREM ResurrectionCorrect ==
  ASSUME CalmProvider
  PROVE  Spec => []NeverResurrected
BY OpenOnly, SessionInvariant, PTL

-----------------------------------------------------------------------------
(* The handler implements RetrySession. *)

\* RetrySession counts fixes as this module does.
LEMMA SameCount == \A S : Abstract!Cardinality(S) = Cardinality(S)
BY DEF Abstract!Cardinality, Cardinality

\* Initially the sessions of RetrySession are absent.
LEMMA AbstractInit == Init => Abstract!Init
<1> SUFFICES ASSUME Init  PROVE Abstract!Init
  OBVIOUS
<1>1. /\ sessions = [s \in Commit |-> NoSessionRow] /\ author = [c \in Commit |-> "nobody"]
      /\ ci = [k \in RunKey |-> "none"]
  BY DEF Init, TablesInit
<1>2. \A s \in Commit : PushedBy(s) = {} /\ sessions[s].status = "absent" /\ ~CiGreen(s)
  BY <1>1 DEF PushedBy, CiGreen, NoSessionRow, RunKey
<1>3. QED
  BY <1>2 DEF Abstract!Init

\* A commit becomes green only by a run that succeeds.
LEMMA GreenSteps ==
  ASSUME TypeInv, FreshCommits, [Next]_vars
  PROVE  \/ \A c \in Commit : CiGreen(c)' <=> CiGreen(c)
         \/ \E k \in RunKey : /\ RunConcludes(k, "success")
                              /\ \A c \in Commit : CiGreen(c)' <=> CiGreen(c) \/ c = k.sha
<1>t. ci \in [RunKey -> CiState] /\ head \in Nat
  BY CommitsAssumption DEF TypeInv, TypeOK, WorldOK
<1>1. (\A k \in RunKey : ci'[k] = "success" <=> ci[k] = "success") => \A c \in Commit : CiGreen(c)' <=> CiGreen(c)
  BY DEF CiGreen
<1>2. ASSUME NEW who, NEW s, Push(who, s)
      PROVE  \A k \in RunKey : ci'[k] = "success" <=> ci[k] = "success"
  <2>1. ASSUME NEW k \in RunKey, k.sha = head + 1
        PROVE  ci[k] = "none" /\ ci'[k] \in {"none", "running"}
    <3>1. ci[k] = "none"
      BY <1>t, <2>1 DEF FreshCommits
    <3>2. QED
      BY <1>2, <2>1, <3>1 DEF Push
  <2>2. \A k \in RunKey : k.sha # head + 1 => ci'[k] = ci[k]
    BY <1>2 DEF Push
  <2>3. QED
    BY <2>1, <2>2
<1>3. ASSUME NEW j \in RunKey, Rerun(j)
      PROVE  \A k \in RunKey : ci'[k] = "success" <=> ci[k] = "success"
  BY <1>3, <1>t DEF Rerun
<1>4. ASSUME NEW j \in RunKey, NEW result \in Results, RunConcludes(j, result), result # "success"
      PROVE  \A k \in RunKey : ci'[k] = "success" <=> ci[k] = "success"
  BY <1>4, <1>t DEF RunConcludes
<1>5. ASSUME NEW j \in RunKey, RunConcludes(j, "success")
      PROVE  \A c \in Commit : CiGreen(c)' <=> CiGreen(c) \/ c = j.sha
  BY <1>5, <1>t DEF RunConcludes, CiGreen
<1>6. ASSUME UNCHANGED ci
      PROVE  \A k \in RunKey : ci'[k] = "success" <=> ci[k] = "success"
  BY <1>6
<1>7. ASSUME NEW t \in Task, AgentPushes(t)
      PROVE  \A k \in RunKey : ci'[k] = "success" <=> ci[k] = "success"
  BY <1>2, <1>7 DEF AgentPushes
<1>8. QED
  BY <1>1, <1>2, <1>3, <1>4, <1>5, <1>6, <1>7, WorldWriters

\* What RetrySession sees of a step that leaves the commits and CI alone.
LEMMA WorldStays ==
  ASSUME UNCHANGED <<author, owner, ci>>
  PROVE  /\ [s \in Commit |-> PushedBy(s)]' = [s \in Commit |-> PushedBy(s)]
         /\ {c \in Commit : CiGreen(c)}' = {c \in Commit : CiGreen(c)}
BY DEF PushedBy, CiGreen

\* A push for a session is a fix within the budget.
LEMMA PushIsFix ==
  ASSUME CalmInv, Counted, [Next]_vars, NEW t \in Task, AgentPushes(t), sid[t] # NoSession
  PROVE  Abstract!Next
<1>t. TypeInv /\ FreshCommits /\ TasksOK
  BY DEF CalmInv, TypeInv, TypeOK
<1>1. PICK s \in Commit : s = sid[t]
  BY AgentCharge
<1>2. InCharge(t) /\ fix[t] \notin Commit /\ pc[t] \in Working /\ sessions[s].status = "active"
  BY <1>1, AgentCharge DEF IsActive
<1>3. Cardinality(PushedBy(s)) < PushesAllowed
  <2>1. count[t] \in Nat /\ count[t] + 0 = Pushes(s) + 1 /\ count[t] <= PushesAllowed
    BY <1>1, <1>2, <1>t DEF Counted, ChargeCounts, TasksOK, LocalsOK
  <2>2. QED
    BY <2>1, AllowedType, PushesType DEF Pushes
<1>4. /\ head + 1 \in Commit /\ author[head + 1] = "nobody"
      /\ PushedBy(s)' = PushedBy(s) \cup {head + 1}
  BY <1>1, <1>t, PushSteps
<1>5. \A r \in Commit : head + 1 \notin PushedBy(r)
  BY <1>4 DEF PushedBy
<1>6. ASSUME NEW r \in Commit, r # s
      PROVE  PushedBy(r)' = PushedBy(r)
  <2>1. author' = [author EXCEPT ![head + 1] = "bot"] /\ owner' = [owner EXCEPT ![head + 1] = s]
    BY <1>1 DEF AgentPushes, Push
  <2>2. QED
    BY <1>4, <1>6, <1>t, <2>1 DEF PushedBy, TypeInv, TypeOK, WorldOK
<1>7. \A c \in Commit : CiGreen(c)' <=> CiGreen(c)
  <2>1. ASSUME NEW k \in RunKey, RunConcludes(k, "success")
        PROVE  FALSE
    BY <1>t, <2>1 DEF RunConcludes, AgentPushes, Goto, TasksOK
  <2>2. QED
    BY <1>t, <2>1, GreenSteps
<1> DEFINE verdict == [r \in Commit |-> sessions[r].status]
           fixes == [r \in Commit |-> PushedBy(r)]
           green == {c \in Commit : CiGreen(c)}
<1>8. fixes' = [fixes EXCEPT ![s] = @ \cup {head + 1}]
  BY <1>4, <1>6
<1>9. UNCHANGED verdict /\ UNCHANGED green
  BY <1>7 DEF AgentPushes
<1>10. Abstract!PushFix(s, head + 1)
  <2>1. verdict[s] = "active" /\ Cardinality(fixes[s]) < PushesAllowed
    BY <1>2, <1>3
  <2>2. \A r \in Commit : head + 1 \notin fixes[r]
    BY <1>5
  <2> QED
    BY SameCount, <1>8, <1>9, <2>1, <2>2 DEF Abstract!PushFix
<1>11. QED
  BY <1>4, <1>10 DEF Abstract!Next

\* A commit the agent did not push for a session changes nothing, but for the
\* verdict of CI on it.
LEMMA WorldIsSeen ==
  ASSUME TypeInv, FreshCommits, [Next]_vars, UNCHANGED sessions,
         \A t \in Task : AgentPushes(t) => sid[t] = NoSession
  PROVE  [Abstract!Next]_Abstract!session
<1> DEFINE verdict == [r \in Commit |-> sessions[r].status]
           fixes == [r \in Commit |-> PushedBy(r)]
           green == {c \in Commit : CiGreen(c)}
<1>1. UNCHANGED verdict
  OBVIOUS
<1>2. UNCHANGED fixes
  <2>1. \A r \in Commit : PushedBy(r)' = PushedBy(r)
    BY PushSteps DEF Commit, NoSession
  <2>2. QED
    BY <2>1
<1>3. ASSUME \A c \in Commit : CiGreen(c)' <=> CiGreen(c)
      PROVE  UNCHANGED Abstract!session
  BY <1>1, <1>2, <1>3 DEF Abstract!session
<1>4. ASSUME NEW k \in RunKey, \A c \in Commit : CiGreen(c)' <=> CiGreen(c) \/ c = k.sha
      PROVE  Abstract!Next
  <2>1. k.sha \in Commit /\ green' = green \cup {k.sha}
    BY <1>4 DEF RunKey
  <2>2. Abstract!CiAccepts(k.sha)
    BY <1>1, <1>2, <2>1 DEF Abstract!CiAccepts
  <2>3. QED
    BY <2>1, <2>2 DEF Abstract!Next
<1>5. QED
  BY <1>3, <1>4, GreenSteps

\* A session that is written is opened, closed for a reason, or looks the same.
LEMMA WritingIsSeen ==
  ASSUME SessionInv, PassedIsGreen, [Next]_vars, NEW t \in Task,
         CloseSession(t) \/ CreateSession(t) \/ SetMaxAttempts(t) \/ UpdateSession(t)
  PROVE  [Abstract!Next]_Abstract!session
<1>t. /\ CalmInv /\ TypeInv /\ HoldsInv /\ KnownSessions /\ Charges /\ sessions \in [Commit -> Session]
      /\ Counted
  BY DEF SessionInv, CalmInv, TypeInv, TypeOK, TablesOK
<1> DEFINE verdict == [r \in Commit |-> sessions[r].status]
           fixes == [r \in Commit |-> PushedBy(r)]
           green == {c \in Commit : CiGreen(c)}
<1>1. UNCHANGED fixes /\ UNCHANGED green
  <2>1. UNCHANGED <<author, owner, ci>>
    BY DEF CloseSession, CreateSession, SetMaxAttempts, UpdateSession, world
  <2>2. QED
    BY <2>1, WorldStays
<1>2. ASSUME UNCHANGED verdict
      PROVE  UNCHANGED Abstract!session
  BY <1>1, <1>2 DEF Abstract!session
<1>3. CASE CreateSession(t)
  <2>1. PICK s \in Commit : s = ev[t].key.sha
    BY <1>3, <1>t DEF CreateSession, TypeInv, TaskOK, Event, RunKey
  <2>2. CASE sessions[s].status # "absent"
    BY <1>2, <1>3, <2>1, <2>2 DEF CreateSession, InsertSession
  <2>3. CASE sessions[s].status = "absent"
    <3>1. verdict' = [verdict EXCEPT ![s] = "active"]
      BY <1>3, <1>t, <2>1, <2>3 DEF CreateSession, InsertSession
    <3>2. Abstract!Open(s)
      BY <1>1, <2>3, <3>1 DEF Abstract!Open
    <3>3. QED
      BY <3>2 DEF Abstract!Next
  <2>4. QED
    BY <2>2, <2>3
<1>4. CASE CloseSession(t) \/ SetMaxAttempts(t) \/ UpdateSession(t)
  <2>1. PICK s \in Commit : s = sid[t]
    BY <1>4, <1>t DEF CloseSession, SetMaxAttempts, UpdateSession, TypeInv, TaskOK, HoldsSession
  <2>2. InCharge(t) /\ sessions[s].status = "active"
    <3>1. pc[t] \in AfterTerminal /\ pc[t] \notin {"find_row", "update_row"}
      BY <1>4 DEF CloseSession, SetMaxAttempts, UpdateSession, AfterTerminal
    <3>2. InCharge(t)
      BY <1>t, <2>1, <3>1 DEF HoldsInv, TaskHolds, InCharge, Charge, Commit, NoSession
    <3>3. QED
      BY <1>t, <2>1, <3>2 DEF Charges, InCharge, IsActive
  <2>3. ASSUME NEW v \in {"PASSED", "EXHAUSTED", "CANNOT_FIX"}, SetSessionStatus(s, v),
               v = "PASSED" => \E c \in PushedBy(s) : CiGreen(c),
               v = "EXHAUSTED" => Cardinality(PushedBy(s)) = PushesAllowed
        PROVE  Abstract!Next
    <3>1. verdict' = [verdict EXCEPT ![s] = v]
      BY <1>t, <2>3 DEF SetSessionStatus, Session
    <3>2. v = "PASSED" => fixes[s] \cap green # {}
      BY <2>3 DEF PushedBy
    <3>3. verdict[s] = "active" /\ (v = "EXHAUSTED" => Cardinality(fixes[s]) = PushesAllowed)
      BY <2>2, <2>3
    <3>4. Abstract!Close(s, v)
      BY <1>1, <3>1, <3>2, <3>3, SameCount DEF Abstract!Close
    <3>5. QED
      BY <3>4 DEF Abstract!Next
  <2>4. CASE CloseSession(t) /\ pc[t] = "complete_session"
    <3>1. out[t] = "PASSED" /\ SetSessionStatus(s, "PASSED")
      BY <1>t, <2>1, <2>4 DEF CloseSession, TypeInv, TaskOK
    <3>2. \E c \in PushedBy(s) : CiGreen(c)
      BY <1>t, <2>1, <2>4, <3>1 DEF PassedIsGreen
    <3>3. QED
      BY <2>3, <3>1, <3>2
  <2>5. CASE CloseSession(t) /\ pc[t] = "exhaust_session"
    <3>1. out[t] = "EXHAUSTED" /\ SetSessionStatus(s, "EXHAUSTED")
      BY <1>t, <2>1, <2>5 DEF CloseSession, TypeInv, TaskOK
    <3>2. fix[t] \notin Commit
      BY <1>t, <2>5 DEF HoldsInv, TaskHolds
    <3>3. count[t] + 0 = Pushes(s) + 1 /\ count[t] = PushesAllowed + 1
      BY <1>t, <2>1, <2>2, <2>5, <3>2 DEF Counted, ChargeCounts
    <3>4. Cardinality(PushedBy(s)) = PushesAllowed
      BY <3>3, PushesType, AllowedType DEF Pushes
    <3>5. QED
      BY <2>3, <3>1, <3>4
  <2>6. CASE SetMaxAttempts(t)
    BY <1>2, <1>t, <2>1, <2>6 DEF SetMaxAttempts, SetSessionMax, Session
  <2>7. CASE UpdateSession(t) /\ out[t] = "FIX_PUSHED"
    <3>1. sessions' = [sessions EXCEPT ![s] = [@ EXCEPT !.fix = fix[t], !.attempt = count[t] + 1]]
      BY <2>1, <2>7 DEF UpdateSession, RecordFix
    <3>2. \A r \in Commit : sessions'[r].status = sessions[r].status
      BY <1>t, <3>1 DEF Session
    <3>3. QED
      BY <1>2, <3>2
  <2>8. CASE UpdateSession(t) /\ out[t] # "FIX_PUSHED"
    <3>1. out[t] = "CANNOT_FIX" /\ SetSessionStatus(s, "CANNOT_FIX")
      BY <1>t, <2>1, <2>8 DEF UpdateSession, TypeInv, TaskOK
    <3>2. QED
      BY <2>3, <3>1
  <2>9. QED
    BY <1>4, <2>4, <2>5, <2>6, <2>7, <2>8 DEF CloseSession
<1>5. QED
  BY <1>3, <1>4

\* A step of the handler is one of RetrySession, or none that it sees.
LEMMA StepIsSeen ==
  ASSUME SessionInv, PassedIsGreen, [Next]_vars
  PROVE  [Abstract!Next]_Abstract!session
<1>t. CalmInv /\ TypeInv /\ FreshCommits /\ Counted
  BY DEF SessionInv, CalmInv
<1>1. CASE \E t \in Task : AgentPushes(t) /\ sid[t] # NoSession
  BY <1>t, <1>1, PushIsFix
<1>2. CASE UNCHANGED sessions /\ \A t \in Task : AgentPushes(t) => sid[t] = NoSession
  BY <1>t, <1>2, WorldIsSeen
<1>3. CASE \E t \in Task : CloseSession(t) \/ CreateSession(t) \/ SetMaxAttempts(t) \/ UpdateSession(t)
  BY <1>3, WritingIsSeen
<1>4. QED
  BY <1>1, <1>2, <1>3, SessionWriters

\* run_tracker.py and webhook_handler.py together keep the promise of
\* RetrySession: a session is opened once for its commit, collects fixes only
\* while it is open and within its budget, and is closed once, as PASSED only
\* on a fix CI accepted and as EXHAUSTED only when the budget is spent.
THEOREM SessionsImplemented ==
  ASSUME CalmProvider
  PROVE  Spec => RefinesRetrySession
<1>1. SessionInv /\ PassedIsGreen /\ [Next]_vars => [Abstract!Next]_Abstract!session
  BY StepIsSeen
<1>2. SafetyInv => PassedIsGreen
  BY DEF SafetyInv
<1>3. QED
  BY <1>1, <1>2, AbstractInit, SessionInvariant, SafetyInvariant, PTL
     DEF Spec, RefinesRetrySession, Abstract!Spec
=============================================================================
