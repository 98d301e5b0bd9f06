-------------------------- MODULE HandlerTheorems --------------------------
(***************************************************************************)
(* Proofs about the retry loop: for every number of tasks, commits,        *)
(* workflows, deliveries and restarts, whatever the provider sends.        *)
(***************************************************************************)
EXTENDS HandlerProperties, TLAPS

-----------------------------------------------------------------------------
(* Where a task holds what *)

\* The calls a task makes with a session in hand.
HoldsSession == {"complete_session", "exhaust_session", "find_row", "update_row",
                 "resolve_target", "set_max", "update_session"}

\* The calls a task makes once it knows the row it reports to.
HoldsTarget == {"update_row", "is_completed", "track_only", "event_status", "find_session",
                "create_session", "set_max", "mark_working", "update_session"} \cup PcAgent

TaskOK(t) ==
  /\ pc[t] # "done" => ev[t] \in Event
  /\ pc[t] \in HoldsSession => sid[t] \in Commit
  /\ pc[t] \in HoldsTarget => tgt[t] \in RunKey
  /\ pc[t] = "complete_session" => out[t] = "PASSED"
  /\ pc[t] = "exhaust_session" => out[t] = "EXHAUSTED"
  /\ pc[t] \in {"find_row", "update_row"} =>
       out[t] \in EventRowStatus \cup {"PASSED", "EXHAUSTED"}
  /\ pc[t] \in {"final_status", "update_session"} => out[t] \in {"FIX_PUSHED", "CANNOT_FIX"}

\* A session in the table knows the workflow that opened it, and a session a
\* task holds is in the table.
KnownSessions ==
  /\ \A s \in Commit : sessions[s].status # "absent" => sessions[s].trigger \in Workflow
  /\ \A t \in Task : sid[t] # NoSession => sessions[sid[t]].status # "absent"

TypeInv == TypeOK /\ \A t \in Task : TaskOK(t)

-----------------------------------------------------------------------------
(* What the operators return *)

\* No commit of the branch is missing or unpushed.
LEMMA FixKinds ==
  /\ NoCommit \notin Commit /\ Unpushed \notin Commit
  /\ NoCommit \in Fix /\ Unpushed \in Fix /\ Commit \subseteq Fix
BY CommitsAssumption DEF NoCommit, Unpushed, Fix, Commit

\* The payload of an event, phase by phase.
LEMMA PayloadCases ==
  ASSUME NEW phase \in Phase
  PROVE  \/ phase = "running" /\ Payload(phase) = Triple("in_progress", "in_progress", "null")
         \/ phase \in Terminal /\ Payload(phase) = Triple("completed", "completed", phase)
         \/ phase = "cancelled" /\ Payload(phase) = Triple("failure", "cancelled", "failure")
         \/ phase \in {"success", "failure"} /\ Payload(phase) = Triple(phase, phase, phase)
<1>1. CASE phase = "running"
  BY <1>1 DEF Payload
<1>2. CASE phase \in Terminal /\ Platform = "github"
  BY <1>2 DEF Payload, Terminal
<1>3. CASE phase = "cancelled" /\ Platform = "forgejo"
  BY <1>3 DEF Payload
<1>4. CASE phase \in {"success", "failure"} /\ Platform = "forgejo"
  BY <1>4 DEF Payload
<1>5. QED
  BY <1>1, <1>2, <1>3, <1>4, PlatformAssumption DEF Phase, Terminal

\* An event writes one of the event statuses to its row.
LEMMA EventStatusType ==
  ASSUME NEW e \in Event
  PROVE  EventStatus(e) \in EventRowStatus
BY PayloadCases DEF Event, EventStatus, Triple, EventRowStatus, Terminal

\* A bot event counts as a success only when CI said so.
LEMMA SuccessIsSuccess ==
  ASSUME NEW e \in Event, BotTerminalStatus(e) = "success"
  PROVE  e.phase = "success"
<1>1. e.phase \in Phase
  BY DEF Event
<1>2. \/ Payload(e.phase).status \in {"success", "passed"}
      \/ Payload(e.phase).conclusion = "success"
  BY DEF BotTerminalStatus
<1>3. CASE e.phase = "running" /\ Payload(e.phase) = Triple("in_progress", "in_progress", "null")
  BY <1>2, <1>3 DEF Triple
<1>4. CASE e.phase \in Terminal /\ Payload(e.phase) = Triple("completed", "completed", e.phase)
  BY <1>2, <1>4 DEF Triple
<1>5. CASE e.phase = "cancelled" /\ Payload(e.phase) = Triple("failure", "cancelled", "failure")
  BY <1>2, <1>5 DEF Triple
<1>6. CASE e.phase \in {"success", "failure"} /\ Payload(e.phase) = Triple(e.phase, e.phase, e.phase)
  BY <1>2, <1>6 DEF Triple
<1>7. QED
  BY <1>1, <1>3, <1>4, <1>5, <1>6, PayloadCases

-----------------------------------------------------------------------------
(* Types *)

\* Initially every table is empty and every task slot is free.
LEMMA TypeInit == Init => TypeInv
BY CommitsAssumption, HandlerAssumption
   DEF Init, TypeInv, TypeOK, TablesOK, WorldOK, TasksOK, LocalsOK, TaskOK, TablesInit, Row, Session, NoRow, NoSessionRow, RowStatus,
       EventRowStatus, SessionStatus, NoSession, NoCommit, Fix, Unpushed, NoTask, NoKey, NoEvent, Commit, Author,
       CiState, Terminal, PC, PcAgent, HoldsSession, HoldsTarget

\* Pushing a commit.
LEMMA PushType ==
  ASSUME TypeOK, NEW who \in Author, NEW s \in Commit \cup {NoSession}, Push(who, s)
  PROVE  /\ head' \in 0 .. MaxCommits
         /\ head + 1 \in Commit
         /\ author' \in [Commit -> Author]
         /\ owner' \in [Commit -> Commit \cup {NoSession}]
         /\ ci' \in [RunKey -> CiState]
BY CommitsAssumption DEF TypeOK, WorldOK, Push, Commit, CiState

\* Writing to the tables.
LEMMA TableTypes ==
  ASSUME TablesOK
  PROVE  /\ \A k \in RunKey, status \in RowStatus :
              Record(k, status) => runs' \in [RunKey -> Row]
         /\ \A k \in RunKey, status \in RowStatus, s \in Commit \cup {NoSession} :
              UpdateStatus(k, status, s) => runs' \in [RunKey -> Row]
         /\ \A s \in Commit, status \in SessionStatus :
              SetSessionStatus(s, status) => sessions' \in [Commit -> Session]
         /\ \A s \in Commit, wf \in Workflow :
              InsertSession(s, wf) => sessions' \in [Commit -> Session]
         /\ \A s \in Commit, n \in Nat :
              SetSessionMax(s, n) => sessions' \in [Commit -> Session]
         /\ \A s \in Commit, c \in Fix, n \in Nat :
              RecordFix(s, c, n) => sessions' \in [Commit -> Session]
<1>1. ASSUME NEW k \in RunKey, NEW status \in RowStatus, Record(k, status)
      PROVE  runs' \in [RunKey -> Row]
  BY <1>1 DEF TablesOK, Record, Row
<1>2. ASSUME NEW k \in RunKey, NEW status \in RowStatus, NEW s \in Commit \cup {NoSession},
             UpdateStatus(k, status, s)
      PROVE  runs' \in [RunKey -> Row]
  BY <1>2 DEF TablesOK, UpdateStatus, Row
<1>3. ASSUME NEW s \in Commit, NEW status \in SessionStatus, SetSessionStatus(s, status)
      PROVE  sessions' \in [Commit -> Session]
  BY <1>3 DEF TablesOK, SetSessionStatus, Session
<1>4. ASSUME NEW s \in Commit, NEW wf \in Workflow, InsertSession(s, wf)
      PROVE  sessions' \in [Commit -> Session]
  BY <1>4, RetryAssumption, FixKinds DEF TablesOK, InsertSession, Session, SessionStatus
<1>5. ASSUME NEW s \in Commit, NEW n \in Nat, SetSessionMax(s, n)
      PROVE  sessions' \in [Commit -> Session]
  BY <1>5 DEF TablesOK, SetSessionMax, Session
<1>6. ASSUME NEW s \in Commit, NEW c \in Fix, NEW n \in Nat, RecordFix(s, c, n)
      PROVE  sessions' \in [Commit -> Session]
  <2> DEFINE row == [sessions[s] EXCEPT !.fix = c, !.attempt = n]
  <2>0. sessions[s] \in Session
    BY DEF TablesOK
  <2>1. row \in Session
    BY <2>0 DEF Session
  <2>2. sessions' = [sessions EXCEPT ![s] = row]
    BY <1>6 DEF RecordFix
  <2> HIDE DEF row
  <2>3. QED
    BY <2>1, <2>2 DEF TablesOK
<1>7. QED
  BY <1>1, <1>2, <1>3, <1>4, <1>5, <1>6

\* Ending a task, early or through the finally clause, leaves a free slot.
LEMMA EndType ==
  ASSUME TypeInv, NEW t \in Task, Return(t) \/ Finally(t)
  PROVE  TasksOK' /\ \A u \in Task : TaskOK(u)'
<1> USE DEF Return, Finally, Goto, ForgetLocals, Unguarded
<1>1. TasksOK'
  BY FixKinds DEF TypeInv, TypeOK, TasksOK, LocalsOK, PC
<1>2. ASSUME NEW u \in Task
      PROVE  TaskOK(u)'
  <2>1. CASE u = t
    BY <2>1 DEF TypeInv, TypeOK, TasksOK, LocalsOK, TaskOK, HoldsSession, HoldsTarget, PcAgent
  <2>2. CASE u # t
    BY <2>2 DEF TypeInv, TypeOK, TasksOK, LocalsOK, TaskOK
  <2>3. QED
    BY <2>1, <2>2
<1>3. QED
  BY <1>1, <1>2

\* A step of a task leaves the local state of the others alone.
LEMMA OthersKeep ==
  ASSUME TypeOK, NEW t \in Task, Handle(t), NEW u \in Task, u # t
  PROVE  /\ pc'[u] = pc[u] /\ ev'[u] = ev[u] /\ sid'[u] = sid[u] /\ count'[u] = count[u]
         /\ tgt'[u] = tgt[u] /\ out'[u] = out[u] /\ fix'[u] = fix[u]
<1> DEFINE Kept ==
      /\ pc'[u] = pc[u] /\ ev'[u] = ev[u] /\ sid'[u] = sid[u] /\ count'[u] = count[u]
      /\ tgt'[u] = tgt[u] /\ out'[u] = out[u] /\ fix'[u] = fix[u]
<1>1. Return(t) \/ Finally(t) => Kept
  BY DEF TypeOK, TasksOK, LocalsOK, Return, Finally, ForgetLocals, Goto
<1>2. CASE CheckDuplicate(t)
  BY <1>2, <1>1 DEF TypeOK, TasksOK, LocalsOK, CheckDuplicate, Goto, locals
<1>3. CASE TreatAsHuman(t)
  BY <1>3 DEF TypeOK, TasksOK, LocalsOK, TreatAsHuman, Goto, locals
<1>4. CASE MatchNothing(t)
  BY <1>4 DEF TypeOK, TasksOK, LocalsOK, MatchNothing, Goto, locals
<1>5. ASSUME NEW s \in Commit, MatchSession(t, s)  PROVE  Kept
  BY <1>5 DEF TypeOK, TasksOK, LocalsOK, MatchSession, Goto, locals
<1>6. CASE CloseSession(t)
  BY <1>6 DEF TypeOK, TasksOK, LocalsOK, CloseSession, Goto, locals
<1>7. CASE FindRow(t)
  BY <1>7, <1>1 DEF TypeOK, TasksOK, LocalsOK, FindRow, Goto, locals
<1>8. CASE UpdateRow(t)
  BY <1>8, <1>1 DEF TypeOK, TasksOK, LocalsOK, UpdateRow, Goto, locals
<1>9. CASE RecordSkippedBot(t)
  BY <1>9, <1>1 DEF TypeOK, TasksOK, LocalsOK, RecordSkippedBot, Goto, locals
<1>10. CASE ResolveTarget(t)
  BY <1>10 DEF TypeOK, TasksOK, LocalsOK, ResolveTarget, Goto, locals
<1>11. CASE CheckRerun(t)
  BY <1>11 DEF TypeOK, TasksOK, LocalsOK, CheckRerun, Goto, locals
<1>12. CASE TrackOnly(t)
  BY <1>12, <1>1 DEF TypeOK, TasksOK, LocalsOK, TrackOnly, Goto, locals
<1>13. CASE WriteEventStatus(t)
  BY <1>13, <1>1 DEF TypeOK, TasksOK, LocalsOK, WriteEventStatus, Goto, locals
<1>14. CASE FindSession(t)
  BY <1>14 DEF TypeOK, TasksOK, LocalsOK, FindSession, Goto, locals
<1>15. CASE CreateSession(t)
  BY <1>15 DEF TypeOK, TasksOK, LocalsOK, CreateSession, Goto, locals
<1>16. CASE SetMaxAttempts(t)
  BY <1>16 DEF TypeOK, TasksOK, LocalsOK, SetMaxAttempts, Goto, locals
<1>17. CASE MarkWorking(t)
  BY <1>17 DEF TypeOK, TasksOK, LocalsOK, MarkWorking, Goto, locals
<1>18. CASE AgentPushes(t)
  BY <1>18 DEF TypeOK, TasksOK, LocalsOK, AgentPushes, Goto, locals
<1>lost. CASE AgentLosesPush(t)
  BY <1>lost DEF TypeOK, TasksOK, LocalsOK, AgentLosesPush, Goto, locals
<1>19. CASE AgentGivesUp(t)
  BY <1>19 DEF TypeOK, TasksOK, LocalsOK, AgentGivesUp, Goto, locals
<1>20. CASE AgentRaises(t)
  BY <1>20 DEF TypeOK, TasksOK, LocalsOK, AgentRaises, Goto, locals
<1>21. CASE WriteFinalStatus(t)
  BY <1>21, <1>1 DEF TypeOK, TasksOK, LocalsOK, WriteFinalStatus, Goto, locals
<1>22. CASE UpdateSession(t)
  BY <1>22, <1>1 DEF TypeOK, TasksOK, LocalsOK, UpdateSession, Goto, locals
<1>23. CASE WriteErrorStatus(t)
  BY <1>23, <1>1 DEF TypeOK, TasksOK, LocalsOK, WriteErrorStatus, Goto, locals
<1>24. QED
  BY <1>2, <1>3, <1>4, <1>5, <1>6, <1>7, <1>8, <1>9, <1>10, <1>11, <1>12, <1>13, <1>14, <1>15,
     <1>16, <1>17, <1>18, <1>19, <1>20, <1>21, <1>22, <1>23, <1>lost DEF Handle

\* Every step of a task keeps the types.
LEMMA HandleType ==
  ASSUME TypeInv, KnownSessions, NEW t \in Task, Handle(t)
  PROVE  TypeInv'
<1> USE DEF world, locals
<1>t. /\ TypeOK /\ TablesOK /\ WorldOK /\ TasksOK /\ LocalsOK
      /\ TaskOK(t)
  BY DEF TypeInv, TypeOK, TasksOK
<1>e. pc[t] # "done" => EventStatus(ev[t]) \in EventRowStatus
  BY <1>t, EventStatusType DEF TaskOK
<1>end. Return(t) \/ Finally(t) => TasksOK' /\ TaskOK(t)'
  BY EndType
<1> SUFFICES TypeOK' /\ TaskOK(t)'
  BY <1>t, OthersKeep DEF TypeInv, TaskOK
<1>keep. UNCHANGED <<runs, sessions>> => TablesOK'
  BY <1>t DEF TablesOK
<1>calm. UNCHANGED world => WorldOK'
  BY <1>t DEF WorldOK
<1>1. CASE CheckDuplicate(t)
  <2>1. TablesOK' /\ WorldOK'
    BY <1>1, <1>keep, <1>calm DEF CheckDuplicate
  <2>2. TasksOK'
    BY <1>1, <1>t, <1>end DEF CheckDuplicate, TasksOK, LocalsOK, Goto, PC, PcAgent
  <2>3. TaskOK(t)'
    BY <1>1, <1>t, <1>end DEF CheckDuplicate, TasksOK, LocalsOK, Goto, TaskOK, HoldsSession,
       HoldsTarget, PcAgent
  <2>4. QED
    BY <2>1, <2>2, <2>3 DEF TypeOK
<1>2. CASE TreatAsHuman(t)
  <2>1. TablesOK' /\ WorldOK'
    BY <1>2, <1>keep, <1>calm DEF TreatAsHuman
  <2>2. TasksOK'
    BY <1>2, <1>t DEF TreatAsHuman, TasksOK, LocalsOK, Goto, PC, PcAgent, NoEvent, NoKey, Event
  <2>3. TaskOK(t)'
    BY <1>2, <1>t DEF TreatAsHuman, TasksOK, LocalsOK, Goto, TaskOK, HoldsSession, HoldsTarget,
       PcAgent, Event
  <2>4. QED
    BY <2>1, <2>2, <2>3 DEF TypeOK
<1>3. CASE MatchNothing(t)
  <2>1. TablesOK' /\ WorldOK'
    BY <1>3, <1>keep, <1>calm DEF MatchNothing
  <2>2. TasksOK'
    BY <1>3, <1>t DEF MatchNothing, TasksOK, LocalsOK, Goto, PC, PcAgent
  <2>3. TaskOK(t)'
    BY <1>3, <1>t DEF MatchNothing, TasksOK, LocalsOK, Goto, TaskOK, HoldsSession, HoldsTarget, PcAgent
  <2>4. QED
    BY <2>1, <2>2, <2>3 DEF TypeOK
<1>4. ASSUME NEW s \in Commit, MatchSession(t, s)
      PROVE  TypeOK' /\ TaskOK(t)'
  <2>1. TablesOK' /\ WorldOK'
    BY <1>4, <1>keep, <1>calm DEF MatchSession
  <2>2. TasksOK'
    BY <1>4, <1>t, <1>e DEF MatchSession, TasksOK, LocalsOK, Goto, PC, PcAgent, TablesOK, Session,
       RowStatus
  <2>3. TaskOK(t)'
    BY <1>4, <1>t, <1>e DEF MatchSession, TasksOK, LocalsOK, Goto, TaskOK, HoldsSession,
       HoldsTarget, PcAgent
  <2>4. QED
    BY <2>1, <2>2, <2>3 DEF TypeOK
<1>5. CASE CloseSession(t)
  <2>1. TablesOK'
    BY <1>5, <1>t, TableTypes DEF CloseSession, TablesOK, TaskOK, SessionStatus, HoldsSession
  <2>2. WorldOK'
    BY <1>5, <1>calm DEF CloseSession
  <2>3. TasksOK'
    BY <1>5, <1>t DEF CloseSession, TasksOK, LocalsOK, Goto, PC, PcAgent
  <2>4. TaskOK(t)'
    BY <1>5, <1>t DEF CloseSession, TasksOK, LocalsOK, Goto, TaskOK, HoldsSession, HoldsTarget,
       PcAgent, EventRowStatus
  <2>5. QED
    BY <2>1, <2>2, <2>3, <2>4 DEF TypeOK
<1>6. CASE FindRow(t)
  <2>1. TablesOK' /\ WorldOK'
    BY <1>6, <1>keep, <1>calm DEF FindRow
  <2>2. TasksOK'
    BY <1>6, <1>t, <1>end DEF FindRow, TasksOK, LocalsOK, Goto, PC, PcAgent, LifecycleRows
  <2>3. TaskOK(t)'
    BY <1>6, <1>t, <1>end DEF FindRow, TasksOK, LocalsOK, Goto, TaskOK, HoldsSession, HoldsTarget,
       PcAgent, LifecycleRows
  <2>4. QED
    BY <2>1, <2>2, <2>3 DEF TypeOK
<1>7. CASE UpdateRow(t)
  <2>1. TablesOK'
    BY <1>7, <1>t, TableTypes DEF UpdateRow, TablesOK, TasksOK, LocalsOK, TaskOK, HoldsTarget, RowStatus
  <2>2. WorldOK'
    BY <1>7, <1>calm DEF UpdateRow
  <2>3. TasksOK' /\ TaskOK(t)'
    BY <1>7, <1>end DEF UpdateRow
  <2>4. QED
    BY <2>1, <2>2, <2>3 DEF TypeOK
<1>8. CASE RecordSkippedBot(t)
  <2>1. TablesOK'
    BY <1>8, <1>t, TableTypes DEF RecordSkippedBot, TablesOK, TaskOK, Event, RowStatus
  <2>2. WorldOK'
    BY <1>8, <1>calm DEF RecordSkippedBot
  <2>3. TasksOK' /\ TaskOK(t)'
    BY <1>8, <1>end DEF RecordSkippedBot
  <2>4. QED
    BY <2>1, <2>2, <2>3 DEF TypeOK
<1>9. CASE ResolveTarget(t)
  <2>first. [sha |-> sid[t], wf |-> sessions[sid[t]].trigger, att |-> 1] \in RunKey
    <3>1. sid[t] \in Commit /\ sessions[sid[t]].trigger \in Workflow /\ ev[t].key \in RunKey
      BY <1>9, <1>t DEF ResolveTarget, TaskOK, HoldsSession, KnownSessions, Commit, NoSession, Event
    <3>2. 1 \in 1 .. MaxRunAttempts
      BY <3>1, AttemptsAssumption DEF RunKey
    <3>3. QED
      BY <3>1, <3>2 DEF RunKey
  <2>1. TablesOK' /\ WorldOK'
    BY <1>9, <1>keep, <1>calm DEF ResolveTarget
  <2>2. TasksOK'
    BY <1>9, <1>t, <2>first DEF ResolveTarget, TasksOK, LocalsOK, Goto, PC, PcAgent, LifecycleRows
  <2>3. TaskOK(t)'
    BY <1>9, <1>t, <2>first DEF ResolveTarget, TasksOK, LocalsOK, Goto, TaskOK, HoldsSession,
       HoldsTarget, PcAgent, LifecycleRows
  <2>4. QED
    BY <2>1, <2>2, <2>3 DEF TypeOK
<1>10. CASE CheckRerun(t)
  <2>1. TablesOK' /\ WorldOK'
    BY <1>10, <1>keep, <1>calm DEF CheckRerun
  <2>2. TasksOK'
    BY <1>10, <1>t DEF CheckRerun, TasksOK, LocalsOK, Goto, PC, PcAgent
  <2>3. TaskOK(t)'
    BY <1>10, <1>t DEF CheckRerun, TasksOK, LocalsOK, Goto, TaskOK, HoldsSession, HoldsTarget, PcAgent
  <2>4. QED
    BY <2>1, <2>2, <2>3 DEF TypeOK
<1>11. CASE TrackOnly(t)
  <2>1. TablesOK'
    BY <1>11, <1>t, TableTypes, <1>e DEF TrackOnly, TablesOK, TaskOK, Event, RowStatus
  <2>2. WorldOK'
    BY <1>11, <1>calm DEF TrackOnly
  <2>3. TasksOK' /\ TaskOK(t)'
    BY <1>11, <1>end DEF TrackOnly
  <2>4. QED
    BY <2>1, <2>2, <2>3 DEF TypeOK
<1>12. CASE WriteEventStatus(t)
  <2>1. TablesOK'
    BY <1>12, <1>t, TableTypes, <1>e DEF WriteEventStatus, TablesOK, TasksOK, LocalsOK, TaskOK,
       HoldsTarget, Event, RowStatus
  <2>2. WorldOK'
    BY <1>12, <1>calm DEF WriteEventStatus
  <2>3. TasksOK'
    BY <1>12, <1>t, <1>end DEF WriteEventStatus, TasksOK, LocalsOK, Goto, PC, PcAgent
  <2>4. TaskOK(t)'
    BY <1>12, <1>t, <1>end DEF WriteEventStatus, TasksOK, LocalsOK, Goto, TaskOK, HoldsSession,
       HoldsTarget, PcAgent
  <2>5. QED
    BY <2>1, <2>2, <2>3, <2>4 DEF TypeOK
<1>13. CASE FindSession(t)
  <2>1. TablesOK' /\ WorldOK'
    BY <1>13, <1>keep, <1>calm DEF FindSession
  <2>2. TasksOK'
    BY <1>13, <1>t DEF FindSession, TasksOK, LocalsOK, Goto, PC, PcAgent, TablesOK, TaskOK, Event,
       RunKey, Session
  <2>3. TaskOK(t)'
    BY <1>13, <1>t DEF FindSession, TasksOK, LocalsOK, Goto, TaskOK, HoldsSession, HoldsTarget,
       PcAgent, Event, RunKey
  <2>4. QED
    BY <2>1, <2>2, <2>3 DEF TypeOK
<1>14. CASE CreateSession(t)
  <2>1. TablesOK'
    BY <1>14, <1>t, TableTypes DEF CreateSession, TablesOK, TaskOK, Event, RunKey
  <2>2. WorldOK'
    BY <1>14, <1>calm DEF CreateSession
  <2>3. ev[t].key.sha \in Commit /\ sessions'[ev[t].key.sha].attempt \in Nat
    BY <1>14, <1>t, <2>1 DEF CreateSession, TaskOK, TablesOK, Session, Event, RunKey
  <2>4. TasksOK'
    BY <1>14, <1>t, <2>3 DEF CreateSession, TasksOK, LocalsOK, Goto, PC, PcAgent
  <2>5. TaskOK(t)'
    BY <1>14, <1>t DEF CreateSession, TasksOK, LocalsOK, Goto, TaskOK, HoldsSession, HoldsTarget,
       PcAgent, Event, RunKey
  <2>6. QED
    BY <2>1, <2>2, <2>3, <2>4, <2>5 DEF TypeOK
<1>15. CASE SetMaxAttempts(t)
  <2>1. TablesOK'
    BY <1>15, <1>t, TableTypes, RetryAssumption DEF SetMaxAttempts, TablesOK, TaskOK, HoldsSession
  <2>2. WorldOK'
    BY <1>15, <1>calm DEF SetMaxAttempts
  <2>3. TasksOK'
    BY <1>15, <1>t DEF SetMaxAttempts, TasksOK, LocalsOK, Goto, PC, PcAgent
  <2>4. TaskOK(t)'
    BY <1>15, <1>t DEF SetMaxAttempts, TasksOK, LocalsOK, Goto, TaskOK, HoldsSession, HoldsTarget,
       PcAgent
  <2>5. QED
    BY <2>1, <2>2, <2>3, <2>4 DEF TypeOK
<1>16. CASE MarkWorking(t)
  <2>1. TablesOK'
    BY <1>16, <1>t, TableTypes DEF MarkWorking, TablesOK, TasksOK, LocalsOK, TaskOK, HoldsTarget,
       RowStatus
  <2>2. WorldOK'
    BY <1>16, <1>calm DEF MarkWorking
  <2>3. TasksOK'
    BY <1>16, <1>t DEF MarkWorking, TasksOK, LocalsOK, Goto, PC, PcAgent
  <2>4. TaskOK(t)'
    BY <1>16, <1>t DEF MarkWorking, TasksOK, LocalsOK, Goto, TaskOK, HoldsSession, HoldsTarget, PcAgent
  <2>5. QED
    BY <2>1, <2>2, <2>3, <2>4 DEF TypeOK
<1>17. CASE AgentPushes(t)
  <2>push. /\ head' \in 0 .. MaxCommits /\ head + 1 \in Commit
           /\ author' \in [Commit -> Author] /\ ci' \in [RunKey -> CiState]
           /\ owner' \in [Commit -> Commit \cup {NoSession}]
    BY <1>17, <1>t, PushType DEF AgentPushes, TasksOK, LocalsOK, Author
  <2>1. TablesOK'
    BY <1>17, <1>keep DEF AgentPushes
  <2>2. WorldOK'
    BY <1>17, <1>t, <2>push DEF AgentPushes, WorldOK
  <2>3. TasksOK'
    BY <1>17, <1>t, <2>push, FixKinds DEF AgentPushes, TasksOK, LocalsOK, Goto, PC, PcAgent, RowStatus
  <2>4. TaskOK(t)'
    BY <1>17, <1>t DEF AgentPushes, TasksOK, LocalsOK, Goto, TaskOK, HoldsSession, HoldsTarget, PcAgent
  <2>5. QED
    BY <2>1, <2>2, <2>3, <2>4 DEF TypeOK
<1>lost. CASE AgentLosesPush(t)
  <2>1. TablesOK' /\ WorldOK'
    BY <1>lost, <1>keep, <1>calm DEF AgentLosesPush
  <2>2. TasksOK'
    BY <1>lost, <1>t, FixKinds DEF AgentLosesPush, TasksOK, LocalsOK, Goto, PC, PcAgent, RowStatus
  <2>3. TaskOK(t)'
    BY <1>lost, <1>t DEF AgentLosesPush, TasksOK, LocalsOK, Goto, TaskOK, HoldsSession, HoldsTarget,
       PcAgent
  <2>4. QED
    BY <2>1, <2>2, <2>3 DEF TypeOK
<1>18. CASE AgentGivesUp(t)
  <2>1. TablesOK' /\ WorldOK'
    BY <1>18, <1>keep, <1>calm DEF AgentGivesUp
  <2>2. TasksOK'
    BY <1>18, <1>t DEF AgentGivesUp, TasksOK, LocalsOK, Goto, PC, PcAgent, RowStatus
  <2>3. TaskOK(t)'
    BY <1>18, <1>t DEF AgentGivesUp, TasksOK, LocalsOK, Goto, TaskOK, HoldsSession, HoldsTarget, PcAgent
  <2>4. QED
    BY <2>1, <2>2, <2>3 DEF TypeOK
<1>19. CASE AgentRaises(t)
  <2>1. TablesOK' /\ WorldOK'
    BY <1>19, <1>keep, <1>calm DEF AgentRaises
  <2>2. TasksOK'
    BY <1>19, <1>t DEF AgentRaises, TasksOK, LocalsOK, Goto, PC, PcAgent, RowStatus
  <2>3. TaskOK(t)'
    BY <1>19, <1>t DEF AgentRaises, TasksOK, LocalsOK, Goto, TaskOK, HoldsSession, HoldsTarget, PcAgent
  <2>4. QED
    BY <2>1, <2>2, <2>3 DEF TypeOK
<1>20. CASE WriteFinalStatus(t)
  <2>1. TablesOK'
    BY <1>20, <1>t, TableTypes DEF WriteFinalStatus, TablesOK, TasksOK, LocalsOK, TaskOK,
       HoldsTarget, PcAgent, RowStatus
  <2>2. WorldOK'
    BY <1>20, <1>calm DEF WriteFinalStatus
  <2>3. TasksOK'
    BY <1>20, <1>t, <1>end DEF WriteFinalStatus, TasksOK, LocalsOK, Goto, PC, PcAgent
  <2>4. TaskOK(t)'
    BY <1>20, <1>t, <1>end DEF WriteFinalStatus, TasksOK, LocalsOK, Goto, TaskOK, HoldsSession,
       HoldsTarget, PcAgent
  <2>5. QED
    BY <2>1, <2>2, <2>3, <2>4 DEF TypeOK
<1>21. CASE UpdateSession(t)
  <2>1. TablesOK'
    BY <1>21, <1>t, TableTypes DEF UpdateSession, TablesOK, TasksOK, LocalsOK, TaskOK, HoldsSession,
       SessionStatus
  <2>2. WorldOK'
    BY <1>21, <1>calm DEF UpdateSession
  <2>3. TasksOK' /\ TaskOK(t)'
    BY <1>21, <1>end DEF UpdateSession
  <2>4. QED
    BY <2>1, <2>2, <2>3 DEF TypeOK
<1>22. CASE WriteErrorStatus(t)
  <2>1. TablesOK'
    BY <1>22, <1>t, TableTypes DEF WriteErrorStatus, TablesOK, TasksOK, LocalsOK, TaskOK,
       HoldsTarget, PcAgent, RowStatus
  <2>2. WorldOK'
    BY <1>22, <1>calm DEF WriteErrorStatus
  <2>3. TasksOK' /\ TaskOK(t)'
    BY <1>22, <1>end DEF WriteErrorStatus
  <2>4. QED
    BY <2>1, <2>2, <2>3 DEF TypeOK
<1>23. QED
  BY <1>1, <1>2, <1>3, <1>4, <1>5, <1>6, <1>7, <1>8, <1>9, <1>10, <1>11, <1>12, <1>13, <1>14, <1>15,
     <1>16, <1>17, <1>18, <1>19, <1>20, <1>21, <1>22, <1>lost DEF Handle

\* What happens outside the handler keeps the types.
LEMMA OutsideType ==
  ASSUME TypeInv, Provider \/ Server \/ Crash \/ UNCHANGED vars
  PROVE  TypeInv'
<1>t. TypeOK /\ TablesOK /\ WorldOK /\ TasksOK /\ LocalsOK
  BY DEF TypeInv, TypeOK, TasksOK
<1>idle. UNCHANGED <<runs, sessions, guard, pc, locals>> /\ WorldOK' => TypeInv'
  BY DEF TypeInv, TypeOK, TablesOK, TasksOK, LocalsOK, TaskOK, locals
<1>1. CASE HumanPush
  <2>1. WorldOK'
    BY <1>1, <1>t, PushType DEF HumanPush, WorldOK, Author, NoSession
  <2>2. QED
    BY <1>1, <2>1, <1>idle DEF HumanPush, Push
<1>2. ASSUME NEW k \in RunKey, Rerun(k) \/ \E result \in Results : RunConcludes(k, result)
      PROVE  TypeInv'
  <2>1. WorldOK'
    BY <1>2, <1>t, HandlerAssumption DEF Rerun, RunConcludes, WorldOK, CiState
  <2>2. QED
    BY <1>2, <2>1, <1>idle DEF Rerun, RunConcludes
<1>3. ASSUME NEW e \in Event, DispatchDropped(e)
      PROVE  TypeInv'
  <2>1. WorldOK'
    BY <1>3, <1>t DEF DispatchDropped, Deliver, WorldOK
  <2>2. QED
    BY <1>3, <2>1, <1>idle DEF DispatchDropped
<1>4. ASSUME NEW e \in Event, NEW t \in Task, Dispatch(t, e)
      PROVE  TypeInv'
  <2>1. TablesOK'
    BY <1>4, <1>t DEF Dispatch, TablesOK
  <2>2. WorldOK'
    BY <1>4, <1>t DEF Dispatch, Deliver, WorldOK
  <2>3. TasksOK'
    BY <1>4, <1>t DEF Dispatch, TasksOK, LocalsOK, PC, Event
  <2>4. ASSUME NEW u \in Task
        PROVE  TaskOK(u)'
    BY <1>4, <1>t, <2>4 DEF Dispatch, TypeInv, TasksOK, LocalsOK, TaskOK, HoldsSession, HoldsTarget,
       PcAgent
  <2>5. QED
    BY <2>1, <2>2, <2>3, <2>4 DEF TypeInv, TypeOK
<1>5. CASE Crash
  <2>1. TablesOK' /\ WorldOK'
    BY <1>5, <1>t DEF Crash, TablesOK, WorldOK
  <2>2. TasksOK'
    BY <1>5, FixKinds DEF Crash, TasksOK, LocalsOK, PC
  <2>3. ASSUME NEW u \in Task
        PROVE  TaskOK(u)'
    BY <1>5, <2>3 DEF Crash, TaskOK, HoldsSession, HoldsTarget, PcAgent
  <2>4. QED
    BY <2>1, <2>2, <2>3 DEF TypeInv, TypeOK
<1>6. CASE UNCHANGED vars
  BY <1>6, <1>idle, <1>t DEF vars, WorldOK, locals
<1>7. QED
  BY <1>1, <1>2, <1>3, <1>4, <1>5, <1>6 DEF Provider, Server

\* Who writes to ci_sessions.
LEMMA SessionWriters ==
  ASSUME [Next]_vars
  PROVE  \/ UNCHANGED sessions
         \/ \E t \in Task : CloseSession(t) \/ CreateSession(t) \/ SetMaxAttempts(t) \/ UpdateSession(t)
<1>1. CASE Provider \/ Server \/ Crash \/ UNCHANGED vars
  BY <1>1 DEF Provider, Server, HumanPush, Rerun, RunConcludes, Dispatch, DispatchDropped, Crash, vars
<1>2. ASSUME NEW t \in Task, Handle(t)
      PROVE  UNCHANGED sessions \/ CloseSession(t) \/ CreateSession(t) \/ SetMaxAttempts(t) \/ UpdateSession(t)
  BY <1>2 DEF Handle, CheckDuplicate, TreatAsHuman, MatchNothing, MatchSession, FindRow, UpdateRow,
     RecordSkippedBot, ResolveTarget, CheckRerun, TrackOnly, WriteEventStatus, FindSession,
     MarkWorking, AgentPushes, AgentLosesPush, AgentGivesUp, AgentRaises, WriteFinalStatus, WriteErrorStatus
<1>3. QED
  BY <1>1, <1>2 DEF Next

\* A session that is in the table stays there with its trigger, one that
\* enters it is active and has a trigger.
LEMMA SessionsKeep ==
  ASSUME TypeInv, KnownSessions, [Next]_vars, NEW s \in Commit
  PROVE  /\ sessions[s].status # "absent" =>
              sessions'[s].status # "absent" /\ sessions'[s].trigger = sessions[s].trigger
         /\ sessions[s].status = "absent" /\ sessions'[s].status # "absent" =>
              sessions'[s].trigger \in Workflow /\ sessions'[s].status = "active"
<1> DEFINE Goal ==
      /\ sessions[s].status # "absent" =>
           sessions'[s].status # "absent" /\ sessions'[s].trigger = sessions[s].trigger
      /\ sessions[s].status = "absent" /\ sessions'[s].status # "absent" =>
           sessions'[s].trigger \in Workflow /\ sessions'[s].status = "active"
<1>t. TablesOK /\ TasksOK /\ LocalsOK /\ sessions[s] \in Session
  BY DEF TypeInv, TypeOK, TasksOK, TablesOK
<1>1. CASE UNCHANGED sessions
  BY <1>1
<1>2. ASSUME NEW t \in Task, CloseSession(t)
      PROVE  Goal
  <2>1. sid[t] \in Commit /\ out[t] \in SessionStatus /\ sessions[sid[t]].status # "absent"
    BY <1>2 DEF CloseSession, TypeInv, TaskOK, KnownSessions, HoldsSession, SessionStatus, Commit,
       NoSession
  <2>2. sessions'[s] = IF s = sid[t] THEN [sessions[s] EXCEPT !.status = out[t]] ELSE sessions[s]
    BY <1>2, <2>1, <1>t DEF CloseSession, SetSessionStatus, TablesOK
  <2>3. QED
    BY <2>1, <2>2, <1>t DEF Session, SessionStatus
<1>3. ASSUME NEW t \in Task, CreateSession(t)
      PROVE  Goal
  <2>1. ev[t].key.sha \in Commit /\ ev[t].key.wf \in Workflow
    BY <1>3 DEF CreateSession, TypeInv, TaskOK, Event, RunKey
  <2>2. QED
    BY <1>3, <1>t, <2>1 DEF CreateSession, InsertSession, TablesOK, Session
<1>4. ASSUME NEW t \in Task, SetMaxAttempts(t)
      PROVE  Goal
  <2>1. sid[t] \in Commit
    BY <1>4 DEF SetMaxAttempts, TypeInv, TaskOK, HoldsSession
  <2>2. sessions'[s] = IF s = sid[t] THEN [sessions[s] EXCEPT !.max = MaxRetryAttempts] ELSE sessions[s]
    BY <1>4, <2>1, <1>t DEF SetMaxAttempts, SetSessionMax, TablesOK
  <2>3. QED
    BY <2>1, <2>2, <1>t DEF Session
<1>5. ASSUME NEW t \in Task, UpdateSession(t)
      PROVE  Goal
  <2>1. sid[t] \in Commit /\ sessions[sid[t]].status # "absent"
    BY <1>5 DEF UpdateSession, TypeInv, TaskOK, KnownSessions, HoldsSession, Commit, NoSession
  <2>2. CASE out[t] = "FIX_PUSHED"
    <3>1. sessions'[s] = IF s = sid[t] THEN [sessions[s] EXCEPT !.fix = fix[t], !.attempt = count[t] + 1]
                                       ELSE sessions[s]
      BY <1>5, <2>1, <2>2, <1>t DEF UpdateSession, RecordFix, TablesOK
    <3>2. QED
      BY <3>1, <1>t DEF Session
  <2>3. CASE out[t] = "CANNOT_FIX"
    <3>1. sessions'[s] = IF s = sid[t] THEN [sessions[s] EXCEPT !.status = out[t]] ELSE sessions[s]
      BY <1>5, <2>1, <2>3, <1>t DEF UpdateSession, SetSessionStatus, TablesOK
    <3>2. QED
      BY <3>1, <2>1, <2>3, <1>t DEF Session
  <2>4. QED
    BY <1>5, <2>2, <2>3 DEF UpdateSession, TypeInv, TaskOK
<1>6. QED
  BY <1>1, <1>2, <1>3, <1>4, <1>5, SessionWriters

\* A task takes only sessions that are in the table.
LEMMA TakenSessions ==
  ASSUME TypeInv, [Next]_vars, NEW t \in Task
  PROVE  \/ sid'[t] = NoSession
         \/ sid'[t] = sid[t]
         \/ sid'[t] \in Commit /\ sessions[sid'[t]].status # "absent"
         \/ sid'[t] \in Commit /\ sessions'[sid'[t]].status # "absent"
<1> DEFINE Goal ==
      \/ sid'[t] = NoSession
      \/ sid'[t] = sid[t]
      \/ sid'[t] \in Commit /\ sessions[sid'[t]].status # "absent"
      \/ sid'[t] \in Commit /\ sessions'[sid'[t]].status # "absent"
<1>t. TypeOK /\ TasksOK /\ LocalsOK /\ TaskOK(t)
  BY DEF TypeInv, TypeOK, TasksOK
<1>1. CASE Provider \/ Server \/ Crash \/ UNCHANGED vars
  BY <1>1 DEF Provider, Server, HumanPush, Rerun, RunConcludes, Dispatch, DispatchDropped, Crash, vars,
     locals
<1>2. ASSUME NEW u \in Task, Handle(u), u # t
      PROVE  Goal
  BY <1>2, <1>t, OthersKeep
<1>3. CASE Handle(t)
  <2>1. Return(t) \/ Finally(t) => Goal
    BY <1>t DEF Return, Finally, ForgetLocals, LocalsOK
  <2>2. ASSUME NEW s \in Commit, MatchSession(t, s)
        PROVE  Goal
    BY <2>2, <1>t DEF MatchSession, SessionsByFix, IsActive, LocalsOK
  <2>3. CASE FindSession(t)
    BY <2>3, <1>t DEF FindSession, LocalsOK, TaskOK, Event, RunKey
  <2>4. CASE CreateSession(t)
    BY <2>4, <1>t DEF CreateSession, LocalsOK, TaskOK, Event, RunKey
  <2>5. QED
    BY <1>3, <2>1, <2>2, <2>3, <2>4 DEF Handle, CheckDuplicate, TreatAsHuman, MatchNothing, CloseSession,
       FindRow, UpdateRow, RecordSkippedBot, ResolveTarget, CheckRerun, TrackOnly, WriteEventStatus,
       SetMaxAttempts, MarkWorking, AgentPushes, AgentLosesPush, AgentGivesUp, AgentRaises, WriteFinalStatus,
       UpdateSession, WriteErrorStatus, locals
<1>4. QED
  BY <1>1, <1>2, <1>3 DEF Next

\* KnownSessions is inductive.
LEMMA KnownStep ==
  ASSUME TypeInv, KnownSessions, [Next]_vars
  PROVE  KnownSessions'
<1>1. ASSUME NEW s \in Commit, sessions'[s].status # "absent"
      PROVE  sessions'[s].trigger \in Workflow
  BY <1>1, SessionsKeep DEF KnownSessions
<1>2. ASSUME NEW t \in Task, sid'[t] # NoSession
      PROVE  sessions'[sid'[t]].status # "absent"
  <2>1. sid[t] \in Commit \cup {NoSession}
    BY DEF TypeInv, TypeOK, TasksOK, LocalsOK
  <2>2. QED
    BY <1>2, <2>1, TakenSessions, SessionsKeep DEF KnownSessions
<1>3. QED
  BY <1>1, <1>2 DEF KnownSessions

\* To begin with no session is in the table and no task holds one.
LEMMA KnownInit == Init => KnownSessions
BY DEF Init, TablesInit, KnownSessions, NoSessionRow

\* Every step keeps the types.
LEMMA TypeStep ==
  ASSUME TypeInv, KnownSessions, [Next]_vars
  PROVE  TypeInv'
BY HandleType, OutsideType DEF Next

\* The types of every variable hold forever, together with what a task holds
\* at each of its calls (RunTracker, WebhookHandler: the values the code reads
\* and writes stay in their domains whatever the interleaving).
THEOREM TypeCorrect == Spec => []TypeOK
<1>1. Init => TypeInv /\ KnownSessions
  BY TypeInit, KnownInit
<1>2. TypeInv /\ KnownSessions /\ [Next]_vars => (TypeInv /\ KnownSessions)'
  BY TypeStep, KnownStep
<1>3. TypeInv => TypeOK
  BY DEF TypeInv
<1>4. QED
  BY <1>1, <1>2, <1>3, PTL DEF Spec

-----------------------------------------------------------------------------
(* Safety: the invariants that make Lineage, GreenBuild and WorkingHasWorker *)
(* inductive.                                                                *)

\* A commit number that was not given out has no author and no CI run.
FreshCommits ==
  /\ \A c \in Commit : c > head => author[c] = "nobody"
  /\ \A k \in RunKey : k.sha > head => ci[k] = "none"

\* A task handles an event that is true: a concluded run stays concluded.
TruthfulEvents ==
  \A t \in Task : pc[t] # "done" /\ ev[t].phase \in Terminal => ci[ev[t].key] = ev[t].phase

\* A task about to record a fix recorded it when it pushed it, or its push was
\* lost.
FixesArePushed ==
  \A t \in Task :
    pc[t] \in {"final_status", "update_session"} /\ out[t] = "FIX_PUSHED" /\ sid[t] \in Commit =>
      fix[t] \in PushedBy(sid[t]) \cup {NoCommit, Unpushed}

\* A task about to say PASSED has seen the green build.
PassedIsGreen ==
  \A t \in Task :
    pc[t] \in {"complete_session", "find_row", "update_row"} /\ out[t] = "PASSED" =>
      \E c \in PushedBy(sid[t]) : CiGreen(c)

SafetyInv ==
  /\ FreshCommits /\ TruthfulEvents /\ FixesArePushed /\ PassedIsGreen
  /\ Lineage /\ GreenBuild

\* Who changes the world, and how.
LEMMA WorldWriters ==
  ASSUME [Next]_vars
  PROVE  \/ UNCHANGED <<head, author, owner, ci>>
         \/ Push("human", NoSession)
         \/ \E t \in Task : AgentPushes(t)
         \/ \E k \in RunKey : Rerun(k) \/ \E result \in Results : RunConcludes(k, result)
<1>1. CASE Server \/ Crash \/ UNCHANGED vars
  BY <1>1 DEF Server, Dispatch, DispatchDropped, Crash, vars
<1>2. CASE Provider
  BY <1>2 DEF Provider, HumanPush
<1>3. ASSUME NEW t \in Task, Handle(t)
      PROVE  UNCHANGED <<head, author, owner, ci>> \/ AgentPushes(t)
  BY <1>3 DEF Handle, CheckDuplicate, TreatAsHuman, MatchNothing, MatchSession, CloseSession, FindRow,
     UpdateRow, RecordSkippedBot, ResolveTarget, CheckRerun, TrackOnly, WriteEventStatus, FindSession,
     CreateSession, SetMaxAttempts, MarkWorking, AgentLosesPush, AgentGivesUp, AgentRaises, WriteFinalStatus,
     UpdateSession, WriteErrorStatus, world
<1>4. QED
  BY <1>1, <1>2, <1>3 DEF Next

\* A push appends to history and changes nothing in it.
LEMMA PushGrows ==
  ASSUME WorldOK, FreshCommits, NEW who \in Author \ {"nobody"}, NEW r \in Commit \cup {NoSession},
         Push(who, r)
  PROVE  /\ FreshCommits'
         /\ \A c \in Commit : author[c] # "nobody" => author'[c] = author[c] /\ owner'[c] = owner[c]
         /\ \A k \in RunKey : ci[k] \in Terminal => ci'[k] = ci[k]
         /\ head + 1 \in Commit /\ author'[head + 1] = who /\ owner'[head + 1] = r
<1>1. head \in Nat /\ head + 1 \in Commit
  BY CommitsAssumption DEF Push, WorldOK, Commit
<1>2. \A c \in Commit : c > head + 1 => c > head /\ c # head + 1
  BY <1>1 DEF Commit
<1>3. /\ \A c \in Commit : c > head + 1 => author'[c] = "nobody"
      /\ \A k \in RunKey : k.sha > head + 1 => ci'[k] = "none"
  BY <1>1, <1>2 DEF Push, WorldOK, FreshCommits, RunKey
<1>4. FreshCommits'
  BY <1>3 DEF Push, FreshCommits
<1>5. \A c \in Commit : author[c] # "nobody" => author'[c] = author[c] /\ owner'[c] = owner[c]
  <2>1. author[head + 1] = "nobody"
    BY <1>1 DEF FreshCommits
  <2>2. QED
    BY <2>1 DEF Push, WorldOK
<1>6. \A k \in RunKey : ci[k] \in Terminal => ci'[k] = ci[k]
  <2>1. \A k \in RunKey : k.sha = head + 1 => ci[k] = "none"
    BY <1>1 DEF FreshCommits
  <2>2. QED
    BY <2>1 DEF Push, WorldOK, Terminal
<1>7. author'[head + 1] = who /\ owner'[head + 1] = r
  BY <1>1 DEF Push, WorldOK
<1>8. QED
  BY <1>1, <1>4, <1>5, <1>6, <1>7

\* History is never rewritten: who made a commit for which session, and what
\* CI said of a run.
LEMMA HistoryGrows ==
  ASSUME TypeInv, FreshCommits, [Next]_vars
  PROVE  /\ FreshCommits'
         /\ \A c \in Commit : author[c] # "nobody" => author'[c] = author[c] /\ owner'[c] = owner[c]
         /\ \A k \in RunKey : ci[k] \in Terminal => ci'[k] = ci[k]
<1>t. TypeOK /\ WorldOK /\ TasksOK /\ LocalsOK
  BY DEF TypeInv, TypeOK, TasksOK
<1>1. CASE UNCHANGED <<head, author, owner, ci>>
  BY <1>1 DEF FreshCommits
<1>2. CASE Push("human", NoSession)
  BY <1>2, <1>t, PushGrows DEF Author
<1>3. ASSUME NEW t \in Task, AgentPushes(t)
      PROVE  /\ FreshCommits'
             /\ \A c \in Commit : author[c] # "nobody" => author'[c] = author[c] /\ owner'[c] = owner[c]
             /\ \A k \in RunKey : ci[k] \in Terminal => ci'[k] = ci[k]
  BY <1>3, <1>t, PushGrows DEF AgentPushes, Author, LocalsOK
<1>4. ASSUME NEW k \in RunKey, Rerun(k) \/ \E result \in Results : RunConcludes(k, result)
      PROVE  /\ FreshCommits'
             /\ \A c \in Commit : author[c] # "nobody" => author'[c] = author[c] /\ owner'[c] = owner[c]
             /\ \A j \in RunKey : ci[j] \in Terminal => ci'[j] = ci[j]
  <2>1. k.sha \in Nat /\ head \in Nat
    BY <1>t, CommitsAssumption DEF RunKey, Commit, WorldOK
  <2>2. ~(k.sha > head)
    <3>1. CASE ci[k] = "running"
      BY <3>1 DEF FreshCommits
    <3>2. CASE Rerun(k)
      BY <3>2 DEF Rerun, FreshCommits, Terminal
    <3>3. QED
      BY <1>4, <3>1, <3>2 DEF RunConcludes
  <2>3. UNCHANGED <<head, author, owner>>
    BY <1>4 DEF Rerun, RunConcludes
  <2>4. \A j \in RunKey : j # k => ci'[j] = ci[j]
    BY <1>4, <1>t DEF Rerun, RunConcludes, WorldOK
  <2>5. ci[k] \notin Terminal
    BY <1>4 DEF Rerun, RunConcludes, Terminal
  <2>6. QED
    BY <2>2, <2>3, <2>4, <2>5 DEF FreshCommits
<1>5. QED
  BY <1>1, <1>2, <1>3, <1>4, WorldWriters

\* So what was pushed for a session stays so, and a green commit stays green.
LEMMA GreenStays ==
  ASSUME TypeInv, FreshCommits, [Next]_vars, NEW s \in Commit \cup {NoSession}
  PROVE  /\ \A c \in PushedBy(s) : c \in PushedBy(s)'
         /\ (\E c \in PushedBy(s) : CiGreen(c)) => (\E c \in PushedBy(s) : CiGreen(c))'
<1>1. \A c \in PushedBy(s) : c \in PushedBy(s)'
  BY HistoryGrows DEF PushedBy
<1>2. ASSUME NEW c \in Commit, CiGreen(c)
      PROVE  CiGreen(c)'
  BY <1>2, HistoryGrows DEF CiGreen, Terminal
<1>3. QED
  BY <1>1, <1>2 DEF PushedBy

\* A task keeps its event to the end, and a new event has happened.
LEMMA EventSteps ==
  ASSUME TypeInv, [Next]_vars, NEW t \in Task, pc'[t] # "done"
  PROVE  \/ pc[t] # "done" /\ ev'[t] = ev[t]
         \/ Happened(ev'[t])
<1>t. TypeOK /\ TasksOK /\ LocalsOK
  BY DEF TypeInv, TypeOK, TasksOK
<1>1. CASE Provider \/ Crash \/ UNCHANGED vars
  BY <1>1 DEF Provider, HumanPush, Rerun, RunConcludes, Crash, vars, locals
<1>2. ASSUME NEW e \in Event, DispatchDropped(e)
      PROVE  pc[t] # "done" /\ ev'[t] = ev[t]
  BY <1>2 DEF DispatchDropped, locals
<1>3. ASSUME NEW e \in Event, NEW u \in Task, Dispatch(u, e)
      PROVE  (pc[t] # "done" /\ ev'[t] = ev[t]) \/ Happened(ev'[t])
  <2>1. CASE u = t
    <3>1. ev'[t] = e /\ Happened(e)
      BY <1>3, <2>1, <1>t DEF Dispatch, Deliver, LocalsOK
    <3>2. QED
      BY <3>1
  <2>2. CASE u # t
    BY <1>3, <2>2, <1>t DEF Dispatch, TasksOK, LocalsOK
  <2>3. QED
    BY <2>1, <2>2
<1>4. ASSUME NEW u \in Task, Handle(u)
      PROVE  pc[t] # "done" /\ ev'[t] = ev[t]
  <2>1. CASE u # t
    BY <1>4, <2>1, <1>t, OthersKeep
  <2>2. CASE u = t
    <3>1. ~Return(t) /\ ~Finally(t)
      BY <1>t DEF Return, Finally, Goto, TasksOK
    <3>2. QED
      BY <1>4, <2>2, <3>1 DEF Handle, CheckDuplicate, TreatAsHuman, MatchNothing, MatchSession,
         CloseSession, FindRow, UpdateRow, RecordSkippedBot, ResolveTarget, CheckRerun, TrackOnly,
         WriteEventStatus, FindSession, CreateSession, SetMaxAttempts, MarkWorking, AgentPushes,
         AgentLosesPush, AgentGivesUp, AgentRaises, WriteFinalStatus, UpdateSession, WriteErrorStatus, locals
  <2>3. QED
    BY <2>1, <2>2
<1>5. QED
  BY <1>1, <1>2, <1>3, <1>4 DEF Next, Server

\* Every step keeps the events in flight true to the branch and to CI.
LEMMA TruthfulStep ==
  ASSUME TypeInv, FreshCommits, TruthfulEvents, [Next]_vars, TypeInv'
  PROVE  TruthfulEvents'
<1> SUFFICES ASSUME NEW t \in Task, pc'[t] # "done", ev'[t].phase \in Terminal
             PROVE  ci'[ev'[t].key] = ev'[t].phase
  BY DEF TruthfulEvents
<1>1. ev'[t] \in Event /\ ev'[t].key \in RunKey
  BY DEF TypeInv, TaskOK, Event
<1>2. ci[ev'[t].key] = ev'[t].phase
  <2>1. CASE pc[t] # "done" /\ ev'[t] = ev[t]
    BY <2>1 DEF TruthfulEvents
  <2>2. CASE Happened(ev'[t])
    BY <2>2 DEF Happened, Terminal
  <2>3. QED
    BY <2>1, <2>2, EventSteps
<1>3. QED
  BY <1>1, <1>2, HistoryGrows

\* How a task comes to its last two calls, and what it carries there.
LEMMA FixStep ==
  ASSUME TypeInv, FreshCommits, FixesArePushed, [Next]_vars
  PROVE  FixesArePushed'
<1> SUFFICES ASSUME NEW t \in Task, pc'[t] \in {"final_status", "update_session"},
                    out'[t] = "FIX_PUSHED", sid'[t] \in Commit
             PROVE  fix'[t] \in PushedBy(sid[t])' \cup {NoCommit, Unpushed}
  BY DEF FixesArePushed
<1>t. TypeOK /\ WorldOK /\ TasksOK /\ LocalsOK
  BY DEF TypeInv, TypeOK, TasksOK
<1> DEFINE Stays == /\ pc[t] \in {"final_status", "update_session"}
                    /\ out'[t] = out[t] /\ sid'[t] = sid[t] /\ fix'[t] = fix[t]
<1>1. CASE Stays
  <2>1. fix[t] \in PushedBy(sid[t]) \cup {NoCommit, Unpushed}
    BY <1>1 DEF FixesArePushed
  <2>2. QED
    BY <1>1, <2>1, GreenStays
<1>2. CASE AgentPushes(t)
  <2>1. /\ head + 1 \in Commit /\ author'[head + 1] = "bot" /\ owner'[head + 1] = sid[t]
    BY <1>2, <1>t, PushGrows DEF AgentPushes, Author, LocalsOK
  <2>2. fix'[t] = head + 1 /\ sid'[t] = sid[t]
    BY <1>2, <1>t DEF AgentPushes, LocalsOK
  <2>3. QED
    BY <2>1, <2>2 DEF PushedBy
<1>lost. CASE AgentLosesPush(t)
  BY <1>lost, <1>t DEF AgentLosesPush, LocalsOK
<1>3. CASE Provider \/ Crash \/ UNCHANGED vars
  BY <1>1, <1>3 DEF Provider, HumanPush, Rerun, RunConcludes, Crash, vars, locals
<1>4. CASE Server
  BY <1>1, <1>4, <1>t DEF Server, Dispatch, DispatchDropped, TasksOK, LocalsOK, locals
<1>5. ASSUME NEW u \in Task, Handle(u), u # t
      PROVE  Stays
  BY <1>5, <1>t, OthersKeep
<1>6. ASSUME Handle(t), ~AgentPushes(t), ~AgentLosesPush(t)
      PROVE  Stays
  <2>1. ~Return(t) /\ ~Finally(t)
    BY <1>t DEF Return, Finally, Goto, TasksOK
  <2>2. \A label : Goto(t, label) => pc'[t] = label
    BY <1>t DEF Goto, TasksOK
  <2>3. ~AgentGivesUp(t)
    BY <1>t DEF AgentGivesUp, LocalsOK
  <2>4. WriteFinalStatus(t)
    BY <1>6, <2>1, <2>2, <2>3 DEF Handle, CheckDuplicate, TreatAsHuman, MatchNothing, MatchSession,
       CloseSession, FindRow, UpdateRow, RecordSkippedBot, ResolveTarget, CheckRerun, TrackOnly,
       WriteEventStatus, FindSession, CreateSession, SetMaxAttempts, MarkWorking, AgentRaises,
       UpdateSession, WriteErrorStatus
  <2>5. QED
    BY <2>4, <2>1 DEF WriteFinalStatus, locals
<1>7. QED
  BY <1>1, <1>2, <1>lost, <1>3, <1>4, <1>5, <1>6 DEF Next

\* Every step keeps the lineage of the recorded fixes.
LEMMA LineageStep ==
  ASSUME TypeInv, FreshCommits, FixesArePushed, Lineage, [Next]_vars
  PROVE  Lineage'
<1> SUFFICES ASSUME NEW s \in Commit, sessions'[s].fix \in Commit
             PROVE  sessions'[s].fix \in PushedBy(s)'
  BY DEF Lineage
<1>t. TypeOK /\ TablesOK /\ TasksOK /\ LocalsOK /\ sessions[s] \in Session
  BY DEF TypeInv, TypeOK, TablesOK, TasksOK
<1>1. CASE sessions'[s].fix = sessions[s].fix
  <2>1. sessions[s].fix \in PushedBy(s)
    BY <1>1 DEF Lineage
  <2>2. QED
    BY <1>1, <2>1, GreenStays
<1>2. CASE UNCHANGED sessions
  BY <1>1, <1>2
<1>3. ASSUME NEW t \in Task, CloseSession(t)
      PROVE  sessions'[s].fix = sessions[s].fix
  BY <1>3, <1>t DEF CloseSession, SetSessionStatus, TablesOK, Session
<1>4. ASSUME NEW t \in Task, CreateSession(t)
      PROVE  sessions'[s].fix = sessions[s].fix \/ sessions'[s].fix \notin Commit
  BY <1>4, <1>t, FixKinds DEF CreateSession, InsertSession, TablesOK, Session
<1>5. ASSUME NEW t \in Task, SetMaxAttempts(t)
      PROVE  sessions'[s].fix = sessions[s].fix
  BY <1>5, <1>t DEF SetMaxAttempts, SetSessionMax, TablesOK, Session
<1>6. ASSUME NEW t \in Task, UpdateSession(t)
      PROVE  sessions'[s].fix \in PushedBy(s)'
  <2>0. sid[t] \in Commit /\ pc[t] = "update_session" /\ out[t] \in {"FIX_PUSHED", "CANNOT_FIX"}
    BY <1>6 DEF UpdateSession, TypeInv, TaskOK, HoldsSession
  <2>1. CASE s = sid[t] /\ out[t] = "FIX_PUSHED"
    <3>1. sessions'[s] = [sessions[s] EXCEPT !.fix = fix[t], !.attempt = count[t] + 1]
      BY <1>6, <2>0, <2>1, <1>t DEF UpdateSession, RecordFix, TablesOK
    <3>2. sessions'[s].fix = fix[t]
      BY <3>1, <1>t DEF Session
    <3>3. fix[t] \in PushedBy(s) \cup {NoCommit, Unpushed}
      BY <2>0, <2>1 DEF FixesArePushed
    <3>4. QED
      BY <3>2, <3>3, GreenStays, FixKinds
  <2>2. CASE s # sid[t] /\ out[t] = "FIX_PUSHED"
    <3>1. sessions'[s] = sessions[s]
      BY <1>6, <2>0, <2>2, <1>t DEF UpdateSession, RecordFix, TablesOK
    <3>2. QED
      BY <3>1, <1>1
  <2>3. CASE out[t] = "CANNOT_FIX"
    <3>1. sessions'[s].fix = sessions[s].fix
      BY <1>6, <2>0, <2>3, <1>t DEF UpdateSession, SetSessionStatus, TablesOK, Session
    <3>2. QED
      BY <3>1, <1>1
  <2>4. QED
    BY <2>0, <2>1, <2>2, <2>3
<1>7. QED
  BY <1>1, <1>2, <1>3, <1>4, <1>5, <1>6, SessionWriters

\* A task says PASSED only after it matched a green build of its session's fix.
LEMMA PassedStep ==
  ASSUME TypeInv, FreshCommits, TruthfulEvents, PassedIsGreen, Lineage, [Next]_vars
  PROVE  PassedIsGreen'
<1> SUFFICES ASSUME NEW t \in Task, pc'[t] \in {"complete_session", "find_row", "update_row"},
                    out'[t] = "PASSED"
             PROVE  (\E c \in PushedBy(sid[t]) : CiGreen(c))'
  BY DEF PassedIsGreen
<1>t. TypeOK /\ TasksOK /\ LocalsOK /\ TaskOK(t) /\ sid[t] \in Commit \cup {NoSession}
  BY DEF TypeInv, TypeOK, TasksOK, LocalsOK
<1> DEFINE Stays == /\ pc[t] \in {"complete_session", "find_row", "update_row"}
                    /\ out'[t] = out[t] /\ sid'[t] = sid[t]
<1>1. CASE Stays
  <2>1. \E c \in PushedBy(sid[t]) : CiGreen(c)
    BY <1>1 DEF PassedIsGreen
  <2>2. (\E c \in PushedBy(sid[t]) : CiGreen(c)) => \E c \in PushedBy(sid[t])' : CiGreen(c)'
    BY <1>t, <1>1, GreenStays DEF PushedBy
  <2>3. QED
    BY <2>1, <2>2
<1>2. ASSUME NEW s \in Commit, MatchSession(t, s)
      PROVE  (\E c \in PushedBy(sid[t]) : CiGreen(c))'
  <2>1. BotTerminalStatus(ev[t]) = "success"
    <3>1. CASE BotTerminalStatus(ev[t]) = "none"
      <4>1. out'[t] = EventStatus(ev[t])
        BY <1>2, <3>1, <1>t DEF MatchSession, LocalsOK
      <4>2. QED
        BY <4>1, <1>2, <1>t, EventStatusType DEF MatchSession, TaskOK, EventRowStatus
    <3>2. CASE BotTerminalStatus(ev[t]) = "failure"
      BY <1>2, <3>2, <1>t DEF MatchSession, LocalsOK, Goto, TasksOK
    <3>3. QED
      BY <1>2, <3>1, <3>2 DEF MatchSession
  <2>2. ev[t] \in Event /\ ev[t].key \in RunKey
    BY <1>2, <1>t DEF MatchSession, TaskOK, Event
  <2>3. ci[ev[t].key] = "success"
    BY <1>2, <2>1, <2>2, SuccessIsSuccess DEF MatchSession, TruthfulEvents, Terminal
  <2>4. ev[t].key.sha \in PushedBy(s)
    BY <1>2, <2>2 DEF MatchSession, SessionsByFix, Lineage, RunKey, Commit, NoCommit
  <2>5. CiGreen(ev[t].key.sha)
    BY <2>2, <2>3 DEF CiGreen
  <2>6. sid'[t] = s
    BY <1>2, <1>t DEF MatchSession, LocalsOK
  <2>7. \E c \in PushedBy(s)' : CiGreen(c)'
    BY <2>4, <2>5, GreenStays
  <2>8. QED
    BY <2>6, <2>7 DEF PushedBy
<1>3. CASE Provider \/ Crash \/ UNCHANGED vars
  BY <1>1, <1>3 DEF Provider, HumanPush, Rerun, RunConcludes, Crash, vars, locals
<1>4. CASE Server
  BY <1>1, <1>4, <1>t DEF Server, Dispatch, DispatchDropped, TasksOK, LocalsOK, locals
<1>5. ASSUME NEW u \in Task, Handle(u), u # t
      PROVE  Stays
  BY <1>5, <1>t, OthersKeep
<1>6. ASSUME Handle(t), \A s \in Commit : ~MatchSession(t, s)
      PROVE  Stays
  <2>1. ~Return(t) /\ ~Finally(t)
    BY <1>t DEF Return, Finally, Goto, TasksOK
  <2>2. \A label : Goto(t, label) => pc'[t] = label
    BY <1>t DEF Goto, TasksOK
  <2>3. CloseSession(t) \/ FindRow(t)
    BY <1>6, <2>1, <2>2 DEF Handle, CheckDuplicate, TreatAsHuman, MatchNothing, UpdateRow,
       RecordSkippedBot, ResolveTarget, CheckRerun, TrackOnly, WriteEventStatus, FindSession,
       CreateSession, SetMaxAttempts, MarkWorking, AgentPushes, AgentLosesPush, AgentGivesUp, AgentRaises,
       WriteFinalStatus, UpdateSession, WriteErrorStatus
  <2>4. CASE CloseSession(t)
    BY <2>4, <1>t DEF CloseSession, TaskOK, locals
  <2>5. CASE FindRow(t)
    BY <2>1, <2>5 DEF FindRow
  <2>6. QED
    BY <2>3, <2>4, <2>5
<1>7. QED
  BY <1>1, <1>2, <1>3, <1>4, <1>5, <1>6 DEF Next

\* Who writes PASSED to a session: the task that matched a green build.
LEMMA PassedSessions ==
  ASSUME TypeInv, KnownSessions, [Next]_vars, NEW s \in Commit, sessions'[s].status = "PASSED"
  PROVE  \/ sessions[s].status = "PASSED"
         \/ \E t \in Task : pc[t] = "complete_session" /\ sid[t] = s /\ out[t] = "PASSED"
<1>t. TypeOK /\ TablesOK /\ TasksOK /\ LocalsOK /\ sessions[s] \in Session
  BY DEF TypeInv, TypeOK, TablesOK, TasksOK
<1>1. ASSUME NEW t \in Task, CloseSession(t), sessions[s].status # "PASSED"
      PROVE  pc[t] = "complete_session" /\ sid[t] = s /\ out[t] = "PASSED"
  <2>1. s = sid[t] /\ out[t] = "PASSED"
    BY <1>1, <1>t DEF CloseSession, SetSessionStatus, TablesOK, Session
  <2>2. QED
    BY <1>1, <2>1 DEF CloseSession, TypeInv, TaskOK
<1>2. ASSUME NEW t \in Task, CreateSession(t)
      PROVE  sessions[s].status = "PASSED"
  BY <1>2, <1>t, SessionsKeep DEF CreateSession, InsertSession, TablesOK, Session
<1>3. ASSUME NEW t \in Task, SetMaxAttempts(t)
      PROVE  sessions[s].status = "PASSED"
  BY <1>3, <1>t DEF SetMaxAttempts, SetSessionMax, TablesOK, Session
<1>4. ASSUME NEW t \in Task, UpdateSession(t)
      PROVE  sessions[s].status = "PASSED"
  <2>1. CASE out[t] = "FIX_PUSHED"
    <3>1. sid[t] \in Commit
      BY <1>4 DEF UpdateSession, TypeInv, TaskOK, HoldsSession
    <3>2. sessions'[s] = IF s = sid[t] THEN [sessions[s] EXCEPT !.fix = fix[t], !.attempt = count[t] + 1]
                                       ELSE sessions[s]
      BY <1>4, <2>1, <3>1, <1>t DEF UpdateSession, RecordFix, TablesOK
    <3>3. QED
      BY <3>2, <1>t DEF Session
  <2>2. CASE out[t] = "CANNOT_FIX"
    BY <1>4, <2>2, <1>t DEF UpdateSession, SetSessionStatus, TablesOK, Session
  <2>3. QED
    BY <1>4, <2>1, <2>2 DEF UpdateSession, TypeInv, TaskOK
<1>5. QED
  BY <1>1, <1>2, <1>3, <1>4, SessionWriters

\* Who writes to ci_runs, and what.
LEMMA RowWriters ==
  ASSUME TypeInv, [Next]_vars
  PROVE  \/ UNCHANGED runs
         \/ \E t \in Task, status \in EventRowStatus \cup {"skipped_bot"} :
              ev[t].key \in RunKey /\ Record(ev[t].key, status)
         \/ \E t \in Task, status \in EventRowStatus :
              pc[t] = "event_status" /\ UpdateStatus(tgt[t], status, sid[t])
         \/ \E t \in Task : UpdateRow(t) \/ MarkWorking(t) \/ WriteFinalStatus(t) \/ WriteErrorStatus(t)
<1>1. CASE Provider \/ Server \/ Crash \/ UNCHANGED vars
  BY <1>1 DEF Provider, Server, HumanPush, Rerun, RunConcludes, Dispatch, DispatchDropped, Crash, vars
<1>2. ASSUME NEW t \in Task, RecordSkippedBot(t) \/ TrackOnly(t) \/ WriteEventStatus(t)
      PROVE  \/ \E status \in EventRowStatus \cup {"skipped_bot"} :
                  ev[t].key \in RunKey /\ Record(ev[t].key, status)
             \/ \E status \in EventRowStatus :
                  pc[t] = "event_status" /\ UpdateStatus(tgt[t], status, sid[t])
  <2>1. EventStatus(ev[t]) \in EventRowStatus
    BY <1>2, EventStatusType DEF RecordSkippedBot, TrackOnly, WriteEventStatus, TypeInv, TaskOK
  <2>2. ev[t].key \in RunKey
    BY <1>2 DEF RecordSkippedBot, TrackOnly, WriteEventStatus, TypeInv, TaskOK, Event
  <2>3. QED
    BY <1>2, <2>1, <2>2 DEF RecordSkippedBot, TrackOnly, WriteEventStatus
<1>3. ASSUME NEW t \in Task, Handle(t)
      PROVE  \/ UNCHANGED runs
             \/ RecordSkippedBot(t) \/ TrackOnly(t) \/ WriteEventStatus(t)
             \/ UpdateRow(t) \/ MarkWorking(t) \/ WriteFinalStatus(t) \/ WriteErrorStatus(t)
  BY <1>3 DEF Handle, CheckDuplicate, TreatAsHuman, MatchNothing, MatchSession, CloseSession, FindRow,
     ResolveTarget, CheckRerun, FindSession, CreateSession, SetMaxAttempts, AgentPushes, AgentLosesPush, AgentGivesUp,
     AgentRaises, UpdateSession
<1>4. QED
  BY <1>1, <1>2, <1>3 DEF Next

\* The write of row k leaves it either as it was or with the status written.
LEMMA RowChange ==
  ASSUME TypeInv, NEW k \in RunKey, NEW j \in RunKey, NEW status \in RowStatus,
         NEW s \in Commit \cup {NoSession}
  PROVE  /\ Record(j, status) => runs'[k] = runs[k] \/ runs'[k].status = status
         /\ UpdateStatus(j, status, s) =>
              \/ runs'[k] = runs[k]
              \/ k = j /\ runs'[k].status = status /\ (s # NoSession => runs'[k].session = s)
BY DEF TypeInv, TypeOK, TablesOK, Record, UpdateStatus, Row

\* Every step keeps PASSED sessions backed by a green run of their own.
LEMMA GreenStep ==
  ASSUME TypeInv, KnownSessions, FreshCommits, PassedIsGreen, GreenBuild, [Next]_vars
  PROVE  GreenBuild'
<1>t. TypeOK /\ TablesOK /\ TasksOK /\ LocalsOK
  BY DEF TypeInv, TypeOK, TasksOK
<1> DEFINE Green(s) == \E c \in PushedBy(s) : CiGreen(c)
           GreenNow(s) == \E c \in Commit : /\ owner'[c] = s /\ author'[c] = "bot"
                                       /\ \E k \in RunKey : k.sha = c /\ ci'[k] = "success"
<1>grow. \A s \in Commit \cup {NoSession} : Green(s) => GreenNow(s)
  BY GreenStays DEF PushedBy, CiGreen
<1>task. \A t \in Task : pc[t] \in {"complete_session", "find_row", "update_row"} /\ out[t] = "PASSED"
                           => Green(sid[t])
  BY DEF PassedIsGreen
<1>old. /\ \A s \in Commit : sessions[s].status = "PASSED" => Green(s)
        /\ \A k \in RunKey : runs[k].status = "PASSED" => Green(runs[k].session)
  BY DEF GreenBuild
<1>types. /\ \A k \in RunKey : runs[k].session \in Commit \cup {NoSession}
          /\ \A t \in Task : sid[t] \in Commit \cup {NoSession}
  BY <1>t DEF TablesOK, Row, LocalsOK
<1> HIDE DEF Green, GreenNow
<1>1. ASSUME NEW s \in Commit, sessions'[s].status = "PASSED"
      PROVE  GreenNow(s)
  BY <1>1, <1>grow, <1>task, <1>old, PassedSessions
<1>2. ASSUME NEW k \in RunKey, runs'[k].status = "PASSED"
      PROVE  GreenNow(runs'[k].session)
  <2>0. CASE runs'[k] = runs[k]
    BY <1>2, <2>0, <1>grow, <1>old, <1>types
  <2>1. ASSUME NEW t \in Task, NEW status \in EventRowStatus \cup {"skipped_bot"}, ev[t].key \in RunKey,
               Record(ev[t].key, status)
        PROVE  runs'[k] = runs[k]
    BY <1>2, <2>1, RowChange DEF EventRowStatus, RowStatus, NoSession
  <2>2. ASSUME NEW t \in Task, NEW status \in RowStatus \ {"PASSED"}, tgt[t] \in RunKey,
               UpdateStatus(tgt[t], status, sid[t])
        PROVE  runs'[k] = runs[k]
    BY <1>2, <2>2, <1>types, RowChange
  <2>3. ASSUME NEW t \in Task, UpdateRow(t)
        PROVE  runs'[k] = runs[k] \/ GreenNow(runs'[k].session)
    <3>1. /\ tgt[t] \in RunKey /\ sid[t] \in Commit
          /\ out[t] \in EventRowStatus \cup {"PASSED", "EXHAUSTED"} /\ pc[t] = "update_row"
      BY <2>3 DEF UpdateRow, TypeInv, TaskOK, HoldsTarget, HoldsSession
    <3>2. out[t] \in RowStatus /\ sid[t] # NoSession
      BY <3>1 DEF RowStatus, Commit, NoSession
    <3>3. UpdateStatus(tgt[t], out[t], sid[t])
      BY <2>3 DEF UpdateRow
    <3>4. \/ runs'[k] = runs[k]
          \/ runs'[k].status = out[t] /\ runs'[k].session = sid[t]
      BY <3>1, <3>2, <3>3, RowChange
    <3>5. QED
      BY <1>2, <3>1, <3>4, <1>task, <1>grow
  <2>4. ASSUME NEW t \in Task, MarkWorking(t) \/ WriteFinalStatus(t) \/ WriteErrorStatus(t)
        PROVE  runs'[k] = runs[k]
    <3>1. tgt[t] \in RunKey
      BY <2>4 DEF MarkWorking, WriteFinalStatus, WriteErrorStatus, TypeInv, TaskOK, HoldsTarget, PcAgent
    <3>2. \E status \in {"AGENT_WORKING", "FIX_PUSHED", "CANNOT_FIX", "error"} :
            UpdateStatus(tgt[t], status, sid[t])
      BY <2>4 DEF MarkWorking, WriteFinalStatus, WriteErrorStatus, TypeInv, TaskOK
    <3>3. QED
      BY <3>1, <3>2, <2>2 DEF RowStatus
  <2>5. ASSUME NEW t \in Task, NEW status \in EventRowStatus, pc[t] = "event_status",
               UpdateStatus(tgt[t], status, sid[t])
        PROVE  runs'[k] = runs[k]
    <3>1. tgt[t] \in RunKey
      BY <2>5 DEF TypeInv, TaskOK, HoldsTarget
    <3>2. QED
      BY <3>1, <2>2, <2>5 DEF EventRowStatus, RowStatus
  <2>6. QED
    BY <2>0, <2>1, <2>3, <2>4, <2>5, RowWriters
<1>3. QED
  BY <1>1, <1>2 DEF GreenBuild, GreenNow, PushedBy, CiGreen

\* Initially there is no history, no session and no task.
LEMMA SafetyInit == Init => SafetyInv
BY FixKinds DEF Init, TablesInit, SafetyInv, FreshCommits, TruthfulEvents, FixesArePushed, PassedIsGreen,
   Lineage, GreenBuild, NoSessionRow, NoRow

\* Every step keeps the safety invariant.
LEMMA SafetyStep ==
  ASSUME TypeInv, KnownSessions, SafetyInv, [Next]_vars, TypeInv'
  PROVE  SafetyInv'
<1>1. FreshCommits'
  BY HistoryGrows DEF SafetyInv
<1>2. QED
  BY <1>1, TruthfulStep, FixStep, PassedStep, LineageStep, GreenStep DEF SafetyInv

\* The conjunction of the safety invariants and what they rest on holds throughout.
LEMMA SafetyInvariant == Spec => []SafetyInv
<1>1. Init => TypeInv /\ KnownSessions /\ SafetyInv
  BY TypeInit, KnownInit, SafetyInit
<1>2. TypeInv /\ KnownSessions /\ SafetyInv /\ [Next]_vars => (TypeInv /\ KnownSessions /\ SafetyInv)'
  BY TypeStep, KnownStep, SafetyStep
<1>3. QED
  BY <1>1, <1>2, PTL DEF Spec

\* The last fix a session remembers, by which the next bot webhook is matched
\* to it (get_session_by_fix_sha), is a commit the agent pushed while working
\* for that very session: for any number of tasks, commits, workflows,
\* redeliveries and restarts.
THEOREM LineageCorrect == Spec => []Lineage
<1>1. SafetyInv => Lineage
  BY DEF SafetyInv
<1>2. QED
  BY <1>1, SafetyInvariant, PTL

\* No session and no row is PASSED (_bot_terminal_status, update_session,
\* _update_session_run) without a green CI run of a commit pushed for it.
THEOREM GreenBuildCorrect == Spec => []GreenBuild
<1>1. SafetyInv => GreenBuild
  BY DEF SafetyInv
<1>2. QED
  BY <1>1, SafetyInvariant, PTL

-----------------------------------------------------------------------------
(* A working row has a worker *)

\* What becomes of a task that is working on row k.
LEMMA WorkerSteps ==
  ASSUME TypeInv, [Next]_vars, NEW t \in Task, NEW k \in RunKey, WorksOn(t, k), ~WorksOn(t, k)'
  PROVE  WriteFinalStatus(t) \/ WriteErrorStatus(t) \/ Crash
<1>t. TypeOK /\ TasksOK /\ LocalsOK /\ pc[t] \in PcAgent /\ tgt[t] = k
  BY DEF TypeInv, TypeOK, TasksOK, WorksOn
<1>1. CASE Provider \/ UNCHANGED vars
  BY <1>1, <1>t DEF Provider, HumanPush, Rerun, RunConcludes, vars, locals, WorksOn
<1>2. CASE Server
  BY <1>2, <1>t DEF Server, Dispatch, DispatchDropped, TasksOK, LocalsOK, locals, WorksOn, Live, PcAgent
<1>3. ASSUME NEW u \in Task, Handle(u), u # t
      PROVE  FALSE
  BY <1>3, <1>t, OthersKeep DEF WorksOn
<1>4. CASE Handle(t)
  <2>1. CASE AgentPushes(t) \/ AgentLosesPush(t) \/ AgentGivesUp(t) \/ AgentRaises(t)
    BY <2>1, <1>t DEF AgentPushes, AgentLosesPush, AgentGivesUp, AgentRaises, Goto, TasksOK,
       LocalsOK, PcAgent, WorksOn
  <2>2. QED
    BY <1>4, <2>1, <1>t DEF Handle, CheckDuplicate, TreatAsHuman, MatchNothing, MatchSession,
       CloseSession, FindRow, UpdateRow, RecordSkippedBot, ResolveTarget, CheckRerun, TrackOnly,
       WriteEventStatus, FindSession, CreateSession, SetMaxAttempts, MarkWorking, UpdateSession, PcAgent
<1>5. QED
  BY <1>1, <1>2, <1>3, <1>4 DEF Next

\* A worker that ends its work says so in its row.
LEMMA WorkerReports ==
  ASSUME TypeInv, NEW t \in Task, NEW k \in RunKey, WorksOn(t, k),
         WriteFinalStatus(t) \/ WriteErrorStatus(t)
  PROVE  runs'[k].status # "AGENT_WORKING"
<1>1. \E status \in {"FIX_PUSHED", "CANNOT_FIX", "error"} : UpdateStatus(k, status, sid[t])
  BY DEF WriteFinalStatus, WriteErrorStatus, TypeInv, TaskOK, WorksOn
<1>2. QED
  BY <1>1 DEF UpdateStatus, TypeInv, TypeOK, TablesOK, Row

\* A row begins to say AGENT_WORKING only when a task turns to the agent.
LEMMA WorkBegins ==
  ASSUME TypeInv, [Next]_vars, NEW k \in RunKey,
         runs[k].status # "AGENT_WORKING", runs'[k].status = "AGENT_WORKING"
  PROVE  \E t \in Task : WorksOn(t, k)'
<1>t. TypeOK /\ TasksOK /\ LocalsOK /\ \A t \in Task : sid[t] \in Commit \cup {NoSession}
  BY DEF TypeInv, TypeOK, TasksOK, LocalsOK
<1>1. ASSUME NEW t \in Task, NEW status \in RowStatus \ {"AGENT_WORKING"}, tgt[t] \in RunKey,
             UpdateStatus(tgt[t], status, sid[t])
      PROVE  FALSE
  BY <1>1, <1>t, RowChange
<1>2. ASSUME NEW t \in Task, NEW status \in EventRowStatus \cup {"skipped_bot"}, ev[t].key \in RunKey,
             Record(ev[t].key, status)
      PROVE  FALSE
  BY <1>2, RowChange DEF EventRowStatus, RowStatus, NoSession
<1>3. ASSUME NEW t \in Task, NEW status \in EventRowStatus, pc[t] = "event_status",
             UpdateStatus(tgt[t], status, sid[t])
      PROVE  FALSE
  BY <1>1, <1>3 DEF TypeInv, TaskOK, HoldsTarget, EventRowStatus, RowStatus
<1>4. ASSUME NEW t \in Task, UpdateRow(t) \/ WriteFinalStatus(t) \/ WriteErrorStatus(t)
      PROVE  FALSE
  <2>1. tgt[t] \in RunKey
    BY <1>4 DEF UpdateRow, WriteFinalStatus, WriteErrorStatus, TypeInv, TaskOK, HoldsTarget, PcAgent
  <2>2. \E status \in EventRowStatus \cup {"PASSED", "EXHAUSTED", "FIX_PUSHED", "CANNOT_FIX", "error"} :
          UpdateStatus(tgt[t], status, sid[t])
    BY <1>4 DEF UpdateRow, WriteFinalStatus, WriteErrorStatus, TypeInv, TaskOK
  <2>3. QED
    BY <2>1, <2>2, <1>1 DEF EventRowStatus, RowStatus
<1>5. ASSUME NEW t \in Task, MarkWorking(t)
      PROVE  WorksOn(t, k)'
  <2>1. tgt[t] \in RunKey /\ UpdateStatus(tgt[t], "AGENT_WORKING", sid[t])
    BY <1>5 DEF MarkWorking, TypeInv, TaskOK, HoldsTarget
  <2>2. k = tgt[t]
    BY <2>1, <1>t, RowChange DEF RowStatus
  <2>3. pc'[t] = "run_agent" /\ tgt'[t] = tgt[t]
    BY <1>5, <1>t DEF MarkWorking, Goto, TasksOK, locals
  <2>4. QED
    BY <2>2, <2>3 DEF WorksOn, PcAgent
<1>6. QED
  BY <1>2, <1>3, <1>4, <1>5, RowWriters

\* Every step keeps a worker behind each row that says AGENT_WORKING.
LEMMA WorkerStep ==
  ASSUME TypeInv, WorkingHasWorker, [Next]_vars
  PROVE  WorkingHasWorker'
<1> SUFFICES ASSUME crashes' = 0, NEW k \in RunKey, runs'[k].status = "AGENT_WORKING"
             PROVE  \E t \in Task : WorksOn(t, k)'
  BY DEF WorkingHasWorker
<1>1. crashes = 0 /\ ~Crash
  <2>1. ~Crash
    BY DEF Crash, TypeInv, TypeOK, WorldOK
  <2>2. UNCHANGED crashes
    <3>1. ASSUME NEW t \in Task, Handle(t)
          PROVE  UNCHANGED crashes
      BY <3>1 DEF Handle, CheckDuplicate, TreatAsHuman, MatchNothing, MatchSession, CloseSession,
         FindRow,
         UpdateRow, RecordSkippedBot, ResolveTarget, CheckRerun, TrackOnly, WriteEventStatus, FindSession,
         CreateSession, SetMaxAttempts, MarkWorking, AgentPushes, AgentLosesPush, AgentGivesUp, AgentRaises,
         WriteFinalStatus, UpdateSession, WriteErrorStatus, world
    <3>2. CASE Provider \/ Server \/ UNCHANGED vars
      BY <3>2 DEF Provider, Server, HumanPush, Rerun, RunConcludes, Dispatch, DispatchDropped, vars
    <3>3. QED
      BY <2>1, <3>1, <3>2 DEF Next
  <2>3. QED
    BY <2>1, <2>2
<1>2. CASE runs[k].status # "AGENT_WORKING"
  BY <1>2, WorkBegins
<1>3. CASE runs[k].status = "AGENT_WORKING"
  <2>1. PICK t \in Task : WorksOn(t, k)
    BY <1>1, <1>3 DEF WorkingHasWorker
  <2>2. ~WriteFinalStatus(t) /\ ~WriteErrorStatus(t)
    BY <2>1, WorkerReports
  <2>3. QED
    BY <1>1, <2>1, <2>2, WorkerSteps
<1>4. QED
  BY <1>2, <1>3

\* While the server has not been restarted a row that says AGENT_WORKING, which
\* is_duplicate takes for a reason to drop every redelivery, has a task that
\* is working on it: no return, exception or other task's write leaves the
\* row behind (handle_webhook_event writes a final or an error status).
THEOREM WorkerCorrect == Spec => []WorkingHasWorker
<1>1. Init => TypeInv /\ KnownSessions /\ WorkingHasWorker
  <2>1. Init => WorkingHasWorker
    BY DEF Init, TablesInit, WorkingHasWorker, NoRow
  <2>2. QED
    BY <2>1, TypeInit, KnownInit
<1>2. TypeInv /\ KnownSessions /\ WorkingHasWorker /\ [Next]_vars
        => (TypeInv /\ KnownSessions /\ WorkingHasWorker)'
  BY TypeStep, KnownStep, WorkerStep
<1>3. QED
  BY <1>1, <1>2, PTL DEF Spec

-----------------------------------------------------------------------------
(* Sessions are opened for people's commits *)

\* Only a commit that was pushed has CI runs and events, and where the author
\* can always be found out, a task that opens a session handles a commit of a
\* person.
OriginInv ==
  /\ \A k \in RunKey : ci[k] # "none" => author[k.sha] # "nobody"
  /\ \A t \in Task : pc[t] # "done" => author[ev[t].key.sha] # "nobody"
  /\ \A t \in Task :
       \/ pc[t] \in {"find_session", "create_session"}
       \/ pc[t] \in {"is_completed", "event_status"} /\ sid[t] = NoSession
       => author[ev[t].key.sha] = "human"

\* A session enters the table only when create_session inserts it.
LEMMA SessionCreators ==
  ASSUME TypeInv, KnownSessions, [Next]_vars, NEW s \in Commit,
         sessions[s].status = "absent", sessions'[s].status # "absent"
  PROVE  \E t \in Task : CreateSession(t) /\ ev[t].key.sha = s
<1>t. TablesOK /\ TasksOK /\ LocalsOK
  BY DEF TypeInv, TypeOK, TasksOK
<1>1. ASSUME NEW t \in Task, CloseSession(t) \/ SetMaxAttempts(t) \/ UpdateSession(t)
      PROVE  FALSE
  <2>1. sid[t] \in Commit /\ s # sid[t]
    BY <1>1 DEF CloseSession, SetMaxAttempts, UpdateSession, TypeInv, TaskOK, HoldsSession,
       KnownSessions,
       Commit, NoSession
  <2>2. sessions'[s] = sessions[s]
    BY <1>1, <2>1, <1>t DEF CloseSession, SetMaxAttempts, UpdateSession, SetSessionStatus, SetSessionMax,
       RecordFix, TablesOK
  <2>3. QED
    BY <2>2
<1>2. ASSUME NEW t \in Task, CreateSession(t)
      PROVE  ev[t].key.sha = s
  BY <1>2, <1>t DEF CreateSession, InsertSession, TablesOK
<1>3. QED
  BY <1>1, <1>2, SessionWriters

\* What is known of an author stays known, and a commit with a run has one.
LEMMA RunsHaveAuthors ==
  ASSUME TypeInv, FreshCommits, OriginInv, [Next]_vars, NEW k \in RunKey, ci'[k] # "none"
  PROVE  author'[k.sha] # "nobody"
<1>t. WorldOK /\ LocalsOK /\ k.sha \in Commit
  BY DEF TypeInv, TypeOK, TasksOK, RunKey
<1>1. CASE ci[k] # "none"
  BY <1>1, <1>t, HistoryGrows DEF OriginInv
<1>2. ASSUME NEW who \in Author \ {"nobody"}, NEW r \in Commit \cup {NoSession}, Push(who, r), ci[k] = "none"
      PROVE  author'[k.sha] # "nobody"
  <2>1. k.sha = head + 1
    BY <1>2 DEF Push
  <2>2. QED
    BY <1>2, <2>1, <1>t, PushGrows
<1>3. ASSUME NEW t \in Task, AgentPushes(t), ci[k] = "none"
      PROVE  author'[k.sha] # "nobody"
  BY <1>3, <1>2, <1>t DEF AgentPushes, LocalsOK, Author
<1>4. ASSUME NEW j \in RunKey, Rerun(j) \/ \E result \in Results : RunConcludes(j, result), ci[k] = "none"
      PROVE  author'[k.sha] # "nobody"
  <2>1. k = j /\ UNCHANGED author
    BY <1>4, <1>t DEF Rerun, RunConcludes, WorldOK
  <2>2. Rerun(k)
    BY <1>4, <2>1 DEF RunConcludes
  <2>3. PICK i \in RunKey : i.sha = k.sha /\ ci[i] \in Terminal
    BY <2>2 DEF Rerun
  <2>4. QED
    BY <2>1, <2>3 DEF OriginInv, Terminal
<1>5. QED
  BY <1>1, <1>2, <1>3, <1>4, WorldWriters DEF Author, NoSession

\* Every step keeps the origin of what tasks handle.
LEMMA OriginStep ==
  ASSUME TypeInv, FreshCommits, OriginInv, ~ResolveMayFail, [Next]_vars, TypeInv'
  PROVE  OriginInv'
<1>t. TypeOK /\ WorldOK /\ TasksOK /\ LocalsOK
  BY DEF TypeInv, TypeOK, TasksOK
<1>e. \A t \in Task : pc[t] # "done" => ev[t] \in Event /\ ev[t].key \in RunKey /\ ev[t].key.sha \in Commit
  BY DEF TypeInv, TaskOK, Event, RunKey
<1>1. \A k \in RunKey : ci'[k] # "none" => author'[k.sha] # "nobody"
  BY RunsHaveAuthors
<1>2. ASSUME NEW t \in Task, pc'[t] # "done"
      PROVE  author'[ev'[t].key.sha] # "nobody"
  <2>1. ev'[t].key \in RunKey /\ ev'[t].phase \in Phase
    BY <1>2 DEF TypeInv, TaskOK, Event
  <2>2. CASE pc[t] # "done" /\ ev'[t] = ev[t]
    BY <2>2, <1>e, HistoryGrows DEF OriginInv
  <2>3. CASE Happened(ev'[t])
    <3>1. ci[ev'[t].key] # "none"
      BY <2>1, <2>3 DEF Happened, Phase, Terminal
    <3>2. ev'[t].key.sha \in Commit
      BY <2>1 DEF RunKey
    <3>3. QED
      BY <2>1, <3>1, <3>2, HistoryGrows DEF OriginInv
  <2>4. QED
    BY <1>2, <2>2, <2>3, EventSteps
<1> DEFINE Own(t) == \/ pc[t] \in {"find_session", "create_session"}
                     \/ pc[t] \in {"is_completed", "event_status"} /\ sid[t] = NoSession
           OwnNext(t) == \/ pc'[t] \in {"find_session", "create_session"}
                         \/ pc'[t] \in {"is_completed", "event_status"} /\ sid'[t] = NoSession
<1>own. \A t \in Task : Own(t) => author[ev[t].key.sha] = "human" /\ pc[t] # "done"
  BY DEF OriginInv
<1>3. ASSUME NEW t \in Task, OwnNext(t)
      PROVE  author'[ev'[t].key.sha] = "human"
  <2>1. CASE Own(t) /\ ev'[t] = ev[t]
    BY <2>1, <1>own, <1>e, HistoryGrows
  <2>2. CASE Provider \/ Crash \/ UNCHANGED vars
    BY <1>3, <2>1, <2>2 DEF Provider, HumanPush, Rerun, RunConcludes, Crash, vars, locals
  <2>3. CASE Server
    BY <1>3, <2>1, <2>3, <1>t DEF Server, Dispatch, DispatchDropped, TasksOK, LocalsOK, locals
  <2>4. ASSUME NEW u \in Task, Handle(u), u # t
        PROVE  author'[ev'[t].key.sha] = "human"
    BY <1>3, <2>1, <2>4, <1>t, OthersKeep
  <2>5. CASE Handle(t)
    <3>1. ~Return(t) /\ ~Finally(t)
      BY <1>3, <1>t DEF Return, Finally, Goto, TasksOK
    <3>2. \A label : Goto(t, label) => pc'[t] = label
      BY <1>t DEF Goto, TasksOK
    <3>3. CASE TreatAsHuman(t)
      <4>1. author[ev[t].key.sha] # "bot"
        BY <3>3 DEF TreatAsHuman, MayBeHuman, Resolutions, RecognisedAsBot
      <4>2. author[ev[t].key.sha] # "nobody" /\ ev'[t] = ev[t] /\ UNCHANGED author
        BY <3>3 DEF TreatAsHuman, OriginInv, world
      <4>3. QED
        BY <3>3, <4>1, <4>2, <1>e, <1>t DEF TreatAsHuman, WorldOK, Author
    <3>4. CASE ResolveTarget(t)
      BY <1>3, <3>2, <3>4 DEF ResolveTarget, TypeInv, TaskOK, HoldsSession, Commit, NoSession
    <3>5. CASE CheckRerun(t) \/ WriteEventStatus(t) \/ FindSession(t)
      BY <1>3, <3>1, <3>2, <3>5, <2>1 DEF CheckRerun, WriteEventStatus, FindSession, locals
    <3>6. QED
      BY <1>3, <2>5, <3>1, <3>2, <3>3, <3>4, <3>5 DEF Handle, CheckDuplicate, MatchNothing, MatchSession,
         CloseSession, FindRow, UpdateRow, RecordSkippedBot, TrackOnly, CreateSession, SetMaxAttempts,
         MarkWorking, AgentPushes, AgentLosesPush, AgentGivesUp, AgentRaises, WriteFinalStatus,
         UpdateSession, WriteErrorStatus
  <2>6. QED
    BY <2>2, <2>3, <2>4, <2>5 DEF Next
<1>4. QED
  BY <1>1, <1>2, <1>3 DEF OriginInv

\* Where the author of a commit can always be found out, create_session is
\* "keyed by the failing human head_sha": no session is ever opened for a fix
\* of the agent, and the agent never retries its own work under a new budget.
THEOREM SessionIsHumanCorrect ==
  ASSUME ~ResolveMayFail
  PROVE  Spec => []SessionIsHuman
<1> DEFINE Inv == TypeInv /\ KnownSessions /\ FreshCommits /\ OriginInv /\ SessionIsHuman
<1>1. Init => Inv
  <2>1. Init => FreshCommits
    BY SafetyInit DEF SafetyInv
  <2>2. Init => OriginInv /\ SessionIsHuman
    BY DEF Init, TablesInit, OriginInv, SessionIsHuman, NoSessionRow
  <2>3. QED
    BY <2>1, <2>2, TypeInit, KnownInit
<1>2. Inv /\ [Next]_vars => Inv'
  <2> SUFFICES ASSUME Inv, [Next]_vars  PROVE Inv'
    OBVIOUS
  <2>1. TypeInv' /\ KnownSessions' /\ FreshCommits'
    BY TypeStep, KnownStep, HistoryGrows
  <2>2. OriginInv'
    BY <2>1, OriginStep
  <2>3. ASSUME NEW s \in Commit, sessions'[s].status # "absent"
        PROVE  author'[s] = "human"
    <3>1. CASE sessions[s].status # "absent"
      BY <3>1, HistoryGrows DEF SessionIsHuman
    <3>2. CASE sessions[s].status = "absent"
      <4>1. PICK t \in Task : CreateSession(t) /\ ev[t].key.sha = s
        BY <2>3, <3>2, SessionCreators
      <4>2. author[s] = "human"
        BY <4>1 DEF CreateSession, OriginInv
      <4>3. QED
        BY <4>2, HistoryGrows
    <3>3. QED
      BY <3>1, <3>2
  <2>4. QED
    BY <2>1, <2>2, <2>3 DEF SessionIsHuman
<1>3. Spec => []Inv
  BY <1>1, <1>2, PTL DEF Spec
<1>4. QED
  BY <1>3, PTL
-----------------------------------------------------------------------------
(* A task comes to its end: what of WorkEnds needs no fairness. *)

\* How many more calls, at most, a task makes from one on.
CallsLeft(label) ==
  CASE label = "done" -> 0
    [] label \in {"update_row", "skip_bot", "track_only", "update_session", "error_status"} -> 1
    [] label \in {"find_row", "final_status"} -> 2
    [] label \in {"complete_session", "exhaust_session", "run_agent"} -> 3
    [] label = "mark_working" -> 4
    [] label = "set_max" -> 5
    [] label = "create_session" -> 6
    [] label = "find_session" -> 7
    [] label = "event_status" -> 8
    [] label = "is_completed" -> 9
    [] label = "resolve_target" -> 10
    [] label = "match_author" -> 11
    [] label = "is_duplicate" -> 12

\* A live task is moved only onward, and each of its own steps moves it.
OnlyOnward ==
  \A t \in Task :
    /\ Live(t) => pc'[t] = pc[t] \/ CallsLeft(pc'[t]) < CallsLeft(pc[t])
    /\ Handle(t) => CallsLeft(pc'[t]) < CallsLeft(pc[t])

\* A step of a task leaves it fewer calls to make.
LEMMA FewerCalls ==
  ASSUME TypeInv, NEW t \in Task, Handle(t)
  PROVE  CallsLeft(pc'[t]) < CallsLeft(pc[t])
<1>t. pc \in [Task -> PC] /\ TaskOK(t)
  BY DEF TypeInv, TypeOK, TasksOK
<1>g. \A label : Goto(t, label) => pc'[t] = label
  BY <1>t DEF Goto
<1>e. Return(t) \/ Finally(t) => pc'[t] = "done"
  BY <1>g DEF Return, Finally
<1> USE DEF CallsLeft
<1>1. CASE CheckDuplicate(t) \/ TreatAsHuman(t) \/ MatchNothing(t)
  <2>1. \/ pc[t] = "is_duplicate" /\ pc'[t] \in {"match_author", "done"}
        \/ pc[t] = "match_author" /\ pc'[t] \in {"is_completed", "skip_bot"}
    BY <1>1, <1>g, <1>e DEF CheckDuplicate, TreatAsHuman, MatchNothing
  <2>2. QED
    BY <2>1
<1>2. ASSUME NEW s \in Commit, MatchSession(t, s)
      PROVE  CallsLeft(pc'[t]) < CallsLeft(pc[t])
  <2>1. /\ pc[t] = "match_author"
        /\ pc'[t] \in {"complete_session", "exhaust_session", "resolve_target", "find_row"}
    BY <1>2, <1>g DEF MatchSession
  <2>2. QED
    BY <2>1
<1>3. CASE CloseSession(t) \/ FindRow(t) \/ UpdateRow(t) \/ RecordSkippedBot(t)
  BY <1>3, <1>g, <1>e DEF CloseSession, FindRow, UpdateRow, RecordSkippedBot
<1>4. CASE ResolveTarget(t) \/ CheckRerun(t) \/ TrackOnly(t) \/ WriteEventStatus(t)
  <2>1. \/ pc[t] = "resolve_target" /\ pc'[t] = "is_completed"
        \/ pc[t] = "is_completed" /\ pc'[t] \in {"track_only", "event_status"}
        \/ pc[t] = "track_only" /\ pc'[t] = "done"
        \/ pc[t] = "event_status" /\ pc'[t] \in {"mark_working", "find_session", "done"}
    BY <1>4, <1>g, <1>e DEF ResolveTarget, CheckRerun, TrackOnly, WriteEventStatus
  <2>2. QED
    BY <2>1
<1>5. CASE FindSession(t) \/ CreateSession(t) \/ SetMaxAttempts(t) \/ MarkWorking(t)
  <2>1. \/ pc[t] = "find_session" /\ pc'[t] \in {"create_session", "mark_working"}
        \/ pc[t] = "create_session" /\ pc'[t] \in {"set_max", "mark_working"}
        \/ pc[t] = "set_max" /\ pc'[t] = "mark_working"
        \/ pc[t] = "mark_working" /\ pc'[t] = "run_agent"
    BY <1>5, <1>g DEF FindSession, CreateSession, SetMaxAttempts, MarkWorking
  <2>2. QED
    BY <2>1
<1>6. CASE AgentPushes(t) \/ AgentLosesPush(t) \/ AgentGivesUp(t) \/ AgentRaises(t)
  BY <1>6, <1>g DEF AgentPushes, AgentLosesPush, AgentGivesUp, AgentRaises
<1>7. CASE WriteFinalStatus(t) \/ UpdateSession(t) \/ WriteErrorStatus(t)
  BY <1>7, <1>g, <1>e DEF WriteFinalStatus, UpdateSession, WriteErrorStatus
<1>8. QED
  BY <1>1, <1>2, <1>3, <1>4, <1>5, <1>6, <1>7 DEF Handle

\* Whatever else happens, a task of dispatch_webhook_event is never set back:
\* handle_webhook_event has no loop, so that it returns after a dozen calls if
\* each of them does.  With fairness of the event loop that is WorkEnds.
THEOREM TasksRunOut == Spec => [][OnlyOnward]_vars
<1>1. TypeInv /\ KnownSessions /\ [Next]_vars => OnlyOnward \/ UNCHANGED vars
  <2> SUFFICES ASSUME TypeInv, Next  PROVE OnlyOnward
    OBVIOUS
  <2>t. TypeOK /\ pc \in [Task -> PC]
    BY DEF TypeInv, TypeOK, TasksOK
  <2>1. ASSUME NEW t \in Task, Handle(t)
        PROVE  CallsLeft(pc'[t]) < CallsLeft(pc[t])
    BY <2>1, FewerCalls
  <2>2. ASSUME NEW t \in Task, Live(t)
        PROVE  pc'[t] = pc[t] \/ CallsLeft(pc'[t]) < CallsLeft(pc[t])
    <3>1. CASE Provider
      BY <3>1 DEF Provider, HumanPush, Rerun, RunConcludes
    <3>2. CASE Server
      BY <2>2, <2>t, <3>2 DEF Server, Dispatch, DispatchDropped, Live
    <3>3. CASE Crash
      <4>1. pc'[t] = "done" /\ pc[t] \in PC
        BY <2>t, <3>3 DEF Crash
      <4>2. QED
        BY <2>2, <4>1 DEF Live, PC, PcAgent, CallsLeft
    <3>4. ASSUME NEW u \in Task, Handle(u)
          PROVE  pc'[t] = pc[t] \/ CallsLeft(pc'[t]) < CallsLeft(pc[t])
      BY <2>1, <2>t, <3>4, OthersKeep
    <3>5. QED
      BY <3>1, <3>2, <3>3, <3>4 DEF Next
  <2>3. QED
    BY <2>1, <2>2 DEF OnlyOnward
<1>2. Init => TypeInv /\ KnownSessions
  BY TypeInit, KnownInit
<1>3. TypeInv /\ KnownSessions /\ [Next]_vars => (TypeInv /\ KnownSessions)'
  BY TypeStep, KnownStep
<1>4. QED
  BY <1>1, <1>2, <1>3, PTL DEF Spec
=============================================================================
