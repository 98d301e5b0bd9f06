------------------------- MODULE DashboardTheorems -------------------------
(***************************************************************************)
(* Proofs that the dashboard's writes to the table of runs leave the retry *)
(* loop's promises standing, for any number of requests at any moment.     *)
(* What the handler's own steps preserve is taken from HandlerTheorems and *)
(* SessionTheorems.                                                        *)
(***************************************************************************)
EXTENDS Dashboard, SessionTheorems

-----------------------------------------------------------------------------
(* The invariant *)

\* What a task reports is about a run of its own session, and "success" is
\* never said of a run but the one the webhook is about.
ReportsOwn(t) ==
  /\ pc[t] \in {"done", "is_duplicate", "match_author", "skip_bot", "find_session",
               "create_session"} => sid[t] = NoSession
  /\ pc[t] \in HoldsTarget /\ sid[t] = NoSession => tgt[t] = ev[t].key
  /\ pc[t] \in HoldsTarget /\ sid[t] # NoSession => tgt[t].sha = sid[t]
  /\ pc[t] \in {"resolve_target", "is_completed", "event_status"} /\ sid[t] # NoSession =>
       EventStatus(ev[t]) # "success"
  /\ pc[t] \in {"find_row", "update_row"} => out[t] # "success"

\* A listing, however old, tells the truth about the runs that succeeded.
ListingIsTrue == \A entry \in listing : entry.status = "success" => ci[entry.key] = "success"

LoopInv ==
  /\ TypeInv /\ KnownSessions /\ FreshCommits /\ TruthfulEvents /\ FixesArePushed
  /\ PassedIsGreen /\ Lineage /\ PassedSessionIsGreen /\ WorkingHasWorker

DashboardInv ==
  /\ LoopInv /\ DashboardTypeOK
  /\ ListingIsTrue /\ SuccessIsTrue /\ OneRowLifecycle
  /\ \A t \in Task : ReportsOwn(t)

-----------------------------------------------------------------------------
(* Events and rows *)

\* The status of an event says success only if CI did.
LEMMA SuccessStatus ==
  ASSUME NEW e \in Event, EventStatus(e) = "success"
  PROVE  e.phase = "success" /\ BotTerminalStatus(e) = "success"
<1>1. e.phase \in Phase
  BY DEF Event
<1>2. e.phase = "success"
  BY <1>1, PayloadCases DEF EventStatus, Triple, Terminal
<1>3. BotTerminalStatus(e) = "success"
  BY DEF BotTerminalStatus, EventStatus
<1>4. QED
  BY <1>2, <1>3

\* Writing a status does not take a row from its session; only UpdateStatus
\* gives it to one.
LEMMA RowSessions ==
  ASSUME TypeInv, NEW k \in RunKey, NEW j \in RunKey, NEW status \in RowStatus,
         NEW s \in Commit \cup {NoSession}
  PROVE  /\ Record(j, status) => runs'[k].session = runs[k].session
         /\ Record(j, status) /\ k # j => runs'[k] = runs[k]
         /\ UpdateStatus(j, status, s) =>
              \/ runs'[k].session = runs[k].session
              \/ k = j /\ runs'[k].session = s
BY DEF TypeInv, TypeOK, TablesOK, Record, UpdateStatus, Row

\* The rows of a session are runs of its commit.
LEMMA LifecycleRowsOwn ==
  ASSUME OneRowLifecycle, NEW s \in Commit, NEW k \in LifecycleRows(s)
  PROVE  k \in RunKey /\ k.sha = s
BY DEF OneRowLifecycle, LifecycleRows, NoSession, Commit

-----------------------------------------------------------------------------
(* Steps of the handler *)

\* A task that returns or ends reports nothing.
LEMMA EndReports ==
  ASSUME TypeInv, NEW t \in Task, Return(t) \/ Finally(t)
  PROVE  ReportsOwn(t)'
<1>1. pc'[t] = "done" /\ sid'[t] = NoSession
  BY DEF Return, Finally, ForgetLocals, Goto, TypeInv, TypeOK, TasksOK, LocalsOK
<1>2. QED
  BY <1>1 DEF ReportsOwn, HoldsTarget, PcAgent

\* A step of a task leaves its reports about its own session.
LEMMA HandleReports ==
  ASSUME TypeInv, OneRowLifecycle, NEW t \in Task, Handle(t), ReportsOwn(t)
  PROVE  ReportsOwn(t)'
<1> USE DEF locals
<1>t. TypeOK /\ TasksOK /\ LocalsOK /\ TaskOK(t)
  BY DEF TypeInv, TypeOK, TasksOK
<1>end. Return(t) \/ Finally(t) => ReportsOwn(t)'
  BY EndReports
<1>goto. \A label : Goto(t, label) => pc'[t] = label
  BY <1>t DEF Goto, TasksOK
<1>1. CASE CheckDuplicate(t)
  BY <1>1, <1>end, <1>goto DEF CheckDuplicate, ReportsOwn, HoldsTarget, PcAgent
<1>2. CASE TreatAsHuman(t)
  BY <1>2, <1>t, <1>goto DEF TreatAsHuman, LocalsOK, ReportsOwn, HoldsTarget, PcAgent
<1>3. CASE MatchNothing(t)
  BY <1>3, <1>goto DEF MatchNothing, ReportsOwn, HoldsTarget, PcAgent
<1>4. ASSUME NEW s \in Commit, MatchSession(t, s)
      PROVE  ReportsOwn(t)'
  <2>1. ev[t] \in Event
    BY <1>4, <1>t DEF MatchSession, TaskOK
  <2>2. BotTerminalStatus(ev[t]) # "success" => EventStatus(ev[t]) # "success"
    BY <2>1, SuccessStatus
  <2>3. /\ ev'[t] = ev[t]
        /\ \/ pc'[t] \in {"complete_session", "exhaust_session"}
           \/ pc'[t] = "resolve_target" /\ BotTerminalStatus(ev[t]) = "failure"
           \/ /\ pc'[t] = "find_row" /\ BotTerminalStatus(ev[t]) = "none"
              /\ out'[t] = EventStatus(ev[t])
    BY <1>4, <1>t, <1>goto DEF MatchSession, LocalsOK
  <2>4. QED
    BY <2>2, <2>3 DEF ReportsOwn, HoldsTarget, PcAgent
<1>5. CASE CloseSession(t)
  BY <1>5, <1>t, <1>goto DEF CloseSession, TaskOK, ReportsOwn, HoldsTarget, PcAgent
<1>6. CASE FindRow(t)
  <2>1. ASSUME ~Return(t)
        PROVE  \E k \in LifecycleRows(sid[t]) : tgt'[t] = k
    BY <1>6, <2>1, <1>t DEF FindRow, LocalsOK
  <2>2. sid[t] \in Commit
    BY <1>6, <1>t DEF FindRow, TaskOK, HoldsSession
  <2>3. ~Return(t) => tgt'[t].sha = sid[t]
    BY <2>1, <2>2, LifecycleRowsOwn
  <2>4. QED
    BY <1>6, <2>2, <2>3, <1>end, <1>goto DEF FindRow, ReportsOwn, HoldsTarget, PcAgent, Commit, NoSession
<1>7. CASE ResolveTarget(t)
  <2>1. sid[t] \in Commit
    BY <1>7, <1>t DEF ResolveTarget, TaskOK, HoldsSession
  <2>2. \/ \E k \in LifecycleRows(sid[t]) : tgt'[t] = k
        \/ tgt'[t] = [sha |-> sid[t], wf |-> sessions[sid[t]].trigger, att |-> 1]
    BY <1>7, <1>t DEF ResolveTarget, LocalsOK
  <2>3. tgt'[t].sha = sid[t]
    BY <2>1, <2>2, LifecycleRowsOwn
  <2>4. QED
    BY <1>7, <2>1, <2>3, <1>goto DEF ResolveTarget, ReportsOwn, HoldsTarget, PcAgent, Commit, NoSession
<1>8. CASE CheckRerun(t)
  BY <1>8, <1>goto DEF CheckRerun, ReportsOwn, HoldsTarget, PcAgent
<1>9. CASE WriteEventStatus(t)
  BY <1>9, <1>end, <1>goto DEF WriteEventStatus, ReportsOwn, HoldsTarget, PcAgent
<1>10. CASE FindSession(t)
  <2>1. /\ ev'[t] = ev[t] /\ tgt'[t] = tgt[t] /\ tgt[t] = ev[t].key
        /\ \/ pc'[t] = "create_session" /\ sid'[t] = NoSession
           \/ pc'[t] = "mark_working" /\ sid'[t] = ev[t].key.sha
    BY <1>10, <1>t, <1>goto DEF FindSession, LocalsOK, ReportsOwn, HoldsTarget
  <2>2. QED
    BY <2>1 DEF ReportsOwn, HoldsTarget, PcAgent
<1>11. CASE CreateSession(t)
  <2>1. /\ ev'[t] = ev[t] /\ tgt'[t] = tgt[t] /\ tgt[t] = ev[t].key
        /\ pc'[t] \in {"set_max", "mark_working"}
        /\ sid'[t] \in {NoSession, ev[t].key.sha}
    BY <1>11, <1>t, <1>goto DEF CreateSession, LocalsOK, ReportsOwn, HoldsTarget
  <2>2. QED
    BY <2>1 DEF ReportsOwn, HoldsTarget, PcAgent
<1>12. CASE SetMaxAttempts(t) \/ MarkWorking(t)
  BY <1>12, <1>goto DEF SetMaxAttempts, MarkWorking, ReportsOwn, HoldsTarget, PcAgent
<1>13. CASE AgentPushes(t) \/ AgentLosesPush(t) \/ AgentGivesUp(t) \/ AgentRaises(t)
  BY <1>13, <1>goto DEF AgentPushes, AgentLosesPush, AgentGivesUp, AgentRaises, ReportsOwn,
     HoldsTarget, PcAgent
<1>14. CASE WriteFinalStatus(t)
  BY <1>14, <1>end, <1>goto DEF WriteFinalStatus, ReportsOwn, HoldsTarget, PcAgent
<1>15. QED
  BY <1>1, <1>2, <1>3, <1>4, <1>5, <1>6, <1>7, <1>8, <1>9, <1>10, <1>11, <1>12, <1>13, <1>14, <1>end
     DEF Handle, UpdateRow, RecordSkippedBot, TrackOnly, UpdateSession, WriteErrorStatus

\* So does every step of the handler's world.
LEMMA ReportsStep ==
  ASSUME TypeInv, OneRowLifecycle, [Next]_vars, \A t \in Task : ReportsOwn(t)
  PROVE  \A t \in Task : ReportsOwn(t)'
<1> SUFFICES ASSUME NEW t \in Task  PROVE ReportsOwn(t)'
  OBVIOUS
<1>t. TypeOK /\ TasksOK /\ LocalsOK
  BY DEF TypeInv, TypeOK, TasksOK
<1>same. pc'[t] = pc[t] /\ ev'[t] = ev[t] /\ sid'[t] = sid[t] /\ tgt'[t] = tgt[t] /\ out'[t] = out[t]
           => ReportsOwn(t)'
  BY DEF ReportsOwn
<1>1. CASE Provider \/ UNCHANGED vars
  BY <1>1, <1>same DEF Provider, HumanPush, Rerun, RunConcludes, vars, locals
<1>2. CASE Server
  <2>1. ASSUME NEW e \in Event, DispatchDropped(e)
        PROVE  ReportsOwn(t)'
    BY <2>1, <1>same DEF DispatchDropped, locals
  <2>2. ASSUME NEW e \in Event, NEW u \in Task, Dispatch(u, e), u # t
        PROVE  ReportsOwn(t)'
    BY <2>2, <1>same, <1>t DEF Dispatch, TasksOK, LocalsOK
  <2>3. ASSUME NEW e \in Event, Dispatch(t, e)
        PROVE  ReportsOwn(t)'
    <3>1. pc'[t] = "is_duplicate" /\ sid'[t] = NoSession
      BY <2>3, <1>t DEF Dispatch, Live, TasksOK, ReportsOwn
    <3>2. QED
      BY <3>1 DEF ReportsOwn, HoldsTarget, PcAgent
  <2>4. QED
    BY <1>2, <2>1, <2>2, <2>3 DEF Server
<1>3. CASE Crash
  <2>1. pc'[t] = "done" /\ sid'[t] = NoSession
    BY <1>3 DEF Crash
  <2>2. QED
    BY <2>1 DEF ReportsOwn, HoldsTarget, PcAgent
<1>4. ASSUME NEW u \in Task, Handle(u)
      PROVE  ReportsOwn(t)'
  <2>1. CASE u # t
    BY <1>4, <2>1, <1>t, <1>same, OthersKeep
  <2>2. QED
    BY <1>4, <2>1, HandleReports
<1>5. QED
  BY <1>1, <1>2, <1>3, <1>4 DEF Next

\* A row comes to say success only by an event of that run that does.
LEMMA SuccessWriters ==
  ASSUME TypeInv, [Next]_vars, \A t \in Task : ReportsOwn(t), NEW k \in RunKey,
         runs'[k].status = "success", runs[k].status # "success"
  PROVE  \E t \in Task : /\ pc[t] # "done" /\ ev[t].key = k
                        /\ EventStatus(ev[t]) = "success"
<1>t. TypeOK /\ TasksOK /\ LocalsOK /\ \A t \in Task : sid[t] \in Commit \cup {NoSession}
  BY DEF TypeInv, TypeOK, TasksOK, LocalsOK
<1>1. ASSUME NEW t \in Task, ev[t] \in Event, pc[t] # "done", Record(ev[t].key, EventStatus(ev[t]))
      PROVE  ev[t].key = k /\ EventStatus(ev[t]) = "success"
  <2>1. ev[t].key \in RunKey /\ EventStatus(ev[t]) \in RowStatus
    BY <1>1, EventStatusType DEF Event, RowStatus
  <2>2. QED
    BY <1>1, <2>1, RowChange, RowSessions DEF NoSession
<1>2. ASSUME NEW t \in Task, NEW status \in RowStatus \ {"success"}, tgt[t] \in RunKey,
             UpdateStatus(tgt[t], status, sid[t])
      PROVE  FALSE
  BY <1>2, <1>t, RowChange
<1>3. ASSUME NEW t \in Task, RecordSkippedBot(t)
      PROVE  FALSE
  <2>1. ev[t].key \in RunKey
    BY <1>3 DEF RecordSkippedBot, TypeInv, TaskOK, Event
  <2>2. QED
    BY <1>3, <2>1, RowChange DEF RecordSkippedBot, RowStatus, NoSession
<1>4. ASSUME NEW t \in Task, TrackOnly(t) \/ WriteEventStatus(t)
      PROVE  ev[t].key = k /\ EventStatus(ev[t]) = "success" /\ pc[t] # "done"
  <2>1. ev[t] \in Event /\ tgt[t] \in RunKey /\ pc[t] # "done"
    BY <1>4 DEF TrackOnly, WriteEventStatus, TypeInv, TaskOK, HoldsTarget
  <2>2. CASE Record(ev[t].key, EventStatus(ev[t]))
    BY <2>1, <2>2, <1>1
  <2>3. CASE sid[t] # NoSession /\ pc[t] = "event_status" /\ UpdateStatus(tgt[t], EventStatus(ev[t]), sid[t])
    <3>1. EventStatus(ev[t]) # "success"
      BY <2>3 DEF ReportsOwn
    <3>2. EventStatus(ev[t]) \in RowStatus
      BY <2>1, EventStatusType DEF RowStatus
    <3>3. QED
      BY <2>1, <2>3, <3>1, <3>2, <1>2
  <2>4. QED
    BY <1>4, <2>2, <2>3 DEF TrackOnly, WriteEventStatus
<1>5. ASSUME NEW t \in Task, UpdateRow(t) \/ MarkWorking(t) \/ WriteFinalStatus(t) \/ WriteErrorStatus(t)
      PROVE  FALSE
  <2>1. tgt[t] \in RunKey
    BY <1>5 DEF UpdateRow, MarkWorking, WriteFinalStatus, WriteErrorStatus, TypeInv, TaskOK,
       HoldsTarget, PcAgent
  <2>2. \E status \in EventRowStatus \cup {"PASSED", "EXHAUSTED", "AGENT_WORKING", "FIX_PUSHED",
                                          "CANNOT_FIX", "error"} :
          status # "success" /\ UpdateStatus(tgt[t], status, sid[t])
    BY <1>5 DEF UpdateRow, MarkWorking, WriteFinalStatus, WriteErrorStatus, TypeInv, TaskOK, ReportsOwn
  <2>3. QED
    BY <2>1, <2>2, <1>2 DEF RowStatus
<1>6. ASSUME NEW t \in Task, Handle(t)
      PROVE  \/ UNCHANGED runs
             \/ RecordSkippedBot(t) \/ TrackOnly(t) \/ WriteEventStatus(t)
             \/ UpdateRow(t) \/ MarkWorking(t) \/ WriteFinalStatus(t) \/ WriteErrorStatus(t)
  BY <1>6 DEF Handle, CheckDuplicate, TreatAsHuman, MatchNothing, MatchSession, CloseSession, FindRow,
     ResolveTarget, CheckRerun, FindSession, CreateSession, SetMaxAttempts, AgentPushes, AgentLosesPush,
     AgentGivesUp, AgentRaises, UpdateSession
<1>7. CASE Provider \/ Server \/ Crash \/ UNCHANGED vars
  BY <1>7 DEF Provider, Server, HumanPush, Rerun, RunConcludes, Dispatch, DispatchDropped, Crash, vars
<1>8. QED
  BY <1>3, <1>4, <1>5, <1>6, <1>7 DEF Next

\* Every step of the handler's world keeps the rows that say success true.
LEMMA SuccessStep ==
  ASSUME TypeInv, FreshCommits, TruthfulEvents, SuccessIsTrue, [Next]_vars,
         \A t \in Task : ReportsOwn(t)
  PROVE  SuccessIsTrue'
<1> SUFFICES ASSUME NEW k \in RunKey, runs'[k].status = "success"
             PROVE  ci'[k] = "success"
  BY DEF SuccessIsTrue
<1>1. CASE runs[k].status = "success"
  BY <1>1, HistoryGrows DEF SuccessIsTrue, Terminal
<1>2. CASE runs[k].status # "success"
  <2>1. PICK t \in Task : pc[t] # "done" /\ ev[t].key = k /\ EventStatus(ev[t]) = "success"
    BY <1>2, SuccessWriters
  <2>2. ev[t].phase = "success"
    BY <2>1, SuccessStatus DEF TypeInv, TaskOK
  <2>3. QED
    BY <2>1, <2>2, HistoryGrows DEF TruthfulEvents, Terminal
<1>3. QED
  BY <1>1, <1>2

\* Every step of the handler's world keeps rows with sessions of their commit.
LEMMA LifecycleStep ==
  ASSUME TypeInv, KnownSessions, OneRowLifecycle, [Next]_vars, \A t \in Task : ReportsOwn(t)
  PROVE  OneRowLifecycle'
<1> SUFFICES ASSUME NEW k \in RunKey, runs'[k].session # NoSession
             PROVE  /\ runs'[k].session = k.sha
                    /\ sessions'[runs'[k].session].status # "absent"
  BY DEF OneRowLifecycle
<1>t. TablesOK /\ \A t \in Task : sid[t] \in Commit \cup {NoSession}
  BY DEF TypeInv, TypeOK, TasksOK, LocalsOK
<1>key. k.sha \in Commit
  BY DEF RunKey
<1>1. CASE runs'[k].session = runs[k].session
  <2>1. runs[k].session = k.sha /\ sessions[k.sha].status # "absent"
    BY <1>1 DEF OneRowLifecycle
  <2>2. QED
    BY <1>1, <1>key, <2>1, SessionsKeep
<1>2. ASSUME NEW t \in Task, pc[t] \in HoldsTarget, NEW status \in RowStatus,
             UpdateStatus(tgt[t], status, sid[t]), runs'[k].session # runs[k].session
      PROVE  runs'[k].session = k.sha /\ sessions'[k.sha].status # "absent"
  <2>1. tgt[t] \in RunKey
    BY <1>2 DEF TypeInv, TaskOK
  <2>2. k = tgt[t] /\ runs'[k].session = sid[t]
    BY <1>2, <2>1, <1>t, RowSessions
  <2>3. sid[t] = k.sha /\ sessions[sid[t]].status # "absent"
    BY <1>2, <2>2 DEF ReportsOwn, KnownSessions
  <2>4. QED
    BY <2>2, <2>3, <1>key, SessionsKeep
<1>3. ASSUME NEW t \in Task, NEW status \in EventRowStatus \cup {"skipped_bot"}, ev[t].key \in RunKey,
             Record(ev[t].key, status)
      PROVE  runs'[k].session = runs[k].session
  BY <1>3, RowSessions DEF RowStatus, NoSession
<1>4. ASSUME NEW t \in Task, UpdateRow(t) \/ MarkWorking(t) \/ WriteFinalStatus(t) \/ WriteErrorStatus(t)
      PROVE  \E status \in RowStatus : pc[t] \in HoldsTarget /\ UpdateStatus(tgt[t], status, sid[t])
  BY <1>4 DEF UpdateRow, MarkWorking, WriteFinalStatus, WriteErrorStatus, TypeInv, TaskOK, HoldsTarget,
     PcAgent, RowStatus
<1>5. ASSUME NEW t \in Task, NEW status \in EventRowStatus, pc[t] = "event_status",
             UpdateStatus(tgt[t], status, sid[t])
      PROVE  \E written \in RowStatus : pc[t] \in HoldsTarget /\ UpdateStatus(tgt[t], written, sid[t])
  BY <1>5 DEF HoldsTarget, RowStatus
<1>6. QED
  BY <1>1, <1>2, <1>3, <1>4, <1>5, RowWriters

\* Every step of the handler's world keeps PASSED sessions backed by a green run.
LEMMA PassedSessionStep ==
  ASSUME TypeInv, KnownSessions, FreshCommits, PassedIsGreen, PassedSessionIsGreen, [Next]_vars
  PROVE  PassedSessionIsGreen'
<1> SUFFICES ASSUME NEW s \in Commit, sessions'[s].status = "PASSED"
             PROVE  (\E c \in PushedBy(s) : CiGreen(c))'
  BY DEF PassedSessionIsGreen
<1>1. \E c \in PushedBy(s) : CiGreen(c)
  BY PassedSessions DEF PassedSessionIsGreen, PassedIsGreen
<1>2. QED
  BY <1>1, GreenStays

-----------------------------------------------------------------------------
(* Steps of the dashboard *)

\* The variables no request touches.
Untouched == UNCHANGED <<sessions, world, guard, pc, locals>>

\* What the provider lists of a run is true of it.
LEMMA ListedTruth ==
  ASSUME TypeInv, NEW k \in RunKey, Latest(k), ci[k] # "cancelled"
  PROVE  Listed(k) \in Entry /\ Listed(k).key = k /\ (Listed(k).status = "success" => ci[k] = "success")
<1>1. ci[k] \in {"running", "success", "failure"}
  BY DEF TypeInv, TypeOK, WorldOK, CiState, Terminal, Latest
<1>2. QED
  BY <1>1 DEF Listed, Entry

\* What a request makes of a row.
LEMMA RequestRows ==
  ASSUME TypeInv, DashboardTypeOK, Requests
  PROVE  /\ Untouched
         /\ runs' \in [RunKey -> Row]
         /\ \A k \in RunKey :
              \/ runs'[k] \in {runs[k], NoRow}
              \/ /\ runs'[k].session = runs[k].session
                 /\ runs'[k].status \in {"in_progress", "failure", "processing", "PASSED"}
              \/ /\ runs'[k].session = runs[k].session
                 /\ runs'[k].status = "success" /\ [key |-> k, status |-> "success"] \in listing
<1> DEFINE Goal ==
      /\ runs' \in [RunKey -> Row]
      /\ \A k \in RunKey :
           \/ runs'[k] \in {runs[k], NoRow}
           \/ /\ runs'[k].session = runs[k].session
              /\ runs'[k].status \in {"in_progress", "failure", "processing", "PASSED"}
           \/ /\ runs'[k].session = runs[k].session
              /\ runs'[k].status = "success" /\ [key |-> k, status |-> "success"] \in listing
<1>t. TablesOK
  BY DEF TypeInv, TypeOK
<1>1. CASE FetchHistory \/ SeedFails
  BY <1>1, <1>t DEF FetchHistory, SeedFails, Untouched, TablesOK, vars, world, locals
<1>2. ASSUME NEW entry \in listing, SeedRow(entry)
      PROVE  Untouched /\ Goal
  <2>1. /\ entry.key \in RunKey /\ entry.status \in {"in_progress", "success", "failure"}
        /\ entry = [key |-> entry.key, status |-> entry.status]
    BY DEF DashboardTypeOK, Entry
  <2>2. Record(entry.key, entry.status) /\ entry.status \in RowStatus
    BY <1>2, <2>1 DEF SeedRow, RowStatus, EventRowStatus
  <2>3. runs' \in [RunKey -> Row]
    BY <1>t, <2>1, <2>2, TableTypes
  <2>4. ASSUME NEW k \in RunKey
        PROVE  \/ runs'[k] = runs[k]
               \/ /\ runs'[k].session = runs[k].session
                  /\ k = entry.key /\ runs'[k].status = entry.status
    BY <2>1, <2>2, RowSessions, RowChange DEF NoSession
  <2>5. QED
    BY <1>2, <2>1, <2>3, <2>4 DEF SeedRow, Untouched
<1>3. ASSUME NEW K \in SUBSET RunKey, Evict(K)
      PROVE  Untouched /\ Goal
  <2>1. NoRow \in Row
    BY DEF NoRow, Row, NoSession
  <2>2. QED
    BY <1>3, <1>t, <2>1 DEF Evict, Untouched, TablesOK
<1>4. ASSUME NEW j \in RunKey, StartTestRun(j)
      PROVE  Untouched /\ Goal
  <2>1. Record(j, "processing") /\ "processing" \in RowStatus
    BY <1>4 DEF StartTestRun, RowStatus
  <2>2. runs' \in [RunKey -> Row]
    BY <1>t, <2>1, TableTypes
  <2>3. ASSUME NEW k \in RunKey
        PROVE  \/ runs'[k] = runs[k]
               \/ runs'[k].session = runs[k].session /\ runs'[k].status = "processing"
    BY <2>1, RowSessions, RowChange DEF NoSession
  <2>4. QED
    BY <1>4, <2>2, <2>3 DEF StartTestRun, Untouched
<1>5. ASSUME NEW j \in RunKey, FinishTestRun(j)
      PROVE  Untouched /\ Goal
  <2>1. UpdateStatus(j, "PASSED", NoSession) /\ "PASSED" \in RowStatus
    BY <1>5 DEF FinishTestRun, RowStatus
  <2>2. runs' \in [RunKey -> Row]
    BY <1>t, <2>1, TableTypes
  <2>3. ASSUME NEW k \in RunKey
        PROVE  \/ runs'[k] = runs[k]
               \/ runs'[k].session = runs[k].session /\ runs'[k].status = "PASSED"
    BY <2>1, <1>t DEF UpdateStatus, TablesOK, Row
  <2>4. QED
    BY <1>5, <2>2, <2>3 DEF FinishTestRun, Untouched
<1>6. QED
  <2>1. \A k \in RunKey : {k} \in SUBSET RunKey
    OBVIOUS
  <2>2. RunKey \in SUBSET RunKey
    OBVIOUS
  <2>3. QED
    BY <1>1, <1>2, <1>3, <1>4, <1>5, <2>1, <2>2 DEF Requests, ClearHistory

\* What a step is: one of the handler's world, which at most drops the
\* requests under way, or a request.
LEMMA StepKinds ==
  ASSUME [DashboardNext]_<<vars, dash>>
  PROVE  \/ /\ [Next]_vars /\ visits' = visits
            /\ listing' \in {listing, {}} /\ tests' \in {tests, {}}
         \/ Requests
BY DEF DashboardNext, Next, Restart, dash

\* Every request keeps the invariant.
LEMMA RequestStep ==
  ASSUME DashboardInv, Requests
  PROVE  DashboardInv'
<1> USE DEF Untouched, world, locals
<1>t. TypeInv /\ DashboardTypeOK /\ TypeOK /\ TablesOK
  BY DEF DashboardInv, LoopInv, TypeInv, TypeOK
<1>r. /\ Untouched
      /\ runs' \in [RunKey -> Row]
      /\ \A k \in RunKey :
           \/ runs'[k] \in {runs[k], NoRow}
           \/ /\ runs'[k].session = runs[k].session
              /\ runs'[k].status \in {"in_progress", "failure", "processing", "PASSED"}
           \/ /\ runs'[k].session = runs[k].session
              /\ runs'[k].status = "success" /\ [key |-> k, status |-> "success"] \in listing
  BY <1>t, RequestRows
<1>n. NoRow.status = "absent" /\ NoRow.session = NoSession
  BY DEF NoRow
<1>1. TypeInv'
  <2>1. TypeOK'
    BY <1>t, <1>r DEF TypeOK, TablesOK, WorldOK, TasksOK, LocalsOK
  <2>2. \A t \in Task : TaskOK(t)'
    BY <1>t, <1>r DEF TypeInv, TaskOK
  <2>3. QED
    BY <2>1, <2>2 DEF TypeInv
<1>2. (KnownSessions /\ FreshCommits /\ TruthfulEvents /\ FixesArePushed /\ PassedIsGreen /\ Lineage
         /\ PassedSessionIsGreen)'
  <2>1. /\ KnownSessions /\ FreshCommits /\ TruthfulEvents /\ FixesArePushed /\ PassedIsGreen
        /\ Lineage /\ PassedSessionIsGreen
    BY DEF DashboardInv, LoopInv
  <2>2. QED
    BY <2>1, <1>r DEF KnownSessions, FreshCommits, TruthfulEvents, FixesArePushed, PassedIsGreen,
       Lineage, PassedSessionIsGreen, PushedBy, CiGreen
<1>3. WorkingHasWorker'
  <2>1. \A k \in RunKey : runs'[k].status = "AGENT_WORKING" => runs[k].status = "AGENT_WORKING"
    <3>1. SUFFICES ASSUME NEW k \in RunKey, runs'[k].status = "AGENT_WORKING",
                          runs[k].status # "AGENT_WORKING"
                   PROVE  FALSE
      OBVIOUS
    <3>2. QED
      BY <1>r, <1>n, <3>1
  <2>2. WorkingHasWorker
    BY DEF DashboardInv, LoopInv
  <2>3. QED
    BY <2>1, <2>2, <1>r DEF WorkingHasWorker, WorksOn
<1>4. DashboardTypeOK' /\ ListingIsTrue'
  <2>1. TypeOK'
    BY <1>1 DEF TypeInv
  <2>2. CASE FetchHistory
    BY <2>1, <2>2, <1>t, <1>r, ListedTruth
       DEF FetchHistory, Visit, DashboardTypeOK, ListingIsTrue
  <2>3. CASE listing' \subseteq listing
    <3>1. ListingIsTrue'
      BY <2>3, <1>r DEF DashboardInv, ListingIsTrue
    <3>2. tests' \subseteq RunKey /\ visits' \in Nat
      BY <1>t DEF Requests, FetchHistory, SeedRow, SeedFails, Evict, ClearHistory, StartTestRun,
         FinishTestRun, Visit, DashboardTypeOK
    <3>3. QED
      BY <2>1, <2>3, <3>1, <3>2, <1>t DEF DashboardTypeOK
  <2>4. QED
    BY <2>2, <2>3 DEF Requests, SeedRow, SeedFails, Evict, ClearHistory, StartTestRun, FinishTestRun
<1>5. SuccessIsTrue' /\ OneRowLifecycle'
  <2>1. SuccessIsTrue /\ OneRowLifecycle /\ ListingIsTrue
    BY DEF DashboardInv
  <2>2. ASSUME NEW k \in RunKey, runs'[k].status = "success"
        PROVE  ci'[k] = "success"
    <3>1. CASE [key |-> k, status |-> "success"] \in listing
      BY <2>1, <3>1, <1>r DEF ListingIsTrue, world
    <3>2. CASE runs'[k] = runs[k]
      BY <2>1, <2>2, <3>2, <1>r DEF SuccessIsTrue
    <3>3. QED
      BY <2>2, <3>1, <3>2, <1>r, <1>n
  <2>3. ASSUME NEW k \in RunKey
        PROVE  runs'[k].session = runs[k].session \/ runs'[k].session = NoSession
    BY <1>r, <1>n
  <2>4. QED
    BY <2>1, <2>2, <2>3, <1>r DEF SuccessIsTrue, OneRowLifecycle
<1>6. \A t \in Task : ReportsOwn(t)'
  BY <1>r DEF DashboardInv, ReportsOwn
<1>7. QED
  BY <1>1, <1>2, <1>3, <1>4, <1>5, <1>6 DEF DashboardInv, LoopInv

\* Every step of the handler's world keeps the invariant.
LEMMA LoopStep ==
  ASSUME DashboardInv, [Next]_vars, visits' = visits,
         listing' \in {listing, {}}, tests' \in {tests, {}}
  PROVE  DashboardInv'
<1>i. /\ TypeInv /\ KnownSessions /\ FreshCommits /\ TruthfulEvents /\ FixesArePushed
      /\ PassedIsGreen /\ Lineage /\ PassedSessionIsGreen /\ WorkingHasWorker
      /\ DashboardTypeOK /\ ListingIsTrue /\ SuccessIsTrue /\ OneRowLifecycle
      /\ \A t \in Task : ReportsOwn(t)
  BY DEF DashboardInv, LoopInv
<1>1. TypeInv' /\ KnownSessions' /\ FreshCommits'
  BY <1>i, TypeStep, KnownStep, HistoryGrows
<1>2. TruthfulEvents' /\ FixesArePushed' /\ PassedIsGreen' /\ Lineage'
  BY <1>i, <1>1, TruthfulStep, FixStep, PassedStep, LineageStep
<1>3. PassedSessionIsGreen' /\ WorkingHasWorker'
  BY <1>i, PassedSessionStep, WorkerStep
<1>4. SuccessIsTrue' /\ OneRowLifecycle' /\ \A t \in Task : ReportsOwn(t)'
  BY <1>i, SuccessStep, LifecycleStep, ReportsStep
<1>5. DashboardTypeOK' /\ ListingIsTrue'
  <2>1. DashboardTypeOK'
    BY <1>i, <1>1 DEF DashboardTypeOK, TypeInv
  <2>2. ListingIsTrue'
    BY <1>i, HistoryGrows DEF ListingIsTrue, DashboardTypeOK, Entry, Terminal
  <2>3. QED
    BY <2>1, <2>2
<1>6. QED
  BY <1>1, <1>2, <1>3, <1>4, <1>5 DEF DashboardInv, LoopInv

\* The invariant holds throughout, whoever asks the dashboard for what and when.
LEMMA DashboardInvariant == DashboardSpec => []DashboardInv
<1>1. DashboardInit => DashboardInv
  <2> SUFFICES ASSUME DashboardInit  PROVE DashboardInv
    OBVIOUS
  <2>1. Init /\ TypeInv /\ KnownSessions
    BY TypeInit, KnownInit DEF DashboardInit
  <2>2. /\ FreshCommits /\ TruthfulEvents /\ FixesArePushed /\ PassedIsGreen /\ Lineage
    BY <2>1, SafetyInit DEF SafetyInv
  <2>3. PassedSessionIsGreen /\ WorkingHasWorker /\ SuccessIsTrue /\ OneRowLifecycle
    BY <2>1 DEF Init, TablesInit, NoRow, NoSessionRow, PassedSessionIsGreen, WorkingHasWorker,
       SuccessIsTrue, OneRowLifecycle
  <2>4. DashboardTypeOK /\ ListingIsTrue
    BY <2>1 DEF DashboardInit, DashboardTypeOK, ListingIsTrue, TypeInv
  <2>5. \A t \in Task : ReportsOwn(t)
    BY <2>1 DEF Init, ReportsOwn, HoldsTarget, PcAgent
  <2>6. QED
    BY <2>1, <2>2, <2>3, <2>4, <2>5 DEF DashboardInv, LoopInv
<1>2. DashboardInv /\ [DashboardNext]_<<vars, dash>> => DashboardInv'
  BY StepKinds, LoopStep, RequestStep
<1>3. QED
  BY <1>1, <1>2, PTL DEF DashboardSpec

-----------------------------------------------------------------------------
(* What the dashboard cannot break *)

\* The types of the tables, the tasks and the requests (trigger_test_run,
\* fetch_repo_run_history, clear) hold forever.
THEOREM DashboardTypeCorrect == DashboardSpec => []DashboardTypeOK
BY DashboardInvariant, PTL DEF DashboardInv

\* Whatever rows the dashboard seeds, simulates, evicts or clears, the fix a
\* session is found by is one that was pushed for it (get_session_by_fix_sha).
THEOREM DashboardLineage == DashboardSpec => []Lineage
BY DashboardInvariant, PTL DEF DashboardInv, LoopInv

\* A row that says success, which is_duplicate takes for a reason to drop the
\* webhook, belongs to a run attempt CI accepted, however old the listing it
\* was seeded from and whatever task wrote the row meanwhile.
THEOREM SuccessCorrect == DashboardSpec => []SuccessIsTrue
BY DashboardInvariant, PTL DEF DashboardInv

\* A row is never bound to the session of another commit, also when the row a
\* task holds was deleted and written anew under it (get_run_by_session).
THEOREM LifecycleCorrect == DashboardSpec => []OneRowLifecycle
BY DashboardInvariant, PTL DEF DashboardInv

\* A session is closed as PASSED only by a green run of a commit pushed for it,
\* although the dashboard writes PASSED to rows of test runs.
THEOREM PassedSessionCorrect == DashboardSpec => []PassedSessionIsGreen
BY DashboardInvariant, PTL DEF DashboardInv, LoopInv

\* No request makes a row say AGENT_WORKING that no task works on.
THEOREM DashboardWorker == DashboardSpec => []WorkingHasWorker
BY DashboardInvariant, PTL DEF DashboardInv, LoopInv
-----------------------------------------------------------------------------
(* The sessions under the dashboard.  No request reads or writes ci_sessions *)
(* or _active_tasks, and no step of a task takes from a row more than that   *)
(* it is bound to the session of its own commit: so what SessionTheorems     *)
(* proves of the handler holds with the dashboard at work on its rows.       *)

\* A request leaves the sessions, the tasks and the world as they are.
LEMMA RequestUntouched ==
  ASSUME DashboardInv, Requests
  PROVE  UNCHANGED <<sessions, world, guard, pc, locals>>
BY RequestRows DEF DashboardInv, LoopInv, Untouched

\* Every request keeps the invariant of the sessions.
LEMMA RequestSession ==
  ASSUME DashboardInv, DashboardInv', SessionInv, Requests
  PROVE  SessionInv'
<1>u. UNCHANGED <<sessions, world, guard, pc, locals>>
  BY RequestUntouched
<1>s. /\ HoldsInv /\ EventsOnce /\ OpenedOnce /\ Charges /\ Guarded /\ Counted /\ Recorded
      /\ ToExhaust /\ TurnedDown
  BY DEF SessionInv, CalmInv
<1> USE DEF world, locals
<1>1. TypeInv' /\ KnownSessions' /\ FreshCommits'
  BY DEF DashboardInv, LoopInv
<1>2. HoldsInv'
  <2>1. RowsOwn'
    BY DEF DashboardInv, OneRowLifecycle, RowsOwn
  <2>2. \A t \in Task : TaskHolds(t)'
    BY <1>u, <1>s DEF HoldsInv, TaskHolds, Terminated
  <2>3. QED
    BY <2>1, <2>2 DEF HoldsInv
<1>3. EventsOnce' /\ OpenedOnce' /\ Charges'
  BY <1>u, <1>s DEF EventsOnce, OpenedOnce, Charges, Verdict, Heard, Live, Terminated, Charge, InCharge,
     Front, IsActive
<1>4. Guarded'
  BY <1>u, <1>s DEF Guarded, Settled, Verdict, Live, Terminated
<1>5. Counted' /\ Recorded'
  <2>1. \A s \in Commit : Pushes(s)' = Pushes(s) /\ PushedBy(s)' = PushedBy(s)
                          /\ (Awaited(s)' <=> Awaited(s)) /\ (IsActive(s)' <=> IsActive(s))
    BY <1>u DEF Pushes, PushedBy, Awaited, IsActive, Verdict
  <2>2. \A s \in Commit : SessionCounts(s)'
    BY <1>u, <1>s, <2>1 DEF Counted, SessionCounts
  <2>3. \A t \in Task : InCharge(t)' => ChargeCounts(t)'
    BY <1>u, <1>s DEF Counted, ChargeCounts, InCharge, Charge, Terminated, Pushes, PushedBy
  <2>4. Recorded'
    BY <1>u, <1>s, <2>1 DEF Recorded
  <2>5. QED
    BY <2>2, <2>3, <2>4 DEF Counted
<1>6. ToExhaust' /\ TurnedDown'
  BY <1>u, <1>s DEF ToExhaust, TurnedDown
<1>7. QED
  BY <1>1, <1>2, <1>3, <1>4, <1>5, <1>6 DEF SessionInv, CalmInv

\* The sessions keep their invariant, whoever asks the dashboard for what.
LEMMA DashboardSessions ==
  ASSUME CalmProvider
  PROVE  DashboardSpec => []SessionInv
<1>1. DashboardInit => SessionInv
  BY SessionInit DEF DashboardInit
<1>2. DashboardInv /\ DashboardInv' /\ SessionInv /\ [DashboardNext]_<<vars, dash>> => SessionInv'
  BY StepKinds, SessionStep, RequestSession
<1>3. QED
  BY <1>1, <1>2, DashboardInvariant, PTL DEF DashboardSpec

\* RetrySession sees nothing of a request.
LEMMA RequestIsUnseen ==
  ASSUME DashboardInv, Requests
  PROVE  UNCHANGED Abstract!session
<1>1. UNCHANGED <<sessions, author, owner, ci>>
  BY RequestUntouched DEF world
<1>2. QED
  BY <1>1, WorldStays DEF Abstract!session

\* Whatever the dashboard does to the rows meanwhile (evicting the row of an
\* open session, seeding one over it), the tables and the handler implement
\* RetrySession.
THEOREM DashboardSessionsImplemented ==
  ASSUME CalmProvider
  PROVE  DashboardSpec => RefinesRetrySession
<1>1. DashboardInit => Abstract!Init
  BY AbstractInit DEF DashboardInit
<1>2. DashboardInv /\ SessionInv /\ [DashboardNext]_<<vars, dash>>
        => [Abstract!Next]_Abstract!session
  <2> SUFFICES ASSUME DashboardInv, SessionInv, [DashboardNext]_<<vars, dash>>
               PROVE  [Abstract!Next]_Abstract!session
    OBVIOUS
  <2>1. PassedIsGreen
    BY DEF DashboardInv, LoopInv
  <2>2. QED
    BY <2>1, StepKinds, StepIsSeen, RequestIsUnseen
<1>3. QED
  BY <1>1, <1>2, DashboardInvariant, DashboardSessions, PTL
     DEF DashboardSpec, RefinesRetrySession, Abstract!Spec

\* No request makes a second agent start for a session, though it may delete
\* the row the first one works on.
THEOREM DashboardOneAgent ==
  ASSUME CalmProvider
  PROVE  DashboardSpec => []OneAgentPerSession
<1>1. SessionInv => OneAgentPerSession
  BY OneAgent
<1>2. QED
  BY <1>1, DashboardSessions, PTL
=============================================================================
