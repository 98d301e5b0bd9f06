------------------------------ MODULE EventBus ------------------------------
(***************************************************************************)
(* server.py: broadcast_event puts a notice on sse_event_bus, and for each *)
(* connection to /api/events sse_endpoint runs a generator that takes from *)
(* it.  All of them share the one queue.  A connection ends when a page is *)
(* left, reconnects or is lost; its generator finds out later.             *)
(***************************************************************************)
EXTENDS Integers, Sequences, FiniteSets

CONSTANTS
  Page,        \* browser tabs
  Row,         \* keys of ci_runs
  MaxWrites,   \* bound: writes to the table
  MaxTroubles  \* bound: connections that end

ASSUME PagesAssumption == IsFiniteSet(Page)
ASSUME BusAssumption == MaxWrites \in Nat /\ MaxTroubles \in Nat

VARIABLES
  writes,    \* writes so far
  due,       \* notices whose row is written and whose broadcast is to come
  bus,       \* sse_event_bus
  stream,    \* Page -> where the generator that serves it has got to
  taken,     \* Page -> the notice that generator took from the bus, if any
  ghosts,    \* generators that wait on the bus for somebody who is gone
  troubles,  \* troubles so far
  pending    \* history: notices broadcast less those sent to somebody

server == <<due, bus, stream, taken, ghosts>>
busVars == <<writes, server, troubles, pending>>

Notice == [row : Row, content : 1 .. MaxWrites]
Step == {"away", "closed", "waiting", "resolving"}

AtMostOne(S) == {{}} \cup {{x} : x \in S}

BusTypeOK ==
  /\ writes \in 0 .. MaxWrites
  /\ due \subseteq Notice /\ bus \in Seq(Notice)
  /\ stream \in [Page -> Step]
  /\ taken \in [Page -> AtMostOne(Notice)]
  /\ ghosts \in Nat /\ troubles \in 0 .. MaxTroubles /\ pending \in Int

BusInit ==
  /\ writes = 0 /\ due = {} /\ bus = <<>>
  /\ stream = [p \in Page |-> "away"]
  /\ taken = [p \in Page |-> {}]
  /\ ghosts = 0 /\ troubles = 0
  /\ pending = 0

-----------------------------------------------------------------------------
NextWrite == writes < MaxWrites /\ writes' = writes + 1

\* A write, or a deletion, that nobody is told of.
Quiet ==
  /\ NextWrite
  /\ UNCHANGED <<server, troubles, pending>>

\* A write that will be broadcast; other awaits come in between.
Announce(r) ==
  /\ NextWrite
  /\ due' = due \cup {[row |-> r, content |-> writes']}
  /\ UNCHANGED <<bus, stream, taken, ghosts, troubles, pending>>

\* broadcast_event; the queue has no limit, so that it is never full.
Broadcast(notice) ==
  /\ notice \in due
  /\ due' = due \ {notice}
  /\ bus' = Append(bus, notice)
  /\ pending' = pending + 1
  /\ UNCHANGED <<writes, stream, taken, ghosts, troubles>>

Advance(p, from, to) == stream[p] = from /\ stream' = [stream EXCEPT ![p] = to]

\* A page is loaded; its script connects next.
Open(p) ==
  /\ Advance(p, "away", "closed")
  /\ UNCHANGED <<writes, due, bus, taken, ghosts, troubles, pending>>

Connect(p) ==
  /\ Advance(p, "closed", "waiting")
  /\ UNCHANGED <<writes, due, bus, taken, ghosts, troubles, pending>>

\* Only one of those that wait gets it.
TakeNotice(p) ==
  /\ Advance(p, "waiting", "resolving")
  /\ bus # <<>>
  /\ taken' = [taken EXCEPT ![p] = {Head(bus)}]
  /\ bus' = Tail(bus)
  /\ UNCHANGED <<writes, due, ghosts, troubles, pending>>

\* A slip: a notice that is not for this connection goes back to the bus.
SendOrReturn(p) ==
  /\ Advance(p, "resolving", "waiting")
  /\ taken' = [taken EXCEPT ![p] = {}]
  /\ \/ pending' = pending - 1 /\ UNCHANGED bus
     \/ \E notice \in taken[p] : bus' = Append(bus, notice) /\ UNCHANGED pending
  /\ UNCHANGED <<writes, due, ghosts, troubles>>

\* After _resolve_stored_run.
Send(p) ==
  /\ Advance(p, "resolving", "waiting")
  /\ taken' = [taken EXCEPT ![p] = {}]
  /\ pending' = pending - 1
  /\ UNCHANGED <<writes, due, bus, ghosts, troubles>>

\* A slip: the timeout takes along a notice that came in at the last moment.
IdleWithNotice(p) ==
  /\ stream[p] = "waiting"
  /\ bus' = IF bus = <<>> THEN bus ELSE Tail(bus)
  /\ UNCHANGED <<writes, due, stream, taken, ghosts, troubles, pending>>

\* The timeout: a get on a queue that has something does not wait.
Idle(p) ==
  /\ stream[p] = "waiting"
  /\ bus = <<>>
  /\ UNCHANGED busVars

\* A generator nobody listens to finds out only after the next thing it sends.
GhostTakes ==
  /\ ghosts > 0 /\ bus # <<>>
  /\ bus' = Tail(bus)
  /\ ghosts' = ghosts - 1
  /\ UNCHANGED <<writes, due, stream, taken, troubles, pending>>

\* A slip: one that ended after a notice ends again at its timeout.
GhostEndsAgain ==
  /\ troubles > 0 /\ bus = <<>>
  /\ ghosts' = ghosts - 1
  /\ UNCHANGED <<writes, due, bus, stream, taken, troubles, pending>>

\* With nothing to send it ends at its timeout.
GhostEnds ==
  /\ ghosts > 0 /\ bus = <<>>
  /\ ghosts' = ghosts - 1
  /\ UNCHANGED <<writes, due, bus, stream, taken, troubles, pending>>

\* A connection ends: what its generator holds is sent to nobody, and if it
\* waits, it may stay a while.
HangUp(p, next) ==
  /\ stream[p] # "away"
  /\ troubles < MaxTroubles /\ troubles' = troubles + 1
  /\ stream' = [stream EXCEPT ![p] = next]
  /\ taken' = [taken EXCEPT ![p] = {}]
  /\ ghosts' \in {ghosts, IF stream[p] = "waiting" THEN ghosts + 1 ELSE ghosts}
  /\ UNCHANGED <<writes, due, bus, pending>>

Serve(p) == Connect(p) \/ TakeNotice(p) \/ Send(p) \/ Idle(p)

\* Somebody listens, or no longer does.
Listen(p) == Serve(p) \/ Open(p) \/ HangUp(p, "away") \/ HangUp(p, "closed")

BusNext ==
  \/ Quiet
  \/ \E r \in Row : Announce(r)
  \/ \E notice \in due : Broadcast(notice)
  \/ \E p \in Page : Listen(p)
  \/ GhostTakes \/ GhostEnds

\* The event loop runs the generators, and tasks go on to their broadcast.
BusSpec ==
  /\ BusInit /\ [][BusNext]_busVars
  /\ WF_busVars(\E notice \in due : Broadcast(notice))
  /\ \A p \in Page : WF_busVars(Serve(p))

-----------------------------------------------------------------------------
Holding == {p \in Page : stream[p] = "resolving"}

Lost == pending - (Len(bus) + Cardinality(Holding))

\* A notice is sent to one page, once, or waits for it, unless a connection
\* ended around it: neither a timeout nor a second page loses or repeats one.
NoticesAccounted == Lost \in 0 .. troubles - ghosts

Stays(p) == <>[](stream[p] # "away")

\* While some page is open the bus is emptied again and again.
BusDrains == (\E p \in Page : Stays(p)) => []<>(bus = <<>>)

-----------------------------------------------------------------------------
(* What a comment says and the code does not do. *)

\* "broadcasts state changes to connected dashboard clients": what one page
\* takes from the bus, every page that waits takes too.
EveryPageHears ==
  [][\A p, q \in Page :
       TakeNotice(p) /\ stream[q] = "waiting" => taken'[q] = {Head(bus)}]_busVars
=============================================================================
