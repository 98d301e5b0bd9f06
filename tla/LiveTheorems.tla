---------------------------- MODULE LiveTheorems ----------------------------
(***************************************************************************)
(* Proofs about EventBus and LiveUpdates, for any rows, pages, writes,     *)
(* troubles and requests.                                                  *)
(***************************************************************************)
EXTENDS LiveUpdates, FiniteSetTheorems, SequenceTheorems, TLAPS

-----------------------------------------------------------------------------
(* Types of the bus *)

\* The initial state of the bus has the right types.
LEMMA BusInitType == BusInit => BusTypeOK
BY BusAssumption DEF BusInit, BusTypeOK, AtMostOne, Step

\* A write keeps to its bound and its notice is a notice.
LEMMA WriteNumber ==
  ASSUME BusTypeOK, NextWrite
  PROVE  /\ writes' \in 0 .. MaxWrites
         /\ \A r \in Row : [row |-> r, content |-> writes'] \in Notice
BY BusAssumption DEF BusTypeOK, NextWrite, Notice

\* The end of a connection preserves the types.
LEMMA HangUpType ==
  ASSUME BusTypeOK, NEW p \in Page, NEW next \in Step, HangUp(p, next)
  PROVE  BusTypeOK'
BY BusAssumption DEF BusTypeOK, HangUp, AtMostOne

\* What somebody who listens does preserves the types.
LEMMA ListenType == ASSUME BusTypeOK, NEW p \in Page, Listen(p) PROVE BusTypeOK'
<1> USE DEF server, busVars
<1>1. CASE Open(p) \/ Connect(p)
  BY <1>1 DEF BusTypeOK, Open, Connect, Advance, Step
<1>2. CASE TakeNotice(p)
  <2>1. Head(bus) \in Notice /\ Tail(bus) \in Seq(Notice)
    BY <1>2 DEF BusTypeOK, TakeNotice
  <2> QED
    BY <1>2, <2>1 DEF BusTypeOK, TakeNotice, Advance, Step, AtMostOne
<1>3. CASE Send(p)
  BY <1>3 DEF BusTypeOK, Send, Advance, Step, AtMostOne
<1>4. CASE Idle(p)
  BY <1>4 DEF BusTypeOK, Idle
<1>5. CASE HangUp(p, "away") \/ HangUp(p, "closed")
  BY <1>5, HangUpType DEF Step
<1> QED
  BY <1>1, <1>2, <1>3, <1>4, <1>5 DEF Listen, Serve

\* Every step of the bus preserves the types.
LEMMA BusStepType == BusTypeOK /\ [BusNext]_busVars => BusTypeOK'
<1> SUFFICES ASSUME BusTypeOK, [BusNext]_busVars PROVE BusTypeOK'
  OBVIOUS
<1>1. CASE Quiet
  BY <1>1, WriteNumber DEF BusTypeOK, Quiet, server
<1>2. ASSUME NEW r \in Row, Announce(r) PROVE BusTypeOK'
  BY <1>2, WriteNumber DEF BusTypeOK, Announce
<1>3. ASSUME NEW notice \in due, Broadcast(notice) PROVE BusTypeOK'
  <2>1. bus' \in Seq(Notice)
    BY <1>3 DEF BusTypeOK, Broadcast
  <2> QED
    BY <1>3, <2>1 DEF BusTypeOK, Broadcast
<1>4. CASE GhostTakes
  BY <1>4 DEF BusTypeOK, GhostTakes
<1>5. CASE GhostEnds
  BY <1>5 DEF BusTypeOK, GhostEnds
<1>6. CASE UNCHANGED busVars
  BY <1>6 DEF BusTypeOK, busVars, server
<1> QED
  BY <1>1, <1>2, <1>3, <1>4, <1>5, <1>6, ListenType DEF BusNext

-----------------------------------------------------------------------------
(* What becomes of a notice *)

\* How the number of notices held changes with the step of one page.
LEMMA HoldingChanges ==
  ASSUME BusTypeOK, NEW p \in Page, NEW next \in Step, stream' = [stream EXCEPT ![p] = next]
  PROVE  /\ Cardinality(Holding) \in Nat /\ Cardinality(Holding') \in Nat
         /\ stream[p] # "resolving" /\ next = "resolving" =>
              Cardinality(Holding') = Cardinality(Holding) + 1
         /\ stream[p] = "resolving" /\ next # "resolving" =>
              Cardinality(Holding') = Cardinality(Holding) - 1
         /\ stream[p] # "resolving" /\ next # "resolving" => Holding' = Holding
<1>1. IsFiniteSet(Holding)
  BY PagesAssumption, FS_Subset DEF Holding
<1>2. CASE next = "resolving"
  <2>1. Holding' = Holding \cup {p}
    BY <1>2 DEF BusTypeOK, Holding
  <2>2. stream[p] # "resolving" => p \notin Holding
    BY DEF Holding
  <2> QED
    BY <1>1, <1>2, <2>1, <2>2, FS_AddElement, FS_CardinalityType
<1>3. CASE next # "resolving"
  <2>1. Holding' = Holding \ {p}
    BY <1>3 DEF BusTypeOK, Holding
  <2>2. stream[p] = "resolving" <=> p \in Holding
    BY DEF Holding
  <2>3. p \notin Holding => Holding' = Holding
    BY <2>1
  <2> QED
    BY <1>1, <1>3, <2>1, <2>2, <2>3, FS_RemoveElement, FS_CardinalityType
<1> QED
  BY <1>2, <1>3

\* The counters an account of the notices is made of are numbers.
LEMMA AccountNumbers ==
  ASSUME BusTypeOK
  PROVE  /\ Cardinality(Holding) \in Nat /\ Len(bus) \in Nat
         /\ pending \in Int /\ ghosts \in Nat /\ troubles \in Nat
<1>1. IsFiniteSet(Holding)
  BY PagesAssumption, FS_Subset DEF Holding
<1> QED
  BY <1>1, FS_CardinalityType, BusAssumption DEF BusTypeOK

\* Nothing is broadcast, held or lost at the start.
LEMMA InitAccount == BusInit => NoticesAccounted
<1> SUFFICES ASSUME BusInit PROVE NoticesAccounted
  OBVIOUS
<1>1. Holding = {}
  BY DEF BusInit, Holding
<1> QED
  BY <1>1, FS_EmptySet DEF BusInit, NoticesAccounted, Lost

\* The end of a connection loses what its generator holds, or leaves it waiting.
LEMMA HangUpAccount ==
  ASSUME BusTypeOK, NoticesAccounted, NEW p \in Page, NEW next \in Step \ {"resolving"},
         HangUp(p, next)
  PROVE  NoticesAccounted'
<1> USE AccountNumbers DEF NoticesAccounted, Lost
<1>1. CASE stream[p] = "resolving"
  <2>1. Cardinality(Holding') = Cardinality(Holding) - 1
    BY <1>1, HoldingChanges DEF HangUp
  <2>2. ghosts' = ghosts /\ troubles' = troubles + 1 /\ bus' = bus /\ pending' = pending
    BY <1>1 DEF HangUp
  <2>3. Lost' = Lost + 1
    BY <2>1, <2>2
  <2>4. Lost \in Int /\ ghosts \in Nat /\ troubles \in Nat
    OBVIOUS
  <2> HIDE DEF Lost
  <2> QED
    BY <2>2, <2>3, <2>4
<1>2. CASE stream[p] # "resolving"
  <2>1. Holding' = Holding
    BY <1>2, HoldingChanges DEF HangUp
  <2>2. ghosts' \in {ghosts, ghosts + 1} /\ troubles' = troubles + 1
    BY DEF HangUp
  <2>3. Lost' = Lost
    BY <2>1 DEF HangUp
  <2> HIDE DEF Lost
  <2> QED
    BY <2>2, <2>3
<1> QED
  BY <1>1, <1>2

\* Somebody who listens loses no notice and is sent none twice.
LEMMA ListenAccount ==
  ASSUME BusTypeOK, NoticesAccounted, NEW p \in Page, Listen(p) PROVE NoticesAccounted'
<1> USE AccountNumbers DEF server, busVars, NoticesAccounted, Lost
<1>1. CASE Open(p) \/ Connect(p)
  <2>1. Holding' = Holding
    BY <1>1, HoldingChanges DEF Open, Connect, Advance, Step
  <2> QED
    BY <1>1, <2>1 DEF Open, Connect
<1>2. CASE TakeNotice(p)
  <2>1. Cardinality(Holding') = Cardinality(Holding) + 1
    BY <1>2, HoldingChanges DEF TakeNotice, Advance, Step
  <2>2. Len(bus') = Len(bus) - 1
    BY <1>2 DEF BusTypeOK, TakeNotice
  <2> QED
    BY <1>2, <2>1, <2>2 DEF TakeNotice
<1>3. CASE Send(p)
  <2>1. Cardinality(Holding') = Cardinality(Holding) - 1
    BY <1>3, HoldingChanges DEF Send, Advance, Step
  <2> QED
    BY <1>3, <2>1 DEF Send
<1>4. CASE Idle(p)
  BY <1>4 DEF Idle, Holding
<1>5. CASE HangUp(p, "away") \/ HangUp(p, "closed")
  BY <1>5, HangUpAccount DEF Step
<1> QED
  BY <1>1, <1>2, <1>3, <1>4, <1>5 DEF Listen, Serve

\* Every step keeps account of the notices.
LEMMA StepAccount == BusTypeOK /\ NoticesAccounted /\ [BusNext]_busVars => NoticesAccounted'
<1> SUFFICES ASSUME BusTypeOK, NoticesAccounted, [BusNext]_busVars PROVE NoticesAccounted'
  OBVIOUS
<1>1. ASSUME Quiet \/ \E r \in Row : Announce(r) PROVE NoticesAccounted'
  <2>1. UNCHANGED <<bus, stream, ghosts, troubles, pending>>
    BY <1>1 DEF Quiet, Announce, server
  <2> QED
    BY <2>1 DEF NoticesAccounted, Lost, Holding
<1>2. ASSUME NEW notice \in due, Broadcast(notice) PROVE NoticesAccounted'
  <2>1. Len(bus') = Len(bus) + 1
    BY <1>2 DEF BusTypeOK, Broadcast
  <2> QED
    BY <1>2, <2>1, AccountNumbers DEF Broadcast, NoticesAccounted, Lost, Holding
<1>3. CASE GhostTakes
  <2>1. Len(bus') = Len(bus) - 1
    BY <1>3 DEF BusTypeOK, GhostTakes
  <2>2. Holding' = Holding
    BY <1>3 DEF GhostTakes, Holding
  <2>3. Lost' = Lost + 1
    BY <1>3, <2>1, <2>2, AccountNumbers DEF GhostTakes, Lost
  <2>4. ghosts' = ghosts - 1 /\ troubles' = troubles
    BY <1>3 DEF GhostTakes
  <2> QED
    BY <2>3, <2>4, AccountNumbers DEF NoticesAccounted
<1>4. CASE GhostEnds
  BY <1>4, AccountNumbers DEF GhostEnds, NoticesAccounted, Lost, Holding
<1>5. CASE UNCHANGED busVars
  BY <1>5 DEF busVars, server, NoticesAccounted, Lost, Holding
<1> QED
  BY <1>1, <1>2, <1>3, <1>4, <1>5, ListenAccount DEF BusNext

\* A notice is sent to one page, once, unless a connection ends around it,
\* however many pages take from the bus.
THEOREM NoticesCorrect == BusSpec => []NoticesAccounted
<1>1. BusTypeOK /\ NoticesAccounted /\ [BusNext]_busVars => (BusTypeOK /\ NoticesAccounted)'
  BY BusStepType, StepAccount
<1> QED
  BY <1>1, BusInitType, InitAccount, PTL DEF BusSpec

-----------------------------------------------------------------------------
(* The pages and their bus *)

\* Every step of the pages is a step of the bus or leaves it alone.
LEMMA PageStepIsBusStep == [Next]_vars => [BusNext]_busVars
<1> SUFFICES ASSUME [Next]_vars PROVE [BusNext]_busVars
  OBVIOUS
<1>1. CASE Writer
  BY <1>1 DEF Writer, Write, UpdateMisses, WriteQuietly, Delete, BusNext
<1>2. ASSUME NEW p \in Page, Stream(p) PROVE [BusNext]_busVars
  BY <1>2 DEF Stream, OpenStream, HearNotice, ShowNotice, Timeout, Serve, Listen, BusNext
<1>3. ASSUME NEW p \in Page, Fetch(p) PROVE UNCHANGED busVars
  BY <1>3 DEF Fetch, Refresh, AnswerRefresh, ShowReply, ReposAnswer, SeedAnswer, ShowSeed
<1>4. ASSUME NEW p \in Page, User(p) PROVE [BusNext]_busVars
  BY <1>4 DEF User, LoadPage, LeavePage, Unload, Disconnect, Select, RefreshFails, Listen, BusNext
<1>5. CASE Unseen
  BY <1>5 DEF Unseen, BusNext
<1>6. CASE UNCHANGED vars
  BY <1>6 DEF vars
<1> QED
  BY <1>1, <1>2, <1>3, <1>4, <1>5, <1>6 DEF Next

\* Whatever the pages do, the bus runs as EventBus says, and so nothing but the
\* end of a connection loses a notice for a page.
THEOREM PagesUseBus == Spec => BusInit /\ [][BusNext]_busVars /\ []NoticesAccounted
<1>1. Init => BusInit
  BY DEF Init
<1>2. BusTypeOK /\ NoticesAccounted /\ [BusNext]_busVars => (BusTypeOK /\ NoticesAccounted)'
  BY BusStepType, StepAccount
<1> QED
  BY <1>1, <1>2, PageStepIsBusStep, BusInitType, InitAccount, PTL DEF Spec

-----------------------------------------------------------------------------
(* Types of the pages *)

\* The types of what only LiveUpdates has.
BrowserTypeOK ==
  /\ stored \in Table
  /\ select \in [Page -> Filters] /\ filter \in [Page -> Filters]
  /\ asking \in [Page -> BOOLEAN]
  /\ screen \in [Page -> Table] /\ counters \in [Page -> Table]
  /\ timers \in [Page -> SUBSET Filters] /\ asked \in [Page -> SUBSET Filters]
  /\ reply \in [Page -> SUBSET Table]
  /\ seed \in [Page -> {"due", "asked", "done"}]
  /\ answer \in [Page -> AtMostOne(Table)]

\* No rows are a table.
LEMMA EmptyType == Empty \in Table
BY BusAssumption DEF Table, Empty

\* What anybody selects of the table is a table.
LEMMA SelectedType == ASSUME BrowserTypeOK, NEW f PROVE Selected(f) \in Table
BY BusAssumption DEF BrowserTypeOK, Table, Selected

\* The initial state has the right types.
LEMMA InitType == Init => TypeOK
BY EmptyType, BusInitType, FiltersAssumption DEF Init, TypeOK, AtMostOne

\* Writes and deletions preserve the types.
LEMMA WriterType == ASSUME BusTypeOK, BrowserTypeOK, Writer PROVE BrowserTypeOK'
<1> USE DEF browser, choice, shown, requests, seeding
<1>1. UNCHANGED browser /\ writes' \in 0 .. MaxWrites
  BY WriteNumber DEF Writer, Write, UpdateMisses, WriteQuietly, Delete, Announce, Quiet
<1>2. stored' \in Table
  <2>1. ASSUME NEW r \in Row, Write(r) \/ UpdateMisses(r) \/ WriteQuietly(r) PROVE stored' \in Table
    BY <1>1, <2>1 DEF Write, UpdateMisses, WriteQuietly, BrowserTypeOK, Table
  <2>2. ASSUME NEW R, Delete(R) PROVE stored' \in Table
    BY <2>2, BusAssumption DEF Delete, BrowserTypeOK, Table
  <2> QED
    BY <2>1, <2>2 DEF Writer
<1> QED
  BY <1>1, <1>2 DEF BrowserTypeOK

\* What comes over the stream of a page has the right types.
LEMMA StreamType ==
  ASSUME BusTypeOK, BrowserTypeOK, NEW p \in Page, Stream(p) PROVE BrowserTypeOK'
<1> USE DEF browser, choice, shown, requests, seeding
<1>1. CASE OpenStream(p) \/ HearNotice(p)
  BY <1>1 DEF BrowserTypeOK, OpenStream, HearNotice
<1>2. CASE ShowNotice(p)
  <2>1. counters' \in [Page -> Table]
    BY <1>2, SelectedType DEF BrowserTypeOK, ShowNotice, SendCounts
  <2>2. PICK notice \in taken[p] : screen' = [screen EXCEPT ![p][notice.row] = notice.content]
    BY <1>2 DEF ShowNotice
  <2>3. notice.row \in Row /\ notice.content \in 0 .. MaxWrites
    BY <2>2, BusAssumption DEF BusTypeOK, AtMostOne, Notice
  <2>4. screen' \in [Page -> Table]
    BY <2>2, <2>3 DEF BrowserTypeOK, Table
  <2> QED
    BY <1>2, <2>1, <2>4 DEF BrowserTypeOK, ShowNotice
<1>3. CASE Timeout(p)
  BY <1>3, SelectedType DEF BrowserTypeOK, Timeout, SendCounts
<1> QED
  BY <1>1, <1>2, <1>3 DEF Stream

\* The requests of a page and their answers have the right types.
LEMMA FetchType == ASSUME BrowserTypeOK, NEW p \in Page, Fetch(p) PROVE BrowserTypeOK'
<1> USE DEF browser, choice, shown, requests, seeding
<1>1. CASE Refresh(p)
  BY <1>1 DEF BrowserTypeOK, Refresh, Selectors
<1>2. CASE AnswerRefresh(p)
  BY <1>2, SelectedType DEF BrowserTypeOK, AnswerRefresh
<1>3. CASE ShowReply(p)
  BY <1>3 DEF BrowserTypeOK, ShowReply
<1>4. CASE ReposAnswer(p)
  BY <1>4, FiltersAssumption DEF BrowserTypeOK, ReposAnswer
<1>5. CASE SeedAnswer(p)
  BY <1>5 DEF BrowserTypeOK, SeedAnswer, AtMostOne
<1>6. CASE ShowSeed(p)
  BY <1>6 DEF BrowserTypeOK, ShowSeed, AtMostOne
<1> QED
  BY <1>1, <1>2, <1>3, <1>4, <1>5, <1>6 DEF Fetch

\* People and networks preserve the types.
LEMMA UserType == ASSUME BrowserTypeOK, NEW p \in Page, User(p) PROVE BrowserTypeOK'
<1> USE DEF browser, choice, shown, requests, seeding
<1>1. CASE LoadPage(p)
  <2>1. screen' \in [Page -> Table] /\ counters' \in [Page -> Table]
    BY <1>1, SelectedType DEF BrowserTypeOK, LoadPage
  <2>2. seed' \in [Page -> {"due", "asked", "done"}] /\ asking' \in [Page -> BOOLEAN]
    BY <1>1 DEF BrowserTypeOK, LoadPage
  <2> QED
    BY <1>1, <2>1, <2>2 DEF BrowserTypeOK, LoadPage
<1>2. CASE LeavePage(p)
  <2>1. timers' \in [Page -> SUBSET Filters]
    BY <1>2, FiltersAssumption DEF BrowserTypeOK, LeavePage
  <2> QED
    BY <1>2, <2>1, EmptyType, FiltersAssumption DEF BrowserTypeOK, LeavePage, AtMostOne
<1>3. CASE Unload(p)
  BY <1>3 DEF BrowserTypeOK, Unload
<1>4. CASE Disconnect(p)
  BY <1>4 DEF BrowserTypeOK, Disconnect
<1>5. ASSUME NEW f \in Filters, Select(p, f) PROVE BrowserTypeOK'
  BY <1>5 DEF BrowserTypeOK, Select
<1>6. CASE RefreshFails(p)
  BY <1>6 DEF BrowserTypeOK, RefreshFails
<1> QED
  BY <1>1, <1>2, <1>3, <1>4, <1>5, <1>6 DEF User

\* Every step preserves the types.
LEMMA StepType == TypeOK /\ [Next]_vars => TypeOK'
<1> SUFFICES ASSUME TypeOK, [Next]_vars PROVE TypeOK'
  OBVIOUS
<1>1. BusTypeOK /\ BrowserTypeOK
  BY DEF TypeOK, BrowserTypeOK
<1>2. BusTypeOK'
  BY <1>1, PageStepIsBusStep, BusStepType
<1>3. BrowserTypeOK'
  <2>1. CASE UNCHANGED <<stored, browser>>
    BY <1>1, <2>1 DEF BrowserTypeOK, browser, choice, shown, requests, seeding
  <2> QED
    BY <1>1, <2>1, WriterType, StreamType, FetchType, UserType DEF Next, Unseen, vars
<1> QED
  BY <1>2, <1>3 DEF TypeOK, BrowserTypeOK

\* The table, the bus, the streams and the pages keep their types.
THEOREM LiveTypeCorrect == Spec => []TypeOK
<1> QED
  BY InitType, StepType, PTL DEF Spec

-----------------------------------------------------------------------------
(* An open page that has caught up: what of PagesCatchUp needs no fairness. *)

\* What its own stream brings a page that has caught up is what it shows.
LEMMA StreamAgrees ==
  ASSUME TypeOK, NEW p \in Page, UpToDate(p), Stream(p) PROVE UpToDate(p)'
<1> USE DEF browser, choice, shown, requests, seeding, busVars, server
<1>t. stream \in [Page -> Step] /\ counters \in [Page -> Table]
  BY DEF TypeOK, BusTypeOK
<1>1. ~HearNotice(p) /\ ~ShowNotice(p)
  BY DEF HearNotice, TakeNotice, ShowNotice, UpToDate
<1>2. CASE OpenStream(p)
  <2>1. stream'[p] = "waiting"
    BY <1>2, <1>t DEF OpenStream, Connect, Advance
  <2> QED
    BY <1>2, <2>1 DEF OpenStream, Connect, UpToDate, Selected
<1>3. CASE Timeout(p)
  <2>1. counters'[p] = Selected(filter[p])
    BY <1>3, <1>t DEF Timeout, SendCounts
  <2> QED
    BY <1>3, <2>1 DEF Timeout, Idle, UpToDate, Selected
<1> QED
  BY <1>1, <1>2, <1>3 DEF Stream

\* What it asks for and is answered is what it shows.
LEMMA FetchAgrees ==
  ASSUME TypeOK, NEW p \in Page, UpToDate(p), Fetch(p), select'[p] = select[p]
  PROVE  UpToDate(p)'
<1> USE DEF browser, choice, shown, requests, seeding, busVars, server
<1>t. BrowserTypeOK
  BY DEF TypeOK, BrowserTypeOK
<1>u. UNCHANGED <<stream, due, bus, taken, stored, counters, filter, timers>>
  BY DEF Fetch, Refresh, AnswerRefresh, ShowReply, ReposAnswer, SeedAnswer, ShowSeed
<1>s. Selected(select[p])' = Selected(select[p]) /\ Selected(filter[p])' = Selected(filter[p])
  BY <1>u DEF Selected
<1>1. screen'[p] = Selected(select[p])
  BY <1>t DEF BrowserTypeOK, UpToDate, Fetch, Refresh, AnswerRefresh, ShowReply, ReposAnswer,
              SeedAnswer, ShowSeed
<1>2. asked'[p] \subseteq {select[p]}
  BY <1>t DEF BrowserTypeOK, UpToDate, Selectors, Fetch, Refresh, AnswerRefresh, ShowReply,
              ReposAnswer, SeedAnswer, ShowSeed
<1>3. reply'[p] \subseteq {Selected(select[p])}
  BY <1>t DEF BrowserTypeOK, UpToDate, Fetch, Refresh, AnswerRefresh, ShowReply, ReposAnswer,
              SeedAnswer, ShowSeed
<1>4. answer'[p] \subseteq {Selected(select[p])} /\ (seed'[p] = "asked" => select[p] = Row)
  <2>1. Selected(Row) = stored
    BY <1>t DEF BrowserTypeOK, Table, Selected
  <2>2. CASE SeedAnswer(p)
    BY <1>t, <2>1, <2>2 DEF BrowserTypeOK, UpToDate, SeedAnswer
  <2>3. CASE ~SeedAnswer(p)
    BY <1>t, <2>3 DEF BrowserTypeOK, UpToDate, Fetch, Refresh, AnswerRefresh, ShowReply,
                      ReposAnswer, ShowSeed
  <2> QED
    BY <2>2, <2>3
<1> QED
  BY <1>u, <1>s, <1>1, <1>2, <1>3, <1>4 DEF UpToDate

\* Neither a lost connection nor a request that fails shows a page anything.
LEMMA UserAgrees ==
  ASSUME TypeOK, NEW p \in Page, UpToDate(p), User(p), select'[p] = select[p],
         stream'[p] # "away"
  PROVE  UpToDate(p)'
<1> USE DEF browser, choice, shown, requests, seeding, busVars, server
<1>t. /\ stream \in [Page -> Step] /\ taken \in [Page -> AtMostOne(Notice)]
      /\ select \in [Page -> Filters] /\ asked \in [Page -> SUBSET Filters]
  BY DEF TypeOK, BusTypeOK
<1>1. ~LoadPage(p) /\ ~Unload(p)
  BY DEF LoadPage, Unload, Open, Advance, UpToDate
<1>2. ~LeavePage(p) /\ ~\E f \in Filters : Select(p, f)
  BY <1>t DEF LeavePage, HangUp, Select
<1>3. CASE Disconnect(p)
  <2>1. UNCHANGED <<due, bus, stored, browser>> /\ taken'[p] = {}
    BY <1>3, <1>t DEF Disconnect, HangUp
  <2> QED
    BY <2>1 DEF UpToDate, Selected
<1>4. CASE RefreshFails(p)
  <2>1. asked'[p] \subseteq asked[p]
    BY <1>4, <1>t DEF RefreshFails
  <2> QED
    BY <1>4, <2>1 DEF RefreshFails, UpToDate, Selected
<1> QED
  BY <1>1, <1>2, <1>3, <1>4 DEF User

\* Nothing another page or its generator does is seen on this page.
LEMMA OthersUnseen ==
  ASSUME TypeOK, NEW p \in Page, UpToDate(p), NEW q \in Page, q # p,
         Stream(q) \/ Fetch(q) \/ User(q)
  PROVE  UpToDate(p)'
<1> USE DEF browser, choice, shown, requests, seeding, busVars, server
<1>t. BusTypeOK /\ BrowserTypeOK
  BY DEF TypeOK, BrowserTypeOK
<1>1. CASE Stream(q)
  <2>1. UNCHANGED <<due, bus, stored, select, filter, requests, seeding>>
    BY <1>1 DEF Stream, OpenStream, HearNotice, ShowNotice, Timeout, Connect, TakeNotice, Send,
                Idle, UpToDate
  <2>2. UNCHANGED <<stream[p], taken[p], screen[p], counters[p]>>
    BY <1>1, <1>t DEF BusTypeOK, BrowserTypeOK, Stream, OpenStream, HearNotice, ShowNotice,
                      Timeout, Connect, TakeNotice, Send, Idle, Advance, SendCounts
  <2> QED
    BY <2>1, <2>2 DEF UpToDate, Selected
<1>2. CASE Fetch(q)
  <2>1. UNCHANGED <<due, bus, stream, taken, stored, filter, counters, timers>>
    BY <1>2 DEF Fetch, Refresh, AnswerRefresh, ShowReply, ReposAnswer, SeedAnswer, ShowSeed
  <2>2. UNCHANGED <<select[p], screen[p], asked[p], reply[p], seed[p], answer[p]>>
    BY <1>2, <1>t DEF BrowserTypeOK, Fetch, Refresh, AnswerRefresh, ShowReply, ReposAnswer,
                      SeedAnswer, ShowSeed
  <2> QED
    BY <2>1, <2>2 DEF UpToDate, Selected
<1>3. CASE User(q)
  <2>1. UNCHANGED <<due, bus, stored>>
    BY <1>3 DEF User, LoadPage, LeavePage, Unload, Disconnect, Select, RefreshFails, Open, HangUp
  <2>2. UNCHANGED <<stream[p], taken[p]>>
    BY <1>3, <1>t DEF BusTypeOK, User, LoadPage, LeavePage, Unload, Disconnect, Select,
                      RefreshFails, Open, HangUp, Advance
  <2>3. UNCHANGED <<select[p], filter[p], screen[p], counters[p]>>
    BY <1>3, <1>t DEF BrowserTypeOK, User, LoadPage, LeavePage, Unload, Disconnect, Select,
                      RefreshFails
  <2>4. UNCHANGED <<timers[p], asked[p], reply[p], answer[p], seed[p]>>
    BY <1>3, <1>t DEF BrowserTypeOK, User, LoadPage, LeavePage, Unload, Disconnect, Select,
                      RefreshFails
  <2> QED
    BY <2>1, <2>2, <2>3, <2>4 DEF UpToDate, Selected
<1> QED
  BY <1>1, <1>2, <1>3

\* A page that has caught up goes on showing what it selects until somebody
\* writes, selects or leaves; what may undo it is what UpToDate leaves out: the
\* timers and late answers of other selections.
THEOREM AgreementLasts == Spec => AgreementStays
<1>1. TypeOK /\ [Next]_vars => StaysUpToDate \/ UNCHANGED vars
  <2> SUFFICES ASSUME TypeOK, Next, NEW p \in Page, UpToDate(p),
                      UNCHANGED <<writes, select[p], filter[p]>>, stream'[p] # "away"
               PROVE  UpToDate(p)'
    BY DEF StaysUpToDate
  <2>1. ~Writer
    BY DEF Writer, Write, UpdateMisses, WriteQuietly, Delete, Announce, Quiet, NextWrite, TypeOK,
           BusTypeOK
  <2>2. CASE Unseen
    <3>1. UNCHANGED <<due, bus, stream, taken, stored, browser>>
      BY <2>2 DEF Unseen, Broadcast, GhostTakes, GhostEnds, UpToDate
    <3> QED
      BY <3>1 DEF UpToDate, Selected, browser, choice, shown, requests, seeding
  <2>3. ASSUME NEW q \in Page, Stream(q) \/ Fetch(q) \/ User(q)
        PROVE  UpToDate(p)'
    BY <2>3, StreamAgrees, FetchAgrees, UserAgrees, OthersUnseen
  <2> QED
    BY <2>1, <2>2, <2>3 DEF Next
<1>2. Spec => []TypeOK
  BY LiveTypeCorrect
<1> QED
  BY <1>1, <1>2, PTL DEF Spec, AgreementStays
=============================================================================
