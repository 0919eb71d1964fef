-------------------------- MODULE MirrorStepProofs --------------------------
(***************************************************************************)
(* What every step of the tunnel does to the frames on their way and to what *)
(* the routes are owed: the quiet steps, the collecting of new output, the *)
(* sending of a frame and the failure to send it.                          *)
(***************************************************************************)
EXTENDS MirrorTunnelProofs

-----------------------------------------------------------------------------
\* A quiet step keeps SentIsRecorded.
LEMMA QuietSent ==
    ASSUME TypeOK, StreamInvariant, ThreadsOK, SentIsRecorded, TypeOK', Quiet
    PROVE  SentIsRecorded'
<1>1. PICK frames : IsWorkerBatch(frames)
  BY DEF Quiet
<1>2. /\ frames \in Seq(Addressed) /\ out' = [out EXCEPT ![Worker] = frames] /\ Worker \in Threads
      /\ \A a \in Items(frames) : a \in Items(out[Worker]) \/ StandsForRecorded(a.frame)
  BY <1>1 DEF IsWorkerBatch, Threads
<1>3. StreamsGrow
  BY DEF Quiet
<1> QED BY Zenon, <1>2, <1>3, SentStays

\* The publishers' batches in a quiet step.
LEMMA QuietBatches ==
    ASSUME ThreadsOK, Quiet
    PROVE  /\ \A c \in Commands : out'[c] = out[c]
           /\ out[Worker] = <<>> \/ out'[Worker] = out[Worker]
           /\ WorkerReplays => WorkerReplays'
<1>1. PICK frames : IsWorkerBatch(frames)
  BY DEF Quiet
<1>2. DOMAIN out = Threads /\ Commands \subseteq Threads /\ Worker \in Threads /\ Worker \notin Commands
  BY TunnelAssumption DEF ThreadsOK, Threads
<1>3. out'[Worker] = frames /\ \A c \in Commands : out'[c] = out[c]
  BY <1>1, <1>2 DEF IsWorkerBatch
<1> QED BY <1>1, <1>3 DEF IsWorkerBatch, WorkerReplays

\* A quiet step keeps what holds of a publisher's live frames.
LEMMA QuietLive ==
    ASSUME TypeOK, ThreadsOK, DataOK, LiveParts, Quiet
    PROVE  LiveParts'
<1>1. /\ headSequence \in Nat /\ headSequence' \in Nat /\ headSequence <= headSequence'
      /\ \A r \in Routes : \A f \in Items(wire[r]) : f.seq \in Nat
      /\ previousHead \in [Commands -> Nat]
  BY Zenon, AddressedInBatch DEF TypeOK, DataOK, Quiet, StreamsGrow
<1>2. wire' = wire /\ disturbed' = disturbed /\ Different(routes')
  BY DEF Quiet, QuietRoutes
<1>3. LiveUpTo(headSequence) /\ LiveUpTo(headSequence)'
  BY <1>1, <1>2 DEF LiveParts, LiveUpTo
<1>4. ASSUME NEW c \in Commands PROVE PublisherLive(c)'
  <2>1. PublisherLive(c) /\ out'[c] = out[c] /\ Different(routes)
    BY QuietBatches DEF LiveParts
  <2>2. SendsOwnOutput(c)'
    <3>1. \A a \in Items(out[c]) : a.frame.seq \in Nat
      BY AddressedInBatch DEF ThreadsOK, Threads
    <3> QED BY <1>1, <2>1, <3>1 DEF PublisherLive, SendsOwnOutput
  <2>3. "race" \notin disturbed' => SendsNewer(c)'
    BY Zenon, <1>2, <2>1 DEF PublisherLive, SendsNewer, RouteOrdered
  <2>4. Different(span'[c]) /\ previousHead'[c] \in Nat /\ previousHead'[c] <= headSequence'
    <3>1. CASE PublisherStays(c) \/ PublisherRecords(c)
      BY <1>1, <2>1, <3>1 DEF PublisherStays, PublisherRecords, PublisherLive
    <3>2. CASE PublisherBegins(c)
      BY <1>1, <2>1, <3>2 DEF PublisherBegins
    <3>3. CASE PublisherLeaves(c)
      BY <1>1, <3>3 DEF PublisherLeaves, Different
    <3> QED BY <3>1, <3>2, <3>3 DEF Quiet, QuietPublishers
  <2>5. pc'[c] \in Publishing => LiveOfUpTo(c, previousHead[c])'
    <3>1. CASE PublisherStays(c) \/ PublisherRecords(c)
      BY Zenon, <1>2, <2>1, <3>1 DEF PublisherStays, PublisherRecords, PublisherLive, LiveOfUpTo, Publishing
    <3>2. CASE PublisherBegins(c)
      BY Zenon, <1>2, <1>3, <3>2 DEF PublisherBegins, LiveUpTo, LiveOfUpTo
    <3>3. CASE PublisherLeaves(c)
      BY <3>3 DEF PublisherLeaves, Publishing
    <3> QED BY <3>1, <3>2, <3>3 DEF Quiet, QuietPublishers
  <2> QED BY Zenon, <2>2, <2>3, <2>4, <2>5 DEF PublisherLive
<1>5. LiveInOrder'
  BY Zenon, <1>2 DEF LiveParts, LiveInOrder
<1>6. WorkerReplays'
  BY QuietBatches DEF LiveParts
<1> QED BY <1>2, <1>3, <1>4, <1>5, <1>6 DEF LiveParts

-----------------------------------------------------------------------------
\* The parts of OwedInvariant: a closed route is owed nothing, a publisher's
\* span is the routes unless it is stale, and what is owed is on its way.
ClosedOwedNothing == \A r \in Routes \ Items(routes), c \in Commands : resumed[r][c] = NoResume

SpansCurrent == \A c \in Commands : pc[c] \in Publishing => stale[c] \/ span[c] = routes

OnItsWay(r, c, e) ==
    \/ Carries(Items(wire[r]) \cup Waiting(Worker, r) \cup Waiting(c, r), c, e.seq)
    \/ pc[c] = "collecting" /\ e.seq > previousHead[c]

Owed(r, c) == disturbed = {} /\ Items(events[c]) = recorded[c] /\ resumed[r][c] # NoResume

OwedParts ==
    /\ HolderCollects /\ ClosedOwedNothing /\ SpansCurrent
    /\ \A r \in Items(routes), c \in Commands : Owed(r, c) =>
          \A e \in Missed(recorded[c], resumed[r][c]) : e.kind = "Output" => OnItsWay(r, c, e)

\* They are the invariant.
LEMMA OwedIsParts == OwedInvariant <=> OwedParts
BY Zenon DEF OwedInvariant, OwedParts, HolderCollects, ClosedOwedNothing, SpansCurrent, OnItsWay, Owed, Publishing

\* Frames carry what a part of them carries.
LEMMA CarriesMore ==
    ASSUME NEW F, NEW G, NEW c, NEW n, Carries(F, c, n), F \subseteq G
    PROVE  Carries(G, c, n)
BY DEF Carries

\* A quiet step loses nothing that is on its way.
LEMMA QuietWay ==
    ASSUME ThreadsOK, Quiet, NEW r, NEW c \in Commands, NEW e, OnItsWay(r, c, e)
    PROVE  OnItsWay(r, c, e)'
<1>1. CASE Carries(Items(wire[r]) \cup Waiting(Worker, r) \cup Waiting(c, r), c, e.seq)
  <2>1. wire' = wire /\ out'[c] = out[c] /\ (out[Worker] = <<>> \/ out'[Worker] = out[Worker])
    BY Zenon, QuietBatches DEF Quiet
  <2>2. Waiting(Worker, r) \subseteq Waiting(Worker, r)'
    <3>1. out[Worker] = <<>> => Items(out[Worker]) = {}
      BY DEF Items
    <3> QED BY <2>1, <3>1 DEF Waiting
  <2>3. Waiting(c, r)' = Waiting(c, r)
    BY <2>1 DEF Waiting
  <2>4. Carries(Items(wire'[r]) \cup Waiting(Worker, r)' \cup Waiting(c, r)', c, e.seq)
    <3> HIDE DEF Waiting
    <3> QED BY <1>1, <2>1, <2>2, <2>3, CarriesMore
  <2> QED BY Zenon, <2>4 DEF OnItsWay, Carries
<1>2. CASE pc[c] = "collecting" /\ e.seq > previousHead[c]
  <2>1. PublisherStays(c)
    BY Zenon, <1>2 DEF Quiet, QuietPublishers, PublisherBegins, PublisherRecords, PublisherLeaves
  <2> QED BY <1>2, <2>1 DEF PublisherStays, OnItsWay
<1> QED BY <1>1, <1>2 DEF OnItsWay

\* A quiet step keeps what holds of what the routes are owed.
LEMMA QuietOwed ==
    ASSUME TypeOK, StreamInvariant, ThreadsOK, DataOK, LiveParts, OwedParts, Quiet,
           TypeOK', StreamInvariant', DataOK'
    PROVE  OwedParts'
<1>1. /\ StreamsGrow /\ HolderCollects' /\ disturbed' = disturbed
      /\ \A r \in Routes, c \in Commands : resumed'[r][c] = NoResume \/ OwedAsBefore(r, c) \/ OwedFromBatch(r, c)
      /\ \A c \in Commands : PublisherStays(c) \/ PublisherBegins(c) \/ PublisherRecords(c) \/ PublisherLeaves(c)
  BY DEF Quiet, QuietRoutes, QuietPublishers
<1>2. ClosedOwedNothing'
  <2> SUFFICES ASSUME NEW r \in Routes \ Items(routes'), NEW c \in Commands PROVE resumed'[r][c] = NoResume
    BY DEF ClosedOwedNothing
  <2>1. CASE OwedAsBefore(r, c)
    BY <2>1 DEF OwedAsBefore, OwedParts, ClosedOwedNothing
  <2> QED BY Zenon, <1>1, <2>1 DEF OwedFromBatch
<1>3. SpansCurrent'
  <2> SUFFICES ASSUME NEW c \in Commands, pc'[c] \in Publishing PROVE stale'[c] \/ span'[c] = routes'
    BY DEF SpansCurrent
  <2>1. CASE PublisherStays(c)
    BY Zenon, <2>1 DEF PublisherStays, OwedParts, SpansCurrent
  <2>2. CASE PublisherBegins(c)
    BY <2>2 DEF PublisherBegins
  <2>3. CASE PublisherRecords(c)
    BY <2>3 DEF PublisherRecords, OwedParts, SpansCurrent, Publishing
  <2>4. CASE PublisherLeaves(c)
    BY <2>4 DEF PublisherLeaves, Publishing
  <2> QED BY <1>1, <2>1, <2>2, <2>3, <2>4
<1>4. ASSUME NEW r \in Items(routes'), NEW c \in Commands, Owed(r, c)',
             NEW e \in Missed(recorded'[c], resumed'[r][c]), e.kind = "Output"
      PROVE  OnItsWay(r, c, e)'
  <2>1. Items(events[c]) = recorded[c] /\ disturbed = {} /\ r \in Routes /\ resumed'[r][c] # NoResume
    <3>1. Items(events'[c]) = recorded'[c] /\ disturbed' = {} /\ resumed'[r][c] # NoResume
      BY Zenon, <1>4 DEF Owed
    <3>2. routes' \in Seq(Routes)
      BY DEF DataOK
    <3>3. r \in Routes
      BY <3>2 DEF Items
    <3> QED BY Zenon, <1>1, <3>1, <3>3, GrowthFacts
  <2>2. e \in recorded'[c] /\ e.seq > resumed'[r][c]
    BY DEF Missed
  <2>3. CASE OwedAsBefore(r, c)
    <3>1. r \in Items(routes) /\ Owed(r, c) /\ resumed'[r][c] = resumed[r][c]
      BY <1>4, <2>1, <2>3 DEF OwedAsBefore, Owed
    <3>2. CASE e \in recorded[c]
      <4>1. e \in Missed(recorded[c], resumed[r][c])
        BY <2>2, <3>1, <3>2 DEF Missed
      <4>2. OnItsWay(r, c, e)
        BY <1>4, <3>1, <4>1 DEF OwedParts
      <4> QED BY <4>2, QuietWay
    <3>3. CASE e \notin recorded[c]
      <4>1. e.seq > headSequence /\ pc'[c] = "collecting"
        BY Zenon, <1>1, <1>4, <2>2, <3>3, GrowthFacts
      <4>2. previousHead'[c] \in Nat /\ previousHead'[c] <= headSequence /\ headSequence \in Nat /\ e.seq \in Nat
        <5>1. previousHead[c] <= headSequence /\ headSequence \in Nat /\ previousHead'[c] \in Nat
          BY DEF LiveParts, PublisherLive, TypeOK, DataOK
        <5>2. e.seq \in Nat
          <6>1. recorded'[c] \subseteq Event
            BY SMTT(20) DEF TypeOK
          <6> QED BY Zenon, <2>2, <6>1 DEF Event
        <5> QED BY <1>1, <5>1, <5>2 DEF PublisherStays, PublisherBegins, PublisherRecords, PublisherLeaves
      <4>3. e.seq > previousHead'[c]
        BY <4>1, <4>2
      <4> QED BY Zenon, <4>1, <4>3 DEF OnItsWay
    <3> QED BY <3>2, <3>3
  <2>4. CASE OwedFromBatch(r, c)
    <3>1. recorded'[c] = recorded[c] /\ BringsOutput(out'[Worker], r, c, resumed'[r][c])
      BY <2>4 DEF OwedFromBatch
    <3>2. e \in Missed(Items(events[c]), resumed'[r][c])
      BY <2>1, <2>2, <3>1 DEF Missed
    <3>3. PICK a \in Items(out'[Worker]) :
             a.route = r /\ a.frame.kind = "Output" /\ a.frame.command = c /\ a.frame.seq = e.seq
      BY <1>4, <3>1, <3>2 DEF BringsOutput
    <3>4. a.frame \in Waiting(Worker, r)'
      BY Zenon, <3>3 DEF Waiting
    <3> QED BY <3>3, <3>4 DEF OnItsWay, Carries
  <2> QED BY Zenon, <1>1, <2>1, <2>3, <2>4
<1> QED BY Zenon, <1>1, <1>2, <1>3, <1>4 DEF OwedParts

-----------------------------------------------------------------------------
\* What Collect changes beside the publisher's batch.
LEMMA CollectChanges ==
    ASSUME ThreadsOK, DataOK, NEW c \in Commands, Collect(c), NEW frames, IsLiveBatch(frames, c)
    PROVE  /\ UNCHANGED <<vars, routes, wire, resumed>> /\ Unlocked
           /\ pc[c] = "collecting" /\ pc'[c] \in {"idle", "sending"} /\ out[c] = <<>> /\ out'[c] = frames
           /\ span'[c] = <<>> /\ previousHead'[c] = 0
           /\ disturbed' = disturbed \cup (IF stale[c] THEN {"race"} ELSE {})
           /\ \A th \in Threads \ {c} : pc'[th] = pc[th] /\ out'[th] = out[th]
           /\ \A b \in Commands \ {c} : UNCHANGED <<span[b], stale[b], previousHead[b]>>
<1>1. /\ UNCHANGED <<vars, routes, wire, resumed>> /\ Unlocked /\ pc[c] = "collecting"
      /\ span' = [span EXCEPT ![c] = <<>>] /\ stale' = [stale EXCEPT ![c] = FALSE]
      /\ previousHead' = [previousHead EXCEPT ![c] = 0]
      /\ disturbed' = disturbed \cup (IF stale[c] THEN {"race"} ELSE {})
  BY Zenon DEF Collect, LeaveScope, linkVars
<1>2. /\ out' = [out EXCEPT ![c] = frames]
      /\ pc' = [pc EXCEPT ![c] = IF frames = <<>> THEN "idle" ELSE "sending"]
  BY Zenon DEF IsLiveBatch, Send, Goto
<1>3. /\ c \in Threads /\ DOMAIN pc = Threads /\ DOMAIN out = Threads
      /\ DOMAIN span = Commands /\ DOMAIN stale = Commands /\ DOMAIN previousHead = Commands
  BY DEF ThreadsOK, Threads, DataOK
<1>4. out[c] = <<>>
  BY <1>1, <1>3 DEF ThreadsOK
<1> QED BY <1>1, <1>2, <1>3, <1>4

\* Collect: the new frames are newer than all that was sent of the window.
LEMMA CollectLive ==
    ASSUME BatchesBuilt, TypeOK, StreamInvariant, ThreadsOK, DataOK, LiveParts, NEW c \in Commands, Collect(c)
    PROVE  LiveParts'
<1>1. PICK frames : IsLiveBatch(frames, c)
  BY DEF BatchesBuilt
<1>2. /\ UNCHANGED <<vars, routes, wire, resumed>> /\ Unlocked
      /\ pc[c] = "collecting" /\ pc'[c] \in {"idle", "sending"} /\ out[c] = <<>> /\ out'[c] = frames
      /\ span'[c] = <<>> /\ previousHead'[c] = 0
      /\ disturbed' = disturbed \cup (IF stale[c] THEN {"race"} ELSE {})
      /\ \A th \in Threads \ {c} : pc'[th] = pc[th] /\ out'[th] = out[th]
      /\ \A b \in Commands \ {c} : UNCHANGED <<span[b], stale[b], previousHead[b]>>
  BY <1>1, CollectChanges
<1>3. headSequence' = headSequence /\ headSequence \in Nat
  BY <1>2 DEF vars, streamVars, TypeOK
<1>4. Worker \in Threads \ {c} /\ Commands \subseteq Threads
  BY TunnelAssumption DEF Threads
<1>5. "race" \notin disturbed' => "race" \notin disturbed /\ ~stale[c]
  BY ZenonT(30), <1>2
<1>6. PublisherLive(c)'
  <2>1. PublisherLive(c)
    BY DEF LiveParts
  <2>2. SendsOwnOutput(c)'
    BY Zenon, <1>1, <1>2, <1>3 DEF IsLiveBatch, SendsOwnOutput
  <2>3. ASSUME ~stale[c] PROVE SendsNewer(c)'
    <3>1. RouteOrdered(frames) /\ LiveOfUpTo(c, previousHead[c])
      BY Zenon, <1>1, <1>2, <2>1, <2>3 DEF IsLiveBatch, PublisherLive, Publishing
    <3>2. ASSUME NEW a \in Items(frames), NEW f \in Items(wire[a.route]), f.live /\ f.command = c
          PROVE  f.seq < a.frame.seq
      <4>1. a.route \in Routes /\ a.frame.seq \in Nat /\ a.frame.seq > previousHead[c]
        BY <1>1, AddressedInBatch DEF IsLiveBatch
      <4>2. f.seq \in Nat /\ previousHead[c] \in Nat
        BY <4>1, AddressedInBatch DEF DataOK
      <4>3. f.seq <= previousHead[c]
        BY <3>1, <3>2, <4>1 DEF LiveOfUpTo
      <4> QED BY <4>1, <4>2, <4>3
    <3> QED BY Zenon, <1>2, <3>1, <3>2 DEF SendsNewer, RouteOrdered
  <2>4. Different(<<>>)
    BY SMTT(20) DEF Different
  <2>5. pc'[c] \notin Publishing
    BY <1>2 DEF Publishing
  <2> QED BY <1>2, <1>3, <1>5, <2>2, <2>3, <2>4, <2>5 DEF PublisherLive, Different
<1>7. ASSUME NEW b \in Commands \ {c} PROVE PublisherLive(b)'
  <2>1. PublisherLive(b) /\ UNCHANGED <<pc[b], out[b], span[b], previousHead[b], wire, headSequence>>
    BY <1>2, <1>3, <1>4 DEF LiveParts
  <2> QED BY Zenon, <1>5, <2>1 DEF PublisherLive, Different, LiveOfUpTo, SendsOwnOutput, SendsNewer, RouteOrdered
<1>8. Different(routes') /\ WorkerReplays' /\ LiveUpTo(headSequence)' /\ LiveInOrder'
  BY Zenon, <1>2, <1>3, <1>4, <1>5 DEF LiveParts, WorkerReplays, LiveUpTo, LiveInOrder, Different
<1> QED BY <1>6, <1>7, <1>8 DEF LiveParts

\* Collect: what was to be collected for a route is in the batch, unless the
\* span went stale.
LEMMA CollectOwed ==
    ASSUME BatchesBuilt, TypeOK, StreamInvariant, ThreadsOK, DataOK, OwedParts, NEW c \in Commands, Collect(c)
    PROVE  OwedParts'
<1>1. PICK frames : IsLiveBatch(frames, c)
  BY DEF BatchesBuilt
<1>2. /\ UNCHANGED <<vars, routes, wire, resumed>> /\ Unlocked
      /\ pc[c] = "collecting" /\ pc'[c] \in {"idle", "sending"} /\ out[c] = <<>> /\ out'[c] = frames
      /\ span'[c] = <<>> /\ previousHead'[c] = 0
      /\ disturbed' = disturbed \cup (IF stale[c] THEN {"race"} ELSE {})
      /\ \A th \in Threads \ {c} : pc'[th] = pc[th] /\ out'[th] = out[th]
      /\ \A b \in Commands \ {c} : UNCHANGED <<span[b], stale[b], previousHead[b]>>
  BY <1>1, CollectChanges
<1>3. UNCHANGED <<chunking, events, recorded>>
  BY Zenon, <1>2 DEF vars, streamVars
<1>4. Worker \in Threads \ {c} /\ Commands \subseteq Threads
  BY TunnelAssumption DEF Threads
<1>5. HolderCollects' /\ ClosedOwedNothing'
  BY Zenon, <1>2, <1>3 DEF HolderCollects, Unlocked, ClosedOwedNothing, OwedParts
<1>6. SpansCurrent'
  <2>1. SpansCurrent /\ pc'[c] \notin Publishing
    BY <1>2 DEF OwedParts, Publishing
  <2> QED BY Zenon, <1>2, <1>4, <2>1 DEF SpansCurrent
<1>7. ASSUME NEW r \in Items(routes'), NEW b \in Commands, Owed(r, b)',
             NEW e \in Missed(recorded'[b], resumed'[r][b]), e.kind = "Output"
      PROVE  OnItsWay(r, b, e)'
  <2>1. /\ r \in Items(routes) /\ e \in Missed(recorded[b], resumed[r][b])
        /\ Items(events[b]) = recorded[b] /\ resumed[r][b] # NoResume
        /\ disturbed = {} /\ ~stale[c]
    BY ZenonT(30), <1>2, <1>3, <1>7 DEF Owed
  <2>2. OnItsWay(r, b, e)
    BY <1>7, <2>1 DEF OwedParts, Owed
  <2>3. Waiting(Worker, r)' = Waiting(Worker, r) /\ wire' = wire
    BY <1>2, <1>4 DEF Waiting
  <2>4. CASE b # c
    <3>1. Waiting(b, r)' = Waiting(b, r) /\ pc'[b] = pc[b] /\ previousHead'[b] = previousHead[b]
      BY <1>2, <1>4, <2>4 DEF Waiting
    <3> QED BY Zenon, <2>2, <2>3, <3>1 DEF OnItsWay, Carries
  <2>5. CASE b = c /\ Carries(Items(wire[r]) \cup Waiting(Worker, r) \cup Waiting(c, r), c, e.seq)
    <3>1. Items(out[c]) = {}
      <4>1. out[c] = <<>>
        BY Zenon, <1>2
      <4> QED BY <4>1 DEF Items
    <3>2. Waiting(c, r) = {}
      BY Zenon, <3>1 DEF Waiting
    <3> QED BY SMTT(20), <2>3, <2>5, <3>2 DEF OnItsWay, Carries
  <2>6. CASE b = c /\ e.seq > previousHead[c]
    <3>1. r \in Items(span[c])
      BY Zenon, <1>2, <2>1 DEF OwedParts, SpansCurrent, Publishing
    <3>2. BringsOutput(frames, r, c, previousHead[c])
      BY Zenon, <1>1, <2>1, <3>1 DEF IsLiveBatch
    <3>3. e \in Missed(Items(events[c]), previousHead[c])
      BY Zenon, <2>1, <2>6 DEF Missed
    <3>4. PICK a \in Items(frames) :
             a.route = r /\ a.frame.kind = "Output" /\ a.frame.command = c /\ a.frame.seq = e.seq
      BY <1>7, <3>2, <3>3 DEF BringsOutput
    <3>5. a.frame \in Waiting(c, r)'
      BY Zenon, <1>2, <3>4 DEF Waiting
    <3> QED BY <2>6, <3>4, <3>5 DEF OnItsWay, Carries
  <2> QED BY Zenon, <2>2, <2>4, <2>5, <2>6 DEF OnItsWay
<1> QED BY Zenon, <1>5, <1>6, <1>7 DEF OwedParts

-----------------------------------------------------------------------------
\* What sending the first frame of a batch changes.
FirstFrameGoes(th, next) ==
    /\ UNCHANGED <<vars, routes, publisherVars, resumed, disturbed>>
    /\ pc[th] = "sending" /\ pc'[th] \in {"idle", "sending"}
    /\ out[th] \in Seq(Addressed) /\ out[th] # <<>>
    /\ next = Head(out[th]) /\ next.route \in Routes /\ next.frame \in Frame
    /\ out'[th] = Tail(out[th])
    /\ \A x \in Threads \ {th} : pc'[x] = pc[x] /\ out'[x] = out[x]

\* What a route has been sent afterwards.
WireGrows(next) ==
    /\ \A r \in Routes : \A f \in Items(wire'[r]) :
          f \in Items(wire[r]) \/ (r = next.route /\ f = next.frame)
    /\ \A r \in Routes : Items(wire[r]) \subseteq Items(wire'[r])
    /\ next.frame.kind = "Output" => next.frame \in Items(wire'[next.route])
    /\ \A r \in Routes : \A i, j \in DOMAIN wire'[r] : i < j =>
          /\ i \in DOMAIN wire[r] /\ wire'[r][i] = wire[r][i]
          /\ \/ j \in DOMAIN wire[r] /\ wire'[r][j] = wire[r][j]
             \/ r = next.route /\ wire'[r][j] = next.frame

\* SendFrame does that.
LEMMA SendFrameGoes ==
    ASSUME ThreadsOK, DataOK, NEW th \in Threads, SendFrame(th)
    PROVE  FirstFrameGoes(th, Head(out[th])) /\ WireGrows(Head(out[th]))
<1> DEFINE next == Head(out[th])
<1>1. /\ UNCHANGED <<vars, linkVars, publisherVars, resumed, disturbed>> /\ pc[th] = "sending"
      /\ Send(th, Tail(out[th]))
      /\ wire' = IF next.frame.kind = "Output"
                 THEN [wire EXCEPT ![next.route] = Append(@, next.frame)]
                 ELSE wire
  BY DEF SendFrame
<1>2. DOMAIN pc = Threads /\ DOMAIN out = Threads /\ out[th] \in Seq(Addressed) /\ out[th] # <<>>
  BY <1>1 DEF ThreadsOK
<1>3. next.route \in Routes /\ next.frame \in Frame
  <2>1. next \in Addressed
    BY <1>2, TailFacts
  <2> HIDE DEF next
  <2> QED BY <2>1 DEF Addressed
<1>4. FirstFrameGoes(th, next)
  <2> HIDE DEF next
  <2>1. out' = [out EXCEPT ![th] = Tail(out[th])] /\ \E label \in {"idle", "sending"} : pc' = [pc EXCEPT ![th] = label]
    BY Zenon, <1>1 DEF Send, Goto
  <2>2. /\ out'[th] = Tail(out[th]) /\ pc'[th] \in {"idle", "sending"}
        /\ \A x \in Threads \ {th} : pc'[x] = pc[x] /\ out'[x] = out[x]
    BY <1>2, <2>1
  <2> QED BY <1>1, <1>2, <1>3, <2>2 DEF FirstFrameGoes, linkVars, next
<1>5. WireGrows(next)
  <2> HIDE DEF next
  <2>0. wire \in [Routes -> Seq(Frame)]
    BY DEF DataOK
  <2>1. CASE wire' = wire /\ next.frame.kind # "Output"
    BY <2>1 DEF WireGrows, Items
  <2>2. CASE wire' = [wire EXCEPT ![next.route] = Append(@, next.frame)]
    <3> DEFINE q == next.route
               g == next.frame
               t == Append(wire[q], g)
    <3>1. q \in Routes /\ wire'[q] = t /\ \A r \in Routes \ {q} : wire'[r] = wire[r]
      BY <1>3, <2>0, <2>2
    <3>2. wire[q] \in Seq(Frame) /\ g \in Frame
      BY <1>3, <2>0
    <3> HIDE DEF q, g
    <3>3. /\ DOMAIN t = 1..(Len(wire[q]) + 1) /\ DOMAIN wire[q] = 1..Len(wire[q]) /\ Len(wire[q]) \in Nat
          /\ t[Len(wire[q]) + 1] = g /\ \A i \in DOMAIN wire[q] : t[i] = wire[q][i]
      BY <3>2
    <3>4. /\ Len(wire[q]) + 1 \in DOMAIN t /\ DOMAIN wire[q] \subseteq DOMAIN t
          /\ \A i \in DOMAIN t : i \in DOMAIN wire[q] \/ i = Len(wire[q]) + 1
          /\ \A i, j \in DOMAIN t : i < j => i \in DOMAIN wire[q]
      BY <3>3
    <3> HIDE DEF t
    <3>5. Items(t) \subseteq Items(wire[q]) \cup {g} /\ Items(wire[q]) \subseteq Items(t) /\ g \in Items(t)
      BY <3>3, <3>4 DEF Items
    <3>6. /\ \A r \in Routes : \A f \in Items(wire'[r]) : f \in Items(wire[r]) \/ (r = q /\ f = g)
          /\ \A r \in Routes : Items(wire[r]) \subseteq Items(wire'[r])
          /\ g \in Items(wire'[q])
      BY <3>1, <3>5
    <3>7. ASSUME NEW r \in Routes, NEW i \in DOMAIN wire'[r], NEW j \in DOMAIN wire'[r], i < j
          PROVE  /\ i \in DOMAIN wire[r] /\ wire'[r][i] = wire[r][i]
                 /\ \/ j \in DOMAIN wire[r] /\ wire'[r][j] = wire[r][j]
                    \/ r = q /\ wire'[r][j] = g
      <4>1. CASE r = q
        BY <3>1, <3>3, <3>4, <3>7, <4>1
      <4>2. CASE r # q
        <5>1. wire'[r] = wire[r] /\ DOMAIN wire[r] = 1..Len(wire[r])
          BY <2>0, <3>1, <4>2
        <5> QED BY <3>7, <5>1
      <4> QED BY <4>1, <4>2
    <3> QED BY <3>6, <3>7 DEF WireGrows, q, g
  <2> QED BY <1>1, <2>1, <2>2
<1> QED BY <1>4, <1>5

\* A frame that goes out live is the publisher's, and newer than what its route
\* was sent of the window.
GoesInOrder(th, next) ==
    /\ next.frame.live => th \in Commands /\ next.frame.command = th /\ next.frame.seq <= headSequence
    /\ next.frame.live /\ "race" \notin disturbed =>
          \A f \in Items(wire[next.route]) : f.live /\ f.command = th => f.seq < next.frame.seq

\* That follows from the invariant.
LEMMA FirstIsNewer ==
    ASSUME LiveParts, NEW th \in Threads, NEW next, FirstFrameGoes(th, next)
    PROVE  GoesInOrder(th, next)
<1>1. next \in Items(out[th])
  BY TailFacts DEF FirstFrameGoes, Items
<1>2. CASE th = Worker
  BY <1>1, <1>2 DEF LiveParts, WorkerReplays, GoesInOrder
<1>3. CASE th \in Commands
  <2>1. SendsOwnOutput(th) /\ ("race" \notin disturbed => SendsNewer(th))
    BY Zenon, <1>3 DEF LiveParts, PublisherLive
  <2> QED BY Zenon, <1>1, <1>3, <2>1 DEF SendsOwnOutput, SendsNewer, GoesInOrder
<1> QED BY <1>2, <1>3 DEF Threads

\* SendFrame keeps what holds of the live frames.
LEMMA SendFrameLive ==
    ASSUME TypeOK, ThreadsOK, DataOK, LiveParts, NEW th \in Threads, SendFrame(th)
    PROVE  LiveParts'
<1> DEFINE next == Head(out[th])
<1>1. FirstFrameGoes(th, next) /\ WireGrows(next) /\ GoesInOrder(th, next)
  BY SendFrameGoes, FirstIsNewer
<1> HIDE DEF next
<1>2. /\ UNCHANGED <<routes, publisherVars, disturbed, headSequence>> /\ headSequence \in Nat
      /\ Worker \in Threads /\ Commands \subseteq Threads /\ Worker \notin Commands
      /\ \A x \in Threads \ {th} : pc'[x] = pc[x] /\ out'[x] = out[x]
  BY Zenon, <1>1, TunnelAssumption DEF FirstFrameGoes, vars, streamVars, Threads, TypeOK
<1>3. ASSUME NEW r \in Routes, NEW f \in Items(wire'[r]), f.live
      PROVE  \/ f \in Items(wire[r])
             \/ r = next.route /\ f = next.frame /\ th \in Commands /\ f.command = th /\ f.seq <= headSequence
  <2>1. f \in Items(wire[r]) \/ (r = next.route /\ f = next.frame)
    BY Zenon, <1>1 DEF WireGrows
  <2> QED BY Zenon, <1>1, <1>3, <2>1 DEF GoesInOrder
<1>4. LiveUpTo(headSequence)'
  BY Zenon, <1>2, <1>3 DEF LiveParts, LiveUpTo
<1>5. \A x \in Threads : Items(out'[x]) \subseteq Items(out[x])
  BY Zenon, <1>1, <1>2, TailFacts DEF FirstFrameGoes
<1>6. WorkerReplays'
  BY Zenon, <1>2, <1>5 DEF LiveParts, WorkerReplays
<1>7. ASSUME NEW c \in Commands PROVE PublisherLive(c)'
  <2>1. PublisherLive(c) /\ UNCHANGED <<span[c], previousHead[c]>>
    BY Zenon, <1>2 DEF LiveParts, publisherVars
  <2>2. SendsOwnOutput(c)'
    BY Zenon, <1>2, <1>5, <2>1 DEF PublisherLive, SendsOwnOutput
  <2>3. pc'[c] \in Publishing => LiveOfUpTo(c, previousHead[c])'
    <3>1. CASE c = th
      BY Zenon, <1>1, <3>1 DEF FirstFrameGoes, Publishing
    <3>2. CASE c # th
      <4>1. pc'[c] = pc[c]
        BY <1>2, <3>2
      <4> QED BY Zenon, <1>3, <2>1, <3>2, <4>1 DEF PublisherLive, LiveOfUpTo
    <3> QED BY <3>1, <3>2
  <2>4. ASSUME "race" \notin disturbed PROVE SendsNewer(c)'
    <3>1. SendsNewer(c)
      BY Zenon, <2>1, <2>4 DEF PublisherLive
    <3>2. CASE c # th
      <4>1. out'[c] = out[c] /\ \A a \in Items(out[c]) : a.route \in Routes
        BY Zenon, <1>2, <3>2, AddressedInBatch DEF ThreadsOK
      <4> QED BY Zenon, <1>3, <3>1, <3>2, <4>1 DEF SendsNewer, RouteOrdered
    <3>3. CASE c = th
      <4> DEFINE s == out[c]
      <4>1. s \in Seq(Addressed) /\ s # <<>> /\ next = Head(s) /\ out'[c] = Tail(s)
        BY <1>1, <3>3 DEF FirstFrameGoes
      <4>2. /\ \A i \in DOMAIN Tail(s) : i + 1 \in DOMAIN s /\ Tail(s)[i] = s[i + 1] /\ i \in Nat /\ i > 0
            /\ next = s[1] /\ 1 \in DOMAIN s
        BY <4>1, TailFacts
      <4>3. RouteOrdered(Tail(s))
        <5>1. RouteOrdered(s)
          BY <3>1 DEF SendsNewer
        <5> SUFFICES ASSUME NEW i \in DOMAIN Tail(s), NEW j \in DOMAIN Tail(s), i < j,
                            Tail(s)[i].route = Tail(s)[j].route
                     PROVE  Tail(s)[i].frame.seq < Tail(s)[j].frame.seq
          BY DEF RouteOrdered
        <5>2. /\ i + 1 \in DOMAIN s /\ Tail(s)[i] = s[i + 1] /\ j + 1 \in DOMAIN s /\ Tail(s)[j] = s[j + 1]
              /\ i + 1 < j + 1
          BY <4>2
        <5>3. s[i + 1].frame.seq < s[j + 1].frame.seq
          BY Zenon, <5>1, <5>2 DEF RouteOrdered
        <5> QED BY <5>2, <5>3
      <4>4. \A a \in Items(Tail(s)) : a.route = next.route => next.frame.seq < a.frame.seq
        <5>1. RouteOrdered(s)
          BY <3>1 DEF SendsNewer
        <5> QED BY <4>2, <5>1 DEF RouteOrdered, Items
      <4>5. ASSUME NEW a \in Items(Tail(s)), NEW f \in Items(wire'[a.route]), f.live, f.command = c
            PROVE  f.seq < a.frame.seq
        <5>1. a \in Items(s) /\ a.route \in Routes
          BY <4>1, TailFacts, AddressedInBatch
        <5>2. CASE f \in Items(wire[a.route])
          BY <3>1, <4>5, <5>1, <5>2 DEF SendsNewer
        <5>3. CASE a.route = next.route /\ f = next.frame
          BY <4>4, <5>3
        <5> QED BY Zenon, <1>3, <4>5, <5>1, <5>2, <5>3
      <4> QED BY Zenon, <4>1, <4>3, <4>5 DEF SendsNewer, RouteOrdered
    <3> QED BY <3>2, <3>3
  <2> QED BY Zenon, <1>2, <2>1, <2>2, <2>3, <2>4 DEF PublisherLive, Different
<1>8. LiveInOrder'
  <2> SUFFICES ASSUME "race" \notin disturbed, NEW r \in Routes, NEW i \in DOMAIN wire'[r], NEW j \in DOMAIN wire'[r],
                      i < j, wire'[r][i].live, wire'[r][j].live, wire'[r][i].command = wire'[r][j].command
               PROVE  wire'[r][i].seq < wire'[r][j].seq
    BY Zenon, <1>2 DEF LiveInOrder
  <2>0. /\ i \in DOMAIN wire[r] /\ wire'[r][i] = wire[r][i]
        /\ \/ j \in DOMAIN wire[r] /\ wire'[r][j] = wire[r][j]
           \/ r = next.route /\ wire'[r][j] = next.frame
    BY Zenon, <1>1 DEF WireGrows
  <2>1. wire[r][i] \in Items(wire[r])
    BY Zenon, <2>0 DEF Items
  <2>2. CASE j \in DOMAIN wire[r] /\ wire'[r][j] = wire[r][j]
    BY Zenon, <2>0, <2>2 DEF LiveParts, LiveInOrder
  <2>3. CASE r = next.route /\ wire'[r][j] = next.frame
    BY Zenon, <1>1, <2>0, <2>1, <2>3 DEF GoesInOrder
  <2> QED BY Zenon, <2>0, <2>2, <2>3
<1> QED BY Zenon, <1>2, <1>4, <1>6, <1>7, <1>8 DEF LiveParts, Different

\* SendFrame moves what a route is owed from a batch to the route.
LEMMA SendFrameOwed ==
    ASSUME TypeOK, ThreadsOK, DataOK, OwedParts, NEW th \in Threads, SendFrame(th)
    PROVE  OwedParts'
<1> DEFINE next == Head(out[th])
<1>1. FirstFrameGoes(th, next) /\ WireGrows(next)
  BY SendFrameGoes
<1> HIDE DEF next
<1>2. /\ UNCHANGED <<routes, publisherVars, resumed, disturbed, chunking, events, recorded>>
      /\ Worker \in Threads /\ Commands \subseteq Threads
      /\ \A x \in Threads \ {th} : pc'[x] = pc[x] /\ out'[x] = out[x]
      /\ pc[th] = "sending" /\ pc'[th] \in {"idle", "sending"}
  BY Zenon, <1>1 DEF FirstFrameGoes, vars, streamVars, Threads
<1>3. \A c \in Commands : pc[c] \in Publishing \/ pc'[c] \in Publishing => pc'[c] = pc[c]
  BY Zenon, <1>2 DEF Publishing
<1>4. HolderCollects'
  <2>1. ~Unlocked => chunking.command \in Commands
    BY DEF TypeOK, Unlocked
  <2> QED BY Zenon, <1>2, <1>3, <2>1 DEF OwedParts, HolderCollects, Unlocked, Publishing
<1>5. ClosedOwedNothing' /\ SpansCurrent'
  BY Zenon, <1>2, <1>3 DEF OwedParts, ClosedOwedNothing, SpansCurrent, publisherVars
<1>6. ASSUME NEW x \in Threads, NEW r \in Routes, NEW f \in Waiting(x, r), f.kind = "Output"
      PROVE  f \in Waiting(x, r)' \cup Items(wire'[r])
  <2>1. PICK a \in Items(out[x]) : a.route = r /\ a.frame = f
    BY Zenon DEF Waiting
  <2>2. CASE a \in Items(out'[x])
    BY Zenon, <2>1, <2>2 DEF Waiting
  <2>3. CASE x = th /\ a = next
    BY <1>1, <1>6, <2>1, <2>3 DEF WireGrows
  <2>4. x = th => a = next \/ a \in Items(out'[x])
    BY Zenon, <1>1, TailFacts DEF FirstFrameGoes
  <2> QED BY <1>2, <2>1, <2>2, <2>3, <2>4
<1>7. ASSUME NEW r \in Items(routes'), NEW c \in Commands, Owed(r, c)',
             NEW e \in Missed(recorded'[c], resumed'[r][c]), e.kind = "Output"
      PROVE  OnItsWay(r, c, e)'
  <2>0. r \in Routes
    <3>1. routes \in Seq(Routes) /\ r \in Items(routes)
      BY Zenon, <1>2 DEF DataOK
    <3> QED BY <3>1 DEF Items
  <2>1. OnItsWay(r, c, e)
    BY Zenon, <1>2, <1>7 DEF OwedParts, Owed
  <2>2. CASE Carries(Items(wire[r]) \cup Waiting(Worker, r) \cup Waiting(c, r), c, e.seq)
    <3>1. PICK f \in Items(wire[r]) \cup Waiting(Worker, r) \cup Waiting(c, r) :
             f.kind = "Output" /\ f.command = c /\ f.seq = e.seq
      BY Zenon, <2>2 DEF Carries
    <3>2. f \in Items(wire'[r]) \cup Waiting(Worker, r)' \cup Waiting(c, r)'
      BY Zenon, <1>1, <1>2, <1>6, <2>0, <3>1 DEF WireGrows
    <3> QED BY Zenon, <3>1, <3>2 DEF OnItsWay, Carries
  <2>3. CASE pc[c] = "collecting" /\ e.seq > previousHead[c]
    BY Zenon, <1>2, <1>3, <2>3 DEF OnItsWay, Publishing, publisherVars
  <2> QED BY Zenon, <2>1, <2>2, <2>3 DEF OnItsWay
<1> QED BY Zenon, <1>4, <1>5, <1>7 DEF OwedParts

\* SendFails drops a batch: nothing goes out, and what was owed is disturbed.
LEMMA SendFailsKeeps ==
    ASSUME TypeOK, ThreadsOK, DataOK, LiveParts, OwedParts, NEW th \in Threads, SendFails(th)
    PROVE  LiveParts' /\ OwedParts'
<1>1. /\ UNCHANGED <<vars, linkVars, publisherVars, wire, resumed>> /\ pc[th] = "sending"
      /\ disturbed' = disturbed \cup {"cut"}
      /\ out' = [out EXCEPT ![th] = <<>>] /\ pc' = [pc EXCEPT ![th] = "idle"]
  BY DEF SendFails, Send, Goto
<1>2. /\ DOMAIN pc = Threads /\ DOMAIN out = Threads
      /\ Worker \in Threads /\ Commands \subseteq Threads
  BY DEF ThreadsOK, Threads
<1>3. UNCHANGED <<routes, publisherVars, wire, resumed, headSequence, chunking>>
  BY <1>1 DEF vars, streamVars, linkVars
<1>4. /\ pc'[th] = "idle" /\ out'[th] = <<>> /\ Items(<<>>) = {}
      /\ \A x \in Threads \ {th} : pc'[x] = pc[x] /\ out'[x] = out[x]
  BY <1>1, <1>2 DEF Items
<1>5. \A c \in Commands : pc[c] \in Publishing \/ pc'[c] \in Publishing => pc'[c] = pc[c]
  BY <1>1, <1>2, <1>4 DEF Publishing
<1>6. ASSUME NEW c \in Commands PROVE PublisherLive(c)'
  <2>1. PublisherLive(c) /\ UNCHANGED <<span[c], previousHead[c]>>
    BY Zenon, <1>3 DEF LiveParts, publisherVars
  <2>2. out'[c] = out[c] \/ out'[c] = <<>>
    BY Zenon, <1>2, <1>4
  <2>3. SendsOwnOutput(c)'
    BY Zenon, <1>3, <1>4, <2>1, <2>2 DEF PublisherLive, SendsOwnOutput
  <2>4. pc'[c] \in Publishing => LiveOfUpTo(c, previousHead[c])'
    BY Zenon, <1>3, <1>5, <2>1 DEF PublisherLive, LiveOfUpTo
  <2>5. ASSUME "race" \notin disturbed PROVE SendsNewer(c)'
    <3>1. CASE out'[c] = out[c]
      BY ZenonT(30), <1>3, <2>1, <2>5, <3>1 DEF PublisherLive, SendsNewer, RouteOrdered
    <3>2. CASE out'[c] = <<>>
      <4>1. RouteOrdered(<<>>)
        BY DEF RouteOrdered
      <4> QED BY <1>4, <3>2, <4>1 DEF SendsNewer, RouteOrdered
    <3> QED BY Zenon, <2>2, <3>1, <3>2
  <2> QED BY Zenon, <1>1, <1>3, <2>1, <2>3, <2>4, <2>5 DEF PublisherLive, Different
<1>7. Different(routes') /\ LiveUpTo(headSequence)' /\ LiveInOrder'
  BY Zenon, <1>1, <1>3 DEF LiveParts, LiveUpTo, LiveInOrder, Different
<1>8. WorkerReplays'
  BY Zenon, <1>2, <1>4 DEF LiveParts, WorkerReplays
<1>9. HolderCollects'
  <2>1. ~Unlocked => chunking.command \in Commands
    BY DEF TypeOK, Unlocked
  <2> QED BY Zenon, <1>3, <1>5, <2>1 DEF OwedParts, HolderCollects, Unlocked, Publishing
<1>10. ClosedOwedNothing' /\ SpansCurrent'
  BY Zenon, <1>3, <1>5 DEF OwedParts, ClosedOwedNothing, SpansCurrent, publisherVars
<1>11. \A r, c : ~Owed(r, c)'
  BY Zenon, <1>1 DEF Owed
<1> QED BY Zenon, <1>6, <1>7, <1>8, <1>9, <1>10, <1>11 DEF LiveParts, OwedParts

\* SentIsRecorded over the steps that are not quiet.
LEMMA SendingSent ==
    ASSUME BatchesBuilt, TypeOK, StreamInvariant, ThreadsOK, DataOK, SentIsRecorded, TypeOK',
           \/ \E c \in Commands : Collect(c)
           \/ \E th \in Threads : SendFrame(th) \/ SendFails(th)
    PROVE  SentIsRecorded'
<1>1. ASSUME UNCHANGED vars, NEW th \in Threads, NEW frames \in Seq(Addressed), Send(th, frames),
             \A a \in Items(frames) : a \in Items(out[th]) \/ StandsForRecorded(a.frame)
      PROVE  SentIsRecorded'
  <2>1. StreamsGrow
    BY <1>1, StreamsStay DEF vars, streamVars
  <2>2. out' = [out EXCEPT ![th] = frames]
    BY <1>1 DEF Send
  <2> QED BY Zenon, <1>1, <2>1, <2>2, SentStays
<1>2. ASSUME NEW c \in Commands, Collect(c) PROVE SentIsRecorded'
  <2>1. PICK frames : IsLiveBatch(frames, c)
    BY <1>2 DEF BatchesBuilt
  <2>2. UNCHANGED vars /\ c \in Threads
    BY Zenon, <1>2 DEF Collect, Threads
  <2> QED BY Zenon, <1>1, <2>1, <2>2 DEF IsLiveBatch
<1>3. ASSUME NEW th \in Threads, SendFrame(th) \/ SendFails(th) PROVE SentIsRecorded'
  <2>1. pc[th] = "sending" /\ UNCHANGED vars /\ (Send(th, Tail(out[th])) \/ Send(th, <<>>))
    BY Zenon, <1>3 DEF SendFrame, SendFails
  <2>2. out[th] \in Seq(Addressed) /\ out[th] # <<>>
    BY <2>1 DEF ThreadsOK
  <2>3. Tail(out[th]) \in Seq(Addressed) /\ Items(Tail(out[th])) \subseteq Items(out[th])
    BY <2>2, TailFacts
  <2>4. <<>> \in Seq(Addressed) /\ Items(<<>>) = {}
    BY DEF Items
  <2> QED BY Zenon, <1>1, <2>1, <2>3, <2>4
<1> QED BY <1>2, <1>3

-----------------------------------------------------------------------------
\* Every step of the composition keeps the invariant of the delivery.
LEMMA StepDelivery ==
    ASSUME BatchesBuilt, DeliveryInvariant, TypeOK', StreamInvariant, StreamInvariant', ControlInvariant, SinkInvariant',
           ClockBehind', [TunnelNext]_<<vars, tunnelVars>>
    PROVE  DeliveryInvariant'
<1>1. TypeOK /\ ThreadsOK /\ DataOK /\ ClockBehind /\ LiveParts /\ OwedParts /\ SentIsRecorded
  BY TypeParts, LiveIsParts, OwedIsParts DEF DeliveryInvariant
<1>2. ThreadsOK' /\ DataOK'
  BY <1>1, StepThreads, StepData DEF DeliveryInvariant
<1>3. TunnelTypeOK'
  BY <1>2, TypeParts, PTL
<1>4. \/ Quiet
      \/ \E c \in Commands : Collect(c)
      \/ \E th \in Threads : SendFrame(th) \/ SendFails(th)
  BY <1>1, StepKinds DEF DeliveryInvariant
<1>5. SentIsRecorded'
  BY <1>1, <1>4, QuietSent, SendingSent
<1>6. LiveParts'
  BY <1>1, <1>4, QuietLive, CollectLive, SendFrameLive, SendFailsKeeps
<1>7. OwedParts'
  BY <1>1, <1>2, <1>4, QuietOwed, CollectOwed, SendFrameOwed, SendFailsKeeps
<1>8. LiveInvariant' /\ OwedInvariant'
  BY <1>6, <1>7, LiveIsParts, OwedIsParts, PTL
<1> QED BY <1>3, <1>5, <1>8 DEF DeliveryInvariant
==============================================================================
