------------------------ MODULE MirrorDeliveryProofs ------------------------
(***************************************************************************)
(* What the recovery planner promises and what the tunnel delivers: with   *)
(* all its threads the tunnel implements the recorder's specification, the *)
(* sink is given every input once, frames stand for recorded events, live  *)
(* frames keep their order, and replay and live output meet without a hole.*)
(***************************************************************************)
EXTENDS MirrorStepProofs, MirrorFrameProofs, MirrorSessionProofs

\* A host thread's step is an operation of the recorder.
LEMMA HostStepRefines ==
    ASSUME ClockBehind, HostStep
    PROVE  Next /\ ClockBehind'
<1>1. Next
  BY DEF HostStep, Next
<1>2. clock' = clock
  BY DEF HostStep, tunnelVars
<1>3. now' = now \/ now' = now + 1
  <2>1. CASE Tick
    BY <2>1 DEF Tick
  <2>2. CASE ~Tick
    BY Zenon, <2>2 DEF HostStep, BeginWindow, RecordResize, RecordTitle, RecordInput, AddCheckpoint, EndWindow,
                RecordOutputChunk, Close, GrantControl, RevokeControl, controlVars
  <2> QED BY <2>1, <2>2
<1> QED BY <1>1, <1>2, <1>3 DEF ClockBehind

\* A step of the worker is an operation of the recorder (a remote input), or
\* leaves the recorder alone.
LEMMA WorkerStepRefines ==
    ASSUME ClockBehind, WorkerStep
    PROVE  (Next \/ UNCHANGED vars) /\ ClockBehind'
<1>1. ASSUME UNCHANGED vars, clock' \in {0, clock, now}
      PROVE  (Next \/ UNCHANGED vars) /\ ClockBehind'
  BY <1>1 DEF vars, controlVars, ClockBehind
<1>2. ASSUME NEW r \in Routes, NEW c \in Commands, NEW k \in Clients, NEW id \in LeaseIds,
             ReceiveInput(r, c, k, id)
      PROVE  (Next \/ UNCHANGED vars) /\ ClockBehind'
  <2>1. Next
    BY <1>2 DEF ReceiveInput, Next, ClockBehind
  <2>2. clock' = 0 /\ now' = now
    BY <1>2 DEF ReceiveInput, EndReceive, TryCreateRemoteInputEffect
  <2> QED BY <2>1, <2>2 DEF ClockBehind
<1>3. CASE Connect \/ CloseTunnel \/ ReceiveOnce \/ ReceiveNothing \/ InputEffectSink
  BY <1>1, <1>3 DEF Connect, CloseTunnel, ReceiveOnce, ReceiveNothing, InputEffectSink, EndReceive
<1>4. ASSUME NEW r \in Routes, ReceivePing(r) \/ ReceiveRouteOpen(r) \/ ReceiveRouteClose(r)
      PROVE  (Next \/ UNCHANGED vars) /\ ClockBehind'
  BY <1>1, <1>4 DEF ReceivePing, ReceiveRouteOpen, ReceiveRouteClose, EndReceive
<1>5. ASSUME NEW r \in Routes, NEW c \in Commands, NEW n \in Positions, ReceiveResume(r, c, n)
      PROVE  (Next \/ UNCHANGED vars) /\ ClockBehind'
  BY <1>1, <1>5 DEF ReceiveResume, EndReceive
<1>6. ASSUME NEW r \in Routes, NEW c \in Commands, NEW k \in Clients, NEW id \in LeaseIds,
             ReceiveInputRejected(r, c, k, id)
      PROVE  (Next \/ UNCHANGED vars) /\ ClockBehind'
  BY <1>1, <1>6 DEF ReceiveInputRejected, EndReceive
<1> QED BY <1>2, <1>3, <1>4, <1>5, <1>6 DEF WorkerStep

\* A step of an output callback records output, or leaves the recorder alone.
LEMMA PublisherStepRefines ==
    ASSUME ClockBehind, NEW c \in Commands, PublisherStep(c)
    PROVE  (Next \/ UNCHANGED vars) /\ ClockBehind'
<1>1. CASE SendOutput(c) \/ PublishRefused(c) \/ Collect(c)
  BY Zenon, <1>1 DEF SendOutput, PublishRefused, Collect, vars, controlVars, ClockBehind
<1>2. ASSUME NEW n \in 1..MaxChunks, PublishRecord(c, n)
      PROVE  (Next \/ UNCHANGED vars) /\ ClockBehind'
  <2>1. Next
    BY <1>2 DEF PublishRecord, Next
  <2>2. clock' = clock /\ now' = now
    BY <1>2 DEF PublishRecord, RecordOutput, controlVars
  <2> QED BY <2>1, <2>2 DEF ClockBehind
<1> QED BY <1>1, <1>2 DEF PublisherStep

\* Every step of the composition is a step of the recorder or a stutter.
LEMMA TunnelStepRefines ==
    ASSUME ClockBehind, [TunnelNext]_<<vars, tunnelVars>>
    PROVE  [Next]_vars /\ ClockBehind'
<1>1. ASSUME NEW th \in Threads, SendFrame(th) \/ SendFails(th)
      PROVE  [Next]_vars /\ ClockBehind'
  BY <1>1 DEF SendFrame, SendFails, vars, controlVars, ClockBehind
<1>2. CASE UNCHANGED <<vars, tunnelVars>>
  BY <1>2 DEF vars, controlVars, tunnelVars, ClockBehind
<1> QED BY SMTT(20), <1>1, <1>2, HostStepRefines, WorkerStepRefines, PublisherStepRefines DEF TunnelNext

\* The tunnel implements the recorder's specification: no interleaving of the
\* worker, the output callbacks and the host makes the recorder do what its
\* operations, taken one at a time, could not.
THEOREM TunnelImplementsSession == TunnelSpec => Spec
<1>1. TunnelInit => Init /\ ClockBehind
  BY DEF TunnelInit, Init, ClockBehind
<1>2. ClockBehind /\ [TunnelNext]_<<vars, tunnelVars>> => [Next]_vars /\ ClockBehind'
  BY TunnelStepRefines
<1> QED BY <1>1, <1>2, PTL DEF TunnelSpec, Spec

\* A step that neither accepts an input nor hands one to the sink, and of the
\* worker only moves it between other places.
LEMMA SinkStays ==
    ASSUME SinkInvariant, UNCHANGED <<remoteInputs, effect, sunk>>,
           \/ pc' = pc
           \/ \E th \in Threads : \E label : pc' = [pc EXCEPT ![th] = label] /\ (th = Worker => pc[Worker] # "effect")
    PROVE  SinkInvariant'
<1>1. SinkFollowsLog'
  BY DEF SinkInvariant, SinkFollowsLog
<1>2. DOMAIN pc' = Threads /\ (effect' # {} => pc'[Worker] = "effect")
  <2>1. CASE pc' = pc
    BY <2>1 DEF SinkInvariant
  <2>2. ASSUME NEW th \in Threads, NEW label, pc' = [pc EXCEPT ![th] = label],
               th = Worker => pc[Worker] # "effect"
        PROVE  DOMAIN pc' = Threads /\ (effect' # {} => pc'[Worker] = "effect")
    <3>1. DOMAIN pc = Threads /\ DOMAIN pc' = Threads /\ Worker \in Threads
      BY <2>2 DEF SinkInvariant, Threads
    <3>2. th # Worker => pc'[Worker] = pc[Worker]
      BY <2>2, <3>1
    <3> QED BY <2>2, <3>1, <3>2 DEF SinkInvariant
  <2> QED BY <2>1, <2>2
<1> QED BY <1>1, <1>2 DEF SinkInvariant

\* ReceiveInput: the accepted input is newer than all before it, and the only
\* one under way.
LEMMA SinkReceives ==
    ASSUME TypeOK, ControlInvariant, SinkInvariant,
           NEW r, NEW c \in Commands, NEW k \in Clients, NEW id \in LeaseIds, ReceiveInput(r, c, k, id)
    PROVE  SinkInvariant'
<1> DEFINE i == [seq |-> headSequence + 1, client |-> k, id |-> id, at |-> clock, grant |-> Len(grants)]
<1>1. /\ pc[Worker] = "receiving" /\ remoteInputs' = remoteInputs \cup {i}
      /\ effect' = remoteInputs' \ remoteInputs
      /\ pc' = [pc EXCEPT ![Worker] = "effect"] /\ sunk' = sunk
  BY DEF ReceiveInput, TryCreateRemoteInputEffect, Goto, historyVars
<1>2. headSequence \in Nat /\ \A j \in remoteInputs : j.seq \in Nat /\ j.seq <= headSequence
  BY DEF TypeOK, RemoteInput, ControlInvariant
<1>3. i.seq = headSequence + 1
  OBVIOUS
<1> HIDE DEF i
<1>4. i \notin remoteInputs /\ effect' = {i}
  BY <1>1, <1>2, <1>3
<1>5. effect = {} /\ remoteInputs = Items(sunk)
  BY <1>1 DEF SinkInvariant, SinkFollowsLog
<1>6. SinkFollowsLog'
  BY <1>1, <1>2, <1>3, <1>4, <1>5 DEF SinkInvariant, SinkFollowsLog, Items
<1>7. DOMAIN pc' = Threads /\ pc'[Worker] = "effect"
  BY <1>1 DEF SinkInvariant, Threads
<1> QED BY <1>1, <1>4, <1>6, <1>7 DEF SinkInvariant

\* The sink is given the input under way, after all it was given before.
LEMMA SinkGiven ==
    ASSUME TypeOK, SinkInvariant, InputEffectSink
    PROVE  SinkInvariant'
<1>1. PICK i \in effect : sunk' = Append(sunk, i)
  BY DEF InputEffectSink
<1>2. effect = {i} /\ effect' = {} /\ remoteInputs' = remoteInputs /\ pc' = [pc EXCEPT ![Worker] = "idle"]
  BY <1>1 DEF InputEffectSink, Goto, vars, controlVars, SinkInvariant
<1>3. i \in RemoteInput /\ sunk \in Seq(RemoteInput)
  BY DEF SinkInvariant, SinkFollowsLog, TypeOK
<1>4. /\ sunk' \in Seq(RemoteInput) /\ DOMAIN sunk' = 1..(Len(sunk) + 1) /\ DOMAIN sunk = 1..Len(sunk)
      /\ Len(sunk) \in Nat /\ sunk'[Len(sunk) + 1] = i /\ \A n \in DOMAIN sunk : sunk'[n] = sunk[n]
  BY <1>1, <1>3
<1>5. Items(sunk') = Items(sunk) \cup {i}
  <2>1. \A n \in DOMAIN sunk' : n \in DOMAIN sunk \/ n = Len(sunk) + 1
    BY <1>4
  <2>2. Items(sunk') \subseteq Items(sunk) \cup {i}
    BY <1>4, <2>1 DEF Items
  <2>3. Items(sunk) \cup {i} \subseteq Items(sunk')
    BY <1>4 DEF Items
  <2> QED BY <2>2, <2>3
<1>6. \A m, n \in DOMAIN sunk' : m < n => sunk'[m].seq < sunk'[n].seq
  <2> SUFFICES ASSUME NEW m \in DOMAIN sunk', NEW n \in DOMAIN sunk', m < n
               PROVE  sunk'[m].seq < sunk'[n].seq
    OBVIOUS
  <2>1. m \in DOMAIN sunk /\ (n \in DOMAIN sunk \/ n = Len(sunk) + 1)
    BY <1>4
  <2>2. \A j \in Items(sunk) : j.seq < i.seq
    BY <1>2 DEF SinkInvariant, SinkFollowsLog
  <2>3. sunk[m] \in Items(sunk)
    BY <2>1 DEF Items
  <2> QED BY <1>4, <2>1, <2>2, <2>3 DEF SinkInvariant, SinkFollowsLog
<1>7. SinkFollowsLog'
  BY <1>2, <1>5, <1>6 DEF SinkInvariant, SinkFollowsLog
<1> QED BY <1>2, <1>4, <1>7 DEF SinkInvariant

\* Every step of the composition keeps the sink behind the log.
LEMMA StepSink ==
    ASSUME TypeOK, ControlInvariant, SinkInvariant, [TunnelNext]_<<vars, tunnelVars>>
    PROVE  SinkInvariant'
<1>0. Worker \in Threads /\ Worker \notin Commands /\ Commands \subseteq Threads
  BY TunnelAssumption DEF Threads
<1>1. CASE HostStep
  <2>1. UNCHANGED <<pc, effect, sunk>>
    BY <1>1 DEF HostStep, tunnelVars, historyVars
  <2>2. remoteInputs' = remoteInputs
    BY Zenon, <1>1 DEF HostStep, BeginWindow, RecordResize, RecordTitle, RecordInput, AddCheckpoint, EndWindow,
             RecordOutputChunk, Close, GrantControl, RevokeControl, Tick, controlVars
  <2> QED BY <2>1, <2>2, SinkStays
<1>2. CASE Connect \/ CloseTunnel
  BY <1>2, SinkStays DEF Connect, CloseTunnel, vars, controlVars, historyVars
<1>3. CASE ReceiveOnce \/ ReceiveNothing
  BY <1>0, <1>3, SinkStays DEF ReceiveOnce, ReceiveNothing, Goto, vars, controlVars, historyVars
<1>4. ASSUME NEW r \in Routes, ReceivePing(r) \/ ReceiveRouteOpen(r) \/ ReceiveRouteClose(r)
      PROVE  SinkInvariant'
  BY Zenon, <1>0, <1>4, SinkStays DEF ReceivePing, ReceiveRouteOpen, ReceiveRouteClose, Send, Goto, vars, controlVars, historyVars
<1>5. ASSUME NEW r \in Routes, NEW c \in Commands, NEW n \in Positions, ReceiveResume(r, c, n)
      PROVE  SinkInvariant'
  BY <1>0, <1>5, SinkStays DEF ReceiveResume, Send, Goto, vars, controlVars
<1>6. ASSUME NEW r \in Routes, NEW c \in Commands, NEW k \in Clients, NEW id \in LeaseIds,
             ReceiveInputRejected(r, c, k, id)
      PROVE  SinkInvariant'
  BY Zenon, <1>0, <1>6, SinkStays DEF ReceiveInputRejected, Send, Goto, vars, controlVars, historyVars
<1>7. ASSUME NEW c \in Commands, PublisherStep(c)
      PROVE  SinkInvariant'
  <2>1. UNCHANGED <<remoteInputs, effect, sunk>>
    BY Zenon, <1>7 DEF PublisherStep, SendOutput, PublishRecord, PublishRefused, Collect, RecordOutput,
             vars, controlVars, historyVars
  <2>2. \E label : pc' = [pc EXCEPT ![c] = label]
    BY Zenon, <1>7 DEF PublisherStep, SendOutput, PublishRecord, PublishRefused, Collect, Send, Goto
  <2> QED BY Zenon, <1>0, <2>1, <2>2, SinkStays
<1>8. ASSUME NEW th \in Threads, SendFrame(th) \/ SendFails(th)
      PROVE  SinkInvariant'
  <2>1. UNCHANGED <<remoteInputs, effect, sunk>> /\ pc[th] = "sending"
    BY Zenon, <1>8 DEF SendFrame, SendFails, vars, controlVars
  <2>2. \E label : pc' = [pc EXCEPT ![th] = label]
    BY Zenon, <1>8 DEF SendFrame, SendFails, Send, Goto
  <2> QED BY Zenon, <2>1, <2>2, SinkStays
<1>9. CASE UNCHANGED <<vars, tunnelVars>>
  BY <1>9, SinkStays DEF vars, controlVars, tunnelVars, historyVars
<1> QED
  BY <1>1, <1>2, <1>3, <1>4, <1>5, <1>6, <1>7, <1>8, <1>9, SinkReceives, SinkGiven DEF TunnelNext, WorkerStep

-----------------------------------------------------------------------------
\* A client that PlanWorkspaceMirrorRecovery tells to resume is sent exactly the
\* events it lacks.
THEOREM ResumeCorrect == Spec => []ResumeExact
<1>1. TypeOK /\ StreamInvariant => ResumeExact
  BY ResumeIsExact
<1> QED BY <1>1, TypeCorrect, StreamCorrect, PTL

\* A client whose plan is a replay is sent the window's whole log.
THEOREM ReplayCorrect == Spec => []ReplayExact
<1>1. TypeOK /\ StreamInvariant => ReplayExact
  BY ReplayIsExact
<1> QED BY <1>1, TypeCorrect, StreamCorrect, PTL

\* A checkpoint plan made while HasGap is clear carries exactly the events after
\* the checkpoint.
THEOREM CheckpointCorrect == Spec => []CheckpointExactWithoutGap
<1>1. TypeOK /\ StreamInvariant => CheckpointExactWithoutGap
  BY CheckpointIsExact
<1> QED BY <1>1, TypeCorrect, StreamCorrect, PTL

\* Every plan of PlanWorkspaceMirrorRecovery brings the client to the head it
\* names.
THEOREM PlansCorrect == Spec => []PlanReachesHead
<1>1. TypeOK /\ StreamInvariant => PlanReachesHead
  BY PlansReachHead
<1> QED BY <1>1, TypeCorrect, StreamCorrect, PTL

\* Over the tunnel too, what a client is sent to recover is exact and remote
\* inputs never interleave.
THEOREM TunnelSafe ==
    TunnelSpec => [](TypeOK /\ StreamInvariant /\ ResumeExact /\ ReplayExact /\ PlanReachesHead /\ OneController)
BY TunnelImplementsSession, TypeCorrect, StreamCorrect, ResumeCorrect, ReplayCorrect, PlansCorrect, ControlCorrect, PTL

\* The invariant of the sink holds throughout.
LEMMA SinkHolds == TunnelSpec => []SinkInvariant
<1>1. TunnelInit => SinkInvariant
  BY DEF TunnelInit, Init, SinkInvariant, SinkFollowsLog, Items
<1>2. TypeOK /\ ControlInvariant /\ SinkInvariant /\ [TunnelNext]_<<vars, tunnelVars>> => SinkInvariant'
  BY StepSink
<1> QED BY <1>1, <1>2, TunnelImplementsSession, TypeCorrect, ControlHolds, PTL DEF TunnelSpec

\* The sink is given the remote inputs of the log, once each and in the log's
\* order, although it is called after the recorder's mutex is released
\* (WorkspaceMirrorRouteDispatcher).
THEOREM SinkCorrect == TunnelSpec => []SinkFollowsLog
<1>1. SinkInvariant => SinkFollowsLog
  BY DEF SinkInvariant
<1> QED BY <1>1, SinkHolds, PTL

\* The invariant of the delivery holds throughout: over every interleaving of
\* the connection worker (WorkspaceMirrorDeviceTunnelClient::ReceiveOnce), the
\* output callbacks (SendOutput) and the host, for any number of windows, routes
\* and frames.
THEOREM DeliveryCorrect == TunnelSpec => []DeliveryInvariant
<1>1. TunnelInit => DeliveryInvariant
  <2> SUFFICES ASSUME TunnelInit PROVE DeliveryInvariant
    OBVIOUS
  <2>0. Init /\ TypeOK
    BY InitTypeOK DEF TunnelInit
  <2>1. /\ connected = FALSE /\ routes = <<>> /\ clock = 0 /\ effect = {} /\ sunk = <<>> /\ disturbed = {}
        /\ pc = [th \in Threads |-> "idle"] /\ out = [th \in Threads |-> <<>>]
        /\ span = [c \in Commands |-> <<>>] /\ stale = [c \in Commands |-> FALSE]
        /\ previousHead = [c \in Commands |-> 0] /\ wire = [r \in Routes |-> <<>>]
        /\ resumed = [r \in Routes |-> [c \in Commands |-> NoResume]]
        /\ headSequence = 0 /\ chunking.left = 0 /\ now = 0 /\ recorded = [c \in Commands |-> {}]
    BY DEF TunnelInit, Init
  <2>2. /\ Items(<<>>) = {} /\ Worker \in Threads /\ Commands \subseteq Threads
        /\ <<>> \in Seq(Addressed) /\ <<>> \in Seq(Frame) /\ <<>> \in Seq(Routes) /\ <<>> \in Seq(RemoteInput)
    BY DEF Items, Threads
  <2>3. TunnelTypeOK
    <3>1. ThreadsOK
      BY <2>1, <2>2 DEF ThreadsOK, Labels
    <3>2. DataOK
      BY <2>1, <2>2 DEF DataOK
    <3> QED BY <2>0, <2>1, <2>2, <3>1, <3>2 DEF ThreadsOK, DataOK, Labels, TunnelTypeOK
  <2>4. SentIsRecorded
    BY <2>1, <2>2 DEF SentIsRecorded
  <2>5. LiveParts
    <3>1. \A c \in Commands : PublisherLive(c)
      <4> SUFFICES ASSUME NEW c \in Commands PROVE PublisherLive(c)
        OBVIOUS
      <4>1. span[c] = <<>> /\ previousHead[c] = 0 /\ pc[c] = "idle" /\ out[c] = <<>>
        BY <2>1, <2>2
      <4>2. Different(<<>>) /\ RouteOrdered(<<>>)
        BY DEF Different, RouteOrdered
      <4> QED BY <2>1, <2>2, <4>1, <4>2 DEF PublisherLive, Publishing, SendsOwnOutput, SendsNewer
    <3>2. Different(routes) /\ WorkerReplays /\ LiveUpTo(headSequence) /\ LiveInOrder
      BY <2>1, <2>2 DEF Different, WorkerReplays, LiveUpTo, LiveInOrder
    <3> QED BY <3>1, <3>2 DEF LiveParts
  <2>6. OwedParts
    BY <2>1, <2>2 DEF OwedParts, HolderCollects, Unlocked, ClosedOwedNothing, SpansCurrent, Publishing
  <2> QED BY <2>3, <2>4, <2>5, <2>6, LiveIsParts, OwedIsParts DEF DeliveryInvariant
<1>2. /\ DeliveryInvariant /\ TypeOK' /\ StreamInvariant /\ StreamInvariant' /\ ControlInvariant /\ SinkInvariant'
      /\ [TunnelNext]_<<vars, tunnelVars>>
      => DeliveryInvariant'
  <2> SUFFICES ASSUME DeliveryInvariant, TypeOK', StreamInvariant, StreamInvariant', ControlInvariant,
                      SinkInvariant', [TunnelNext]_<<vars, tunnelVars>>
               PROVE  DeliveryInvariant'
    OBVIOUS
  <2>1. BatchesBuilt
    BY AllBuilt, TypeParts DEF DeliveryInvariant
  <2>2. ClockBehind'
    BY TypeParts, TunnelStepRefines DEF DeliveryInvariant
  <2> QED BY <2>1, <2>2, StepDelivery
<1> QED BY <1>1, <1>2, TunnelSafe, TunnelImplementsSession, ControlHolds, SinkHolds, PTL DEF TunnelSpec

\* Every local and field of the tunnel keeps its type, and its threads have
\* frames to send exactly in _sendAll.
THEOREM TunnelTypeCorrect == TunnelSpec => []TunnelTypeOK
<1>1. DeliveryInvariant => TunnelTypeOK
  BY DEF DeliveryInvariant
<1> QED BY <1>1, DeliveryCorrect, PTL

\* No frame that a thread has to send shows a client what was not recorded
\* (_emitRecovery and RecordOutputAndBuildEffects), a stale span included.
THEOREM SentCorrect == TunnelSpec => []SentIsRecorded
<1>1. DeliveryInvariant => SentIsRecorded
  BY DEF DeliveryInvariant
<1> QED BY <1>1, DeliveryCorrect, PTL

\* Live output reaches each route in the order it was recorded, none twice,
\* although SendOutput reads the head, records and copies in three critical
\* sections, as long as no span went stale.
THEOREM LiveOrderCorrect == TunnelSpec => []LiveInOrder
<1>1. DeliveryInvariant => LiveInOrder
  BY DEF DeliveryInvariant, LiveInvariant
<1> QED BY <1>1, DeliveryCorrect, PTL

\* At rest a route has all the output it was owed.
LEMMA OwedAtRest ==
    ASSUME ThreadsOK, OwedParts
    PROVE  NothingLostAtRest
<1> SUFFICES ASSUME NEW r \in Items(routes), NEW c \in Commands, Owed(r, c),
                    pc[Worker] # "sending", pc[c] = "idle",
                    NEW e \in Missed(recorded[c], resumed[r][c]), e.kind = "Output"
             PROVE  Carries(Items(wire[r]), c, e.seq)
  BY Zenon DEF NothingLostAtRest, Owed
<1>1. OnItsWay(r, c, e)
  BY SMTT(20) DEF OwedParts
<1>2. Carries(Items(wire[r]) \cup Waiting(Worker, r) \cup Waiting(c, r), c, e.seq)
  BY <1>1 DEF OnItsWay
<1>3. out[Worker] = <<>> /\ out[c] = <<>>
  BY DEF ThreadsOK, Threads
<1>4. Waiting(Worker, r) = {} /\ Waiting(c, r) = {}
  BY <1>3 DEF Waiting, Items
<1> QED BY <1>2, <1>4

\* Replay and live output meet without a hole: the plan of a Resume and the
\* batches of the window's callback together bring a route all the output since
\* the number it was told to start at, whatever the worker, the callbacks and
\* the host did in between, unless a batch was cut or a span went stale.
THEOREM NothingLostCorrect == TunnelSpec => []NothingLostAtRest
<1>1. DeliveryInvariant => NothingLostAtRest
  BY TypeParts, OwedIsParts, OwedAtRest DEF DeliveryInvariant
<1> QED BY <1>1, DeliveryCorrect, PTL
==============================================================================
