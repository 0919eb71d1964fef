------------------------- MODULE MirrorTunnelProofs -------------------------
(***************************************************************************)
(* What a step of MirrorTunnel does to the types of the state, to the      *)
(* streams and to the batches.  The steps that neither collect a batch nor *)
(* send a frame are quiet: they record at most, and begin or end a batch,  *)
(* and leave the frames on their way and what the routes are owed alone.   *)
(***************************************************************************)
EXTENDS MirrorBatches, TLAPS

\* What a step may do to the streams of the recorder: nothing to a window, or
\* one event more for it, and an Output event only for a window whose publisher
\* is then about to collect it.
StreamsGrow ==
    /\ headSequence' \in Nat /\ headSequence <= headSequence'
    /\ \A c \in Commands :
          \/ recorded'[c] = recorded[c] /\ events'[c] = events[c] /\ windowHead'[c] = windowHead[c]
          \/ \E e \in Event :
                /\ e.seq = headSequence + 1 /\ headSequence' = e.seq /\ windowHead'[c] = e.seq
                /\ recorded'[c] = recorded[c] \cup {e}
                /\ Items(events'[c]) \subseteq Items(events[c]) \cup {e}
                /\ e.kind = "Output" => pc'[c] = "collecting"

\* AppendBounded adds at most the new element.
LEMMA AppendBoundedMembers ==
    ASSUME NEW S, NEW s \in Seq(S), NEW x \in S, NEW limit
    PROVE  Items(AppendBounded(s, x, limit)) \subseteq Items(s) \cup {x}
<1> DEFINE t == Append(s, x)
<1>1. t \in Seq(S) /\ t # <<>> /\ Len(t) = Len(s) + 1 /\ Len(s) \in Nat
  OBVIOUS
<1>2. \A i \in 1..Len(t) : t[i] \in Items(s) \cup {x}
  BY DEF Items
<1> HIDE DEF t
<1>3. /\ DOMAIN t = 1..Len(t) /\ DOMAIN Tail(t) = 1..(Len(t) - 1)
      /\ \A i \in DOMAIN Tail(t) : Tail(t)[i] = t[i + 1] /\ i + 1 \in 1..Len(t)
  BY <1>1
<1>4. Items(t) \subseteq Items(s) \cup {x}
  BY <1>2, <1>3 DEF Items
<1>5. ASSUME NEW y \in Items(Tail(t)) PROVE y \in Items(s) \cup {x}
  <2>1. PICK i \in DOMAIN Tail(t) : y = Tail(t)[i]
    BY DEF Items
  <2> QED BY <1>2, <1>3, <2>1
<1> QED BY <1>4, <1>5 DEF AppendBounded, t

\* A recorded event makes the streams grow.
LEMMA RecordEventGrows ==
    ASSUME TypeOK, NEW b \in Commands, NEW kind \in Kinds, NEW value \in Value, RecordEvent(b, kind, value),
           kind = "Output" => pc'[b] = "collecting"
    PROVE  StreamsGrow
<1> DEFINE e == [seq |-> headSequence + 1, kind |-> kind, value |-> value]
<1>1. headSequence \in Nat /\ events[b] \in Seq(Event)
  BY DEF TypeOK
<1>2. e \in Event /\ e.seq = headSequence + 1 /\ e.kind = kind
  BY <1>1 DEF Event, Value
<1>3. /\ headSequence' = e.seq /\ windowHead' = [windowHead EXCEPT ![b] = e.seq]
      /\ events' = [events EXCEPT ![b] = AppendBounded(events[b], e, MaximumEvents)]
      /\ recorded' = [recorded EXCEPT ![b] = recorded[b] \cup {e}]
  BY DEF RecordEvent
<1> HIDE DEF e
<1>4. \A c \in Commands \ {b} : recorded'[c] = recorded[c] /\ events'[c] = events[c] /\ windowHead'[c] = windowHead[c]
  BY <1>3 DEF TypeOK
<1>5. /\ windowHead'[b] = e.seq /\ recorded'[b] = recorded[b] \cup {e}
      /\ events'[b] = AppendBounded(events[b], e, MaximumEvents)
  BY <1>3 DEF TypeOK
<1>6. Items(events'[b]) \subseteq Items(events[b]) \cup {e}
  BY <1>1, <1>2, <1>5, AppendBoundedMembers
<1>7. headSequence' \in Nat /\ headSequence <= headSequence'
  BY <1>1, <1>2, <1>3
<1>8. ASSUME NEW c \in Commands
      PROVE  \/ recorded'[c] = recorded[c] /\ events'[c] = events[c] /\ windowHead'[c] = windowHead[c]
             \/ \E f \in Event :
                   /\ f.seq = headSequence + 1 /\ headSequence' = f.seq /\ windowHead'[c] = f.seq
                   /\ recorded'[c] = recorded[c] \cup {f}
                   /\ Items(events'[c]) \subseteq Items(events[c]) \cup {f}
                   /\ f.kind = "Output" => pc'[c] = "collecting"
  BY Zenon, <1>2, <1>3, <1>4, <1>5, <1>6
<1> QED BY <1>7, <1>8 DEF StreamsGrow

\* A step that leaves the streams alone.
LEMMA StreamsStay ==
    ASSUME TypeOK, UNCHANGED <<headSequence, windowHead, events, recorded>>
    PROVE  StreamsGrow
BY DEF StreamsGrow, TypeOK

\* Host threads record output only as the rest of a call that a publisher made.
LEMMA HostGrows ==
    ASSUME TypeOK, HostStep, ~Unlocked => pc[chunking.command] = "collecting"
    PROVE  StreamsGrow
<1> USE DEF Kinds, Value
<1>0. pc' = pc
  BY Zenon DEF HostStep, tunnelVars
<1>1. ASSUME NEW c \in Commands, NEW s \in Sizes, BeginWindow(c, s) PROVE StreamsGrow
  BY <1>1, RecordEventGrows DEF BeginWindow
<1>2. ASSUME NEW c \in Commands, NEW s \in Sizes, RecordResize(c, s) PROVE StreamsGrow
  <2>1. CASE RecordEvent(c, "Resize", s)
    BY <2>1, RecordEventGrows
  <2>2. CASE UNCHANGED streamVars
    BY <2>2, StreamsStay DEF streamVars
  <2> QED BY <1>2, <2>1, <2>2 DEF RecordResize, RecordEventUnlessClosed
<1>3. ASSUME NEW c \in Commands, NEW t \in Titles, RecordTitle(c, t) PROVE StreamsGrow
  <2>1. CASE RecordEvent(c, "Title", t)
    BY <2>1, RecordEventGrows
  <2>2. CASE UNCHANGED streamVars
    BY <2>2, StreamsStay DEF streamVars
  <2> QED BY <1>3, <2>1, <2>2 DEF RecordTitle, RecordEventUnlessClosed
<1>4. ASSUME NEW c \in Commands, RecordInput(c) PROVE StreamsGrow
  BY <1>4, RecordEventGrows DEF RecordInput
<1>5. ASSUME NEW c \in Commands, AddCheckpoint(c) PROVE StreamsGrow
  BY <1>5, StreamsStay DEF AddCheckpoint
<1>6. ASSUME NEW c \in Commands, EndWindow(c) PROVE StreamsGrow
  <2>1. CASE RecordEvent(c, "Exited", Nothing)
    BY <2>1, RecordEventGrows
  <2>2. CASE UNCHANGED streamVars
    BY <2>2, StreamsStay DEF streamVars
  <2> QED BY <1>6, <2>1, <2>2 DEF EndWindow, RecordEventUnlessClosed
<1>7. CASE RecordOutputChunk
  <2>1. ~Unlocked /\ RecordEvent(chunking.command, "Output", Nothing)
    BY <1>7 DEF RecordOutputChunk
  <2>2. chunking.command \in Commands
    BY <2>1 DEF Unlocked, TypeOK
  <2> QED BY <1>0, <2>1, <2>2, RecordEventGrows
<1>8. CASE Close
  BY <1>8, StreamsStay DEF Close, streamVars
<1>9. ASSUME NEW k, NEW id, NEW t, NEW d, GrantControl(k, id, t, d) PROVE StreamsGrow
  BY <1>9, StreamsStay DEF GrantControl, streamVars
<1>10. ASSUME NEW k, RevokeControl(k) PROVE StreamsGrow
  BY <1>10, StreamsStay DEF RevokeControl, streamVars
<1>11. CASE Tick
  BY <1>11, StreamsStay DEF Tick, streamVars
<1> QED BY <1>1, <1>2, <1>3, <1>4, <1>5, <1>6, <1>7, <1>8, <1>9, <1>10, <1>11 DEF HostStep

\* What grows stays: numbers go up, what was recorded remains recorded, and a
\* window that has dropped an event has dropped it for good.
LEMMA GrowthFacts ==
    ASSUME TypeOK, StreamInvariant, StreamsGrow, NEW c \in Commands
    PROVE  /\ recorded[c] \subseteq recorded'[c]
           /\ windowHead[c] <= windowHead'[c]
           /\ Items(events'[c]) = recorded'[c] => Items(events[c]) = recorded[c]
           /\ \A e \in recorded'[c] \ recorded[c] :
                 e.seq > headSequence /\ (e.kind = "Output" => pc'[c] = "collecting")
<1>1. /\ headSequence \in Nat /\ windowHead[c] \in Nat /\ windowHead[c] <= headSequence
      /\ Items(events[c]) \subseteq recorded[c]
      /\ \A e \in recorded[c] : e.seq \in Nat /\ e.seq <= headSequence
  BY DEF TypeOK, Event, StreamInvariant, StreamShape, RetainedIsNewest, IsNewestPart
<1>2. CASE recorded'[c] = recorded[c] /\ events'[c] = events[c] /\ windowHead'[c] = windowHead[c]
  BY <1>1, <1>2
<1>3. ASSUME NEW e \in Event, e.seq = headSequence + 1, headSequence' = e.seq, windowHead'[c] = e.seq,
             recorded'[c] = recorded[c] \cup {e}, Items(events'[c]) \subseteq Items(events[c]) \cup {e},
             e.kind = "Output" => pc'[c] = "collecting"
      PROVE  /\ recorded[c] \subseteq recorded'[c]
             /\ windowHead[c] <= windowHead'[c]
             /\ Items(events'[c]) = recorded'[c] => Items(events[c]) = recorded[c]
             /\ \A f \in recorded'[c] \ recorded[c] :
                   f.seq > headSequence /\ (f.kind = "Output" => pc'[c] = "collecting")
  <2>1. e \notin recorded[c]
    BY <1>1, <1>3
  <2>2. Items(events'[c]) = recorded'[c] => Items(events[c]) = recorded[c]
    <3> SUFFICES ASSUME Items(events'[c]) = recorded'[c], NEW x \in recorded[c] PROVE x \in Items(events[c])
      BY Zenon, <1>1
    <3>1. x \in Items(events[c]) \cup {e}
      BY <1>3
    <3> QED BY <2>1, <3>1
  <2>3. windowHead[c] <= windowHead'[c]
    BY <1>1, <1>3
  <2>4. e.seq > headSequence
    BY <1>1, <1>3
  <2> QED BY Zenon, <1>3, <2>2, <2>3, <2>4
<1> QED BY <1>2, <1>3 DEF StreamsGrow

\* TunnelTypeOK is the types of the recorder, of the clock reading, of the sink,
\* of the threads and of the data.
LEMMA TypeParts ==
    /\ TunnelTypeOK => ThreadsOK /\ DataOK /\ TypeOK /\ ClockBehind
    /\ ThreadsOK /\ DataOK /\ TypeOK /\ ClockBehind /\ SinkInvariant => TunnelTypeOK
<1>1. TunnelTypeOK => ThreadsOK /\ DataOK /\ TypeOK /\ ClockBehind
  BY DEF TunnelTypeOK, ThreadsOK, DataOK, ClockBehind, TypeOK, Labels
<1>2. SinkInvariant /\ TypeOK => sunk \in Seq(RemoteInput) /\ effect \in SUBSET RemoteInput
  BY Zenon DEF SinkInvariant, SinkFollowsLog, TypeOK
<1>3. ThreadsOK /\ DataOK /\ TypeOK /\ ClockBehind /\ SinkInvariant => TunnelTypeOK
  BY <1>2 DEF TunnelTypeOK, ThreadsOK, DataOK, ClockBehind, Labels
<1> QED BY <1>1, <1>3

\* A thread that ends its handler with frames for _sendAll.
LEMMA SendKeepsThreads ==
    ASSUME ThreadsOK, NEW th \in Threads, NEW frames \in Seq(Addressed), Send(th, frames),
           pc[th] # "effect", effect' = effect
    PROVE  ThreadsOK'
<1>1. pc' \in [Threads -> Labels] /\ pc'[th] = IF frames = <<>> THEN "idle" ELSE "sending"
  BY DEF ThreadsOK, Send, Goto, Labels
<1>2. out' \in [Threads -> Seq(Addressed)] /\ out'[th] = frames
  BY DEF ThreadsOK, Send
<1>3. \A x \in Threads \ {th} : pc'[x] = pc[x] /\ out'[x] = out[x]
  BY DEF ThreadsOK, Send, Goto
<1>4. \A x \in Threads : pc'[x] = "sending" <=> out'[x] # <<>>
  BY <1>1, <1>2, <1>3 DEF ThreadsOK
<1>5. pc'[Worker] = "effect" <=> pc[Worker] = "effect"
  BY <1>1, <1>3 DEF Threads
<1> QED BY <1>1, <1>2, <1>4, <1>5 DEF ThreadsOK

\* A thread that goes on to another place without frames.
LEMMA GotoKeepsThreads ==
    ASSUME ThreadsOK, NEW th \in Threads, NEW label \in Labels \ {"sending"}, Goto(th, label),
           pc[th] # "sending", out' = out,
           IF th = Worker THEN effect' # {} <=> label = "effect" ELSE effect' = effect
    PROVE  ThreadsOK'
<1>1. pc' \in [Threads -> Labels] /\ pc'[th] = label
  BY DEF ThreadsOK, Goto
<1>2. \A x \in Threads \ {th} : pc'[x] = pc[x]
  BY DEF ThreadsOK, Goto
<1>3. \A x \in Threads : pc'[x] = "sending" <=> out'[x] # <<>>
  BY <1>1, <1>2 DEF ThreadsOK
<1>4. effect' # {} <=> pc'[Worker] = "effect"
  BY <1>1, <1>2 DEF ThreadsOK, Threads
<1> QED BY <1>1, <1>3, <1>4 DEF ThreadsOK

\* The answer to a frame is one frame.
LEMMA AnswerFrames ==
    ASSUME NEW r \in Routes
    PROVE  /\ <<Answer(r)>> \in Seq(Addressed) /\ Items(<<Answer(r)>>) = {Answer(r)}
           /\ Answer(r).frame.kind = "Answer" /\ ~Answer(r).frame.live
<1>1. Answer(r) \in Addressed /\ Answer(r).frame.kind = "Answer" /\ ~Answer(r).frame.live
  BY DEF Answer, To, Message, Addressed, Frame
<1>2. <<Answer(r)>> \in Seq(Addressed)
  BY <1>1
<1>3. Items(<<Answer(r)>>) = {Answer(r)}
  BY DEF Items
<1> QED BY <1>1, <1>2, <1>3

\* What is sent first, and what is then left, was waiting.
LEMMA TailFacts ==
    ASSUME NEW S, NEW s \in Seq(S), s # <<>>
    PROVE  /\ Head(s) \in S /\ Head(s) = s[1] /\ Tail(s) \in Seq(S)
           /\ 1 \in DOMAIN s
           /\ Items(Tail(s)) \subseteq Items(s)
           /\ Items(s) \subseteq {Head(s)} \cup Items(Tail(s))
           /\ \A i \in DOMAIN Tail(s) : i + 1 \in DOMAIN s /\ Tail(s)[i] = s[i + 1] /\ i \in Nat /\ i > 0
<1>1. Len(s) \in Nat \ {0} /\ DOMAIN s = 1..Len(s) /\ Head(s) = s[1] /\ Head(s) \in S
  OBVIOUS
<1>2. Tail(s) \in Seq(S) /\ Len(Tail(s)) = Len(s) - 1 /\ DOMAIN Tail(s) = 1..(Len(s) - 1)
  BY <1>1
<1>3. \A i \in DOMAIN Tail(s) : i + 1 \in DOMAIN s /\ Tail(s)[i] = s[i + 1] /\ i \in Nat /\ i > 0
  BY <1>1, <1>2
<1>4. Items(Tail(s)) \subseteq Items(s)
  BY <1>3 DEF Items
<1>5. ASSUME NEW x \in Items(s) PROVE x \in {Head(s)} \cup Items(Tail(s))
  <2>1. PICK i \in DOMAIN s : x = s[i]
    BY DEF Items
  <2>2. CASE i = 1
    BY <1>1, <2>1, <2>2
  <2>3. CASE i # 1
    <3>1. i - 1 \in DOMAIN Tail(s)
      BY <1>1, <1>2, <2>3
    <3>2. Tail(s)[i - 1] = s[(i - 1) + 1] /\ (i - 1) + 1 = i
      BY <1>1, <1>3, <3>1
    <3> QED BY <2>1, <3>1, <3>2 DEF Items
  <2> QED BY <2>2, <2>3
<1> QED BY <1>1, <1>2, <1>3, <1>4, <1>5

-----------------------------------------------------------------------------
\* The threads' places and batches keep their shape.
LEMMA StepThreads ==
    ASSUME TunnelTypeOK, ControlInvariant, BatchesBuilt, [TunnelNext]_<<vars, tunnelVars>>
    PROVE  ThreadsOK'
<1>0. /\ ThreadsOK /\ DataOK /\ TypeOK
      /\ Worker \in Threads /\ Worker \notin Commands /\ Commands \subseteq Threads
  BY TypeParts, TunnelAssumption DEF Threads
<1> USE <1>0
<1> USE DEF Labels
<1>1. CASE HostStep \/ Connect \/ CloseTunnel \/ UNCHANGED <<vars, tunnelVars>>
  BY <1>1 DEF HostStep, Connect, CloseTunnel, tunnelVars, ThreadsOK
<1>2. CASE ReceiveOnce \/ ReceiveNothing
  <2>1. effect = {} /\ effect' = {} /\ out' = out /\ pc[Worker] # "sending"
    BY <1>2 DEF ReceiveOnce, ReceiveNothing, ThreadsOK
  <2>2. Goto(Worker, "receiving") \/ Goto(Worker, "idle")
    BY <1>2 DEF ReceiveOnce, ReceiveNothing
  <2> QED BY <2>1, <2>2, GotoKeepsThreads
<1>3. ASSUME NEW r \in Routes, ReceivePing(r) \/ ReceiveRouteOpen(r) PROVE ThreadsOK'
  <2>1. Send(Worker, <<Answer(r)>>) /\ pc[Worker] = "receiving" /\ effect' = effect
    BY <1>3 DEF ReceivePing, ReceiveRouteOpen
  <2> QED BY Zenon, <2>1, AnswerFrames, SendKeepsThreads
<1>4. ASSUME NEW r \in Routes, ReceiveRouteClose(r) PROVE ThreadsOK'
  <2>1. Send(Worker, <<>>) /\ pc[Worker] = "receiving" /\ effect' = effect
    BY <1>4 DEF ReceiveRouteClose
  <2>2. <<>> \in Seq(Addressed)
    OBVIOUS
  <2> QED BY Zenon, <2>1, <2>2, SendKeepsThreads
<1>5. ASSUME NEW r \in Routes, NEW c \in Commands, NEW n \in Positions, ReceiveResume(r, c, n) PROVE ThreadsOK'
  <2>1. pc[Worker] = "receiving" /\ effect' = effect
    BY <1>5 DEF ReceiveResume
  <2>2. PICK frames : IsRecoveryBatch(frames, r, c)
    BY <1>5 DEF BatchesBuilt
  <2>3. frames \in Seq(Addressed) /\ Send(Worker, frames)
    BY <2>2 DEF IsRecoveryBatch
  <2> QED BY <2>1, <2>3, SendKeepsThreads
<1>6. ASSUME NEW r \in Routes, NEW c \in Commands, NEW k \in Clients, NEW id \in LeaseIds,
             ReceiveInput(r, c, k, id)
      PROVE  ThreadsOK'
  <2> DEFINE i == [seq |-> headSequence + 1, client |-> k, id |-> id, at |-> clock, grant |-> Len(grants)]
  <2>1. /\ pc[Worker] = "receiving" /\ out' = out /\ Goto(Worker, "effect")
        /\ remoteInputs' = remoteInputs \cup {i} /\ effect' = remoteInputs' \ remoteInputs
    BY <1>6 DEF ReceiveInput, TryCreateRemoteInputEffect
  <2>2. headSequence \in Nat /\ \A j \in remoteInputs : j.seq \in Nat /\ j.seq <= headSequence
    BY Zenon DEF TypeOK, RemoteInput, ControlInvariant
  <2>3. i.seq = headSequence + 1
    OBVIOUS
  <2> HIDE DEF i
  <2>4. effect' # {}
    BY <2>1, <2>2, <2>3
  <2> QED BY <2>1, <2>4, GotoKeepsThreads
<1>7. ASSUME NEW r \in Routes, NEW c \in Commands, NEW k \in Clients, NEW id \in LeaseIds,
             ReceiveInputRejected(r, c, k, id)
      PROVE  ThreadsOK'
  <2>1. Send(Worker, <<Answer(r)>>) /\ pc[Worker] = "receiving" /\ effect' = effect
    BY <1>7 DEF ReceiveInputRejected
  <2> QED BY Zenon, <2>1, AnswerFrames, SendKeepsThreads
<1>8. CASE InputEffectSink
  <2>1. pc[Worker] = "effect" /\ Goto(Worker, "idle") /\ effect' = {} /\ out' = out
    BY <1>8 DEF InputEffectSink
  <2> QED BY <2>1, GotoKeepsThreads
<1>9. ASSUME NEW c \in Commands, SendOutput(c) \/ PublishRefused(c) \/ \E n \in 1..MaxChunks : PublishRecord(c, n)
      PROVE  ThreadsOK'
  <2>1. pc[c] # "sending" /\ effect' = effect /\ out' = out
    BY <1>9 DEF SendOutput, PublishRefused, PublishRecord
  <2>2. Goto(c, "recording") \/ Goto(c, "idle") \/ Goto(c, "collecting")
    BY <1>9 DEF SendOutput, PublishRefused, PublishRecord
  <2> QED BY <2>1, <2>2, GotoKeepsThreads
<1>10. ASSUME NEW c \in Commands, Collect(c) PROVE ThreadsOK'
  <2>1. pc[c] = "collecting" /\ effect' = effect
    BY <1>10 DEF Collect
  <2>2. PICK frames : IsLiveBatch(frames, c)
    BY <1>10 DEF BatchesBuilt
  <2>3. frames \in Seq(Addressed) /\ Send(c, frames)
    BY <2>2 DEF IsLiveBatch
  <2> QED BY SMTT(20), <2>1, <2>3, SendKeepsThreads
<1>11. ASSUME NEW th \in Threads, SendFrame(th) \/ SendFails(th) PROVE ThreadsOK'
  <2>1. pc[th] = "sending" /\ effect' = effect /\ (Send(th, Tail(out[th])) \/ Send(th, <<>>))
    BY Zenon, <1>11 DEF SendFrame, SendFails
  <2>2. out[th] \in Seq(Addressed) /\ out[th] # <<>>
    BY <2>1 DEF ThreadsOK
  <2>3. Tail(out[th]) \in Seq(Addressed) /\ <<>> \in Seq(Addressed)
    BY <2>2
  <2> QED BY Zenon, <2>1, <2>3, SendKeepsThreads
<1> QED
  BY <1>1, <1>2, <1>3, <1>4, <1>5, <1>6, <1>7, <1>8, <1>9, <1>10, <1>11 DEF TunnelNext, WorkerStep, PublisherStep

\* The agent's routes, the publishers' locals and the history keep their types.
LEMMA StepData ==
    ASSUME TunnelTypeOK, BatchesBuilt, [TunnelNext]_<<vars, tunnelVars>>
    PROVE  DataOK'
<1>0. /\ ThreadsOK /\ DataOK /\ TypeOK
      /\ Worker \in Threads /\ Worker \notin Commands /\ Commands \subseteq Threads
  BY TypeParts, TunnelAssumption DEF Threads
<1> USE <1>0
<1>1. CASE UNCHANGED <<linkVars, publisherVars, wire, resumed, disturbed>>
  BY <1>1 DEF linkVars, publisherVars, DataOK
<1>2. CASE HostStep \/ ReceiveOnce \/ ReceiveNothing \/ InputEffectSink \/ UNCHANGED <<vars, tunnelVars>>
  BY <1>1, <1>2 DEF HostStep, ReceiveOnce, ReceiveNothing, InputEffectSink, tunnelVars, historyVars
<1>3. CASE Connect \/ CloseTunnel
  BY Zenon, <1>3 DEF Connect, CloseTunnel, DataOK, publisherVars, historyVars
<1>4. ASSUME NEW r \in Routes, ReceivePing(r) PROVE DataOK'
  BY <1>1, <1>4 DEF ReceivePing, historyVars
<1>5. ASSUME NEW r \in Routes, ReceiveRouteOpen(r) PROVE DataOK'
  <2>1. routes' = Append(routes, r) /\ UNCHANGED <<connected, span, previousHead, wire, resumed, disturbed>>
    BY Zenon, <1>5 DEF ReceiveRouteOpen, ModifyRoutes, historyVars
  <2>2. stale' = [c \in Commands |-> stale[c] \/ (Append(routes, r) # routes /\ pc[c] \in {"recording", "collecting"})]
    BY Zenon, <1>5 DEF ReceiveRouteOpen, ModifyRoutes
  <2>3. stale' \in [Commands -> BOOLEAN]
    BY <2>2
  <2>4. routes' \in Seq(Routes)
    BY <2>1 DEF DataOK
  <2> QED BY <2>1, <2>3, <2>4 DEF DataOK
<1>6. ASSUME NEW r \in Routes, ReceiveRouteClose(r) PROVE DataOK'
  <2>1. UNCHANGED <<connected, span, previousHead, wire, disturbed>>
    BY <1>6 DEF ReceiveRouteClose, ModifyRoutes
  <2>2. stale' = [c \in Commands |-> stale[c] \/ (routes' # routes /\ pc[c] \in {"recording", "collecting"})]
    BY <1>6, <2>1 DEF ReceiveRouteClose, ModifyRoutes
  <2>3. stale' \in [Commands -> BOOLEAN]
    BY <2>2
  <2>4. routes' \in Seq(Routes)
    BY <1>6 DEF BatchesBuilt, RouteRemoved
  <2>5. resumed' \in [Routes -> [Commands -> Nat \cup {NoResume}]]
    BY <1>6 DEF ReceiveRouteClose, DataOK
  <2> QED BY <2>1, <2>3, <2>4, <2>5 DEF DataOK
<1>7. ASSUME NEW r \in Routes, NEW c \in Commands, NEW n \in Positions, ReceiveResume(r, c, n) PROVE DataOK'
  <2>1. UNCHANGED <<linkVars, publisherVars, wire, disturbed>>
    BY <1>7 DEF ReceiveResume
  <2>2. PICK frames : IsRecoveryBatch(frames, r, c)
    BY <1>7 DEF BatchesBuilt
  <2>3. resumed' = resumed \/ \E base \in Nat : resumed' = [resumed EXCEPT ![r][c] = base]
    BY <2>2 DEF IsRecoveryBatch
  <2>4. resumed' \in [Routes -> [Commands -> Nat \cup {NoResume}]]
    <3>1. resumed \in [Routes -> [Commands -> Nat \cup {NoResume}]]
      BY DEF DataOK
    <3>2. ASSUME NEW base \in Nat, resumed' = [resumed EXCEPT ![r][c] = base]
          PROVE  resumed' \in [Routes -> [Commands -> Nat \cup {NoResume}]]
      <4>1. [resumed[r] EXCEPT ![c] = base] \in [Commands -> Nat \cup {NoResume}]
        BY <3>1
      <4> QED BY <3>1, <3>2, <4>1
    <3> QED BY <2>3, <3>1, <3>2
  <2> QED BY <2>1, <2>4 DEF DataOK, linkVars, publisherVars
<1>8. ASSUME NEW r \in Routes, NEW c \in Commands, NEW k \in Clients, NEW id \in LeaseIds,
             ReceiveInput(r, c, k, id) \/ ReceiveInputRejected(r, c, k, id)
      PROVE  DataOK'
  BY <1>1, <1>8 DEF ReceiveInput, ReceiveInputRejected, historyVars
<1>9. ASSUME NEW c \in Commands, SendOutput(c) PROVE DataOK'
  <2>1. /\ span' = [span EXCEPT ![c] = routes] /\ stale' = [stale EXCEPT ![c] = FALSE]
        /\ previousHead' = [previousHead EXCEPT ![c] = headSequence]
        /\ UNCHANGED <<linkVars, wire, resumed, disturbed>>
    BY <1>9 DEF SendOutput, historyVars
  <2> QED BY <2>1 DEF DataOK, linkVars, TypeOK
<1>10. ASSUME NEW c \in Commands, NEW n \in 1..MaxChunks, PublishRecord(c, n) PROVE DataOK'
  BY <1>1, <1>10 DEF PublishRecord, historyVars
<1>11. ASSUME NEW c \in Commands, PublishRefused(c) \/ Collect(c) PROVE DataOK'
  <2>1. /\ span' = [span EXCEPT ![c] = <<>>] /\ stale' = [stale EXCEPT ![c] = FALSE]
        /\ previousHead' = [previousHead EXCEPT ![c] = 0]
        /\ UNCHANGED <<linkVars, wire, resumed>>
    BY Zenon, <1>11 DEF PublishRefused, Collect, LeaveScope, historyVars
  <2>2. disturbed' \subseteq disturbed \cup {"race"}
    BY Zenon, <1>11 DEF PublishRefused, Collect, historyVars
  <2> QED BY <2>1, <2>2 DEF DataOK, linkVars
<1>12. ASSUME NEW th \in Threads, SendFrame(th) PROVE DataOK'
  <2>1. UNCHANGED <<linkVars, publisherVars, resumed, disturbed>>
    BY ZenonT(30), <1>12 DEF SendFrame
  <2>2. out[th] \in Seq(Addressed) /\ out[th] # <<>>
    BY <1>12 DEF ThreadsOK, SendFrame
  <2>3. Head(out[th]).route \in Routes /\ Head(out[th]).frame \in Frame
    <3>1. Head(out[th]) \in Addressed
      BY <2>2, TailFacts
    <3> QED BY <3>1 DEF Addressed
  <2>4. \/ wire' = wire
        \/ wire' = [wire EXCEPT ![Head(out[th]).route] = Append(@, Head(out[th]).frame)]
    BY Zenon, <1>12 DEF SendFrame
  <2>5. wire' \in [Routes -> Seq(Frame)]
    <3> DEFINE r == Head(out[th]).route
               f == Head(out[th]).frame
    <3>1. wire \in [Routes -> Seq(Frame)] /\ r \in Routes /\ f \in Frame
      BY <2>3 DEF DataOK
    <3>2. wire' = wire \/ wire' = [wire EXCEPT ![r] = Append(wire[r], f)]
      BY Zenon, <2>4
    <3> HIDE DEF r, f
    <3>3. Append(wire[r], f) \in Seq(Frame)
      BY <3>1
    <3> QED BY Zenon, <3>1, <3>2, <3>3
  <2> QED BY <2>1, <2>5 DEF DataOK, linkVars, publisherVars
<1>13. ASSUME NEW th \in Threads, SendFails(th) PROVE DataOK'
  BY <1>13 DEF SendFails, DataOK, linkVars, publisherVars
<1> QED
  BY <1>2, <1>3, <1>4, <1>5, <1>6, <1>7, <1>8, <1>9, <1>10, <1>11, <1>12, <1>13
     DEF TunnelNext, WorkerStep, PublisherStep


LEMMA AddressedInBatch ==
    /\ \A s \in Seq(Addressed) : \A a \in Items(s) : a.route \in Routes /\ a.frame.seq \in Nat
    /\ \A s \in Seq(Frame) : \A f \in Items(s) : f.seq \in Nat
<1>1. \A a \in Addressed : a.route \in Routes /\ a.frame \in Frame
  BY DEF Addressed
<1>2. \A f \in Frame : f.seq \in Nat
  BY DEF Frame
<1>3. \A s \in Seq(Addressed) : \A a \in Items(s) : a \in Addressed
  BY DEF Items
<1>4. \A s \in Seq(Frame) : \A f \in Items(s) : f \in Frame
  BY DEF Items
<1> QED BY <1>1, <1>2, <1>3, <1>4

\* The invariant survives a step that changes one thread's batch, if the frames
\* it adds stand for recorded events.
LEMMA SentStays ==
    ASSUME TypeOK, StreamInvariant, StreamsGrow, TypeOK', ThreadsOK, SentIsRecorded,
           NEW th \in Threads, NEW frames \in Seq(Addressed), out' = [out EXCEPT ![th] = frames],
           \A a \in Items(frames) : a \in Items(out[th]) \/ StandsForRecorded(a.frame)
    PROVE  SentIsRecorded'
<1>1. ASSUME NEW f, f.seq \in Nat, StandsForRecorded(f) PROVE StandsForRecorded(f)'
  <2>1. ASSUME NEW c \in Commands
        PROVE  /\ recorded[c] \subseteq recorded'[c]
               /\ windowHead[c] \in Nat /\ windowHead'[c] \in Nat /\ windowHead[c] <= windowHead'[c]
    BY Zenon, GrowthFacts DEF TypeOK
  <2>2. CASE f.kind = "Answer"
    BY Zenon, <2>2 DEF StandsForRecorded
  <2>3. CASE f.kind \in {"Output", "Resize", "Closed"}
    <3>1. f.command \in Commands /\ recorded[f.command] \subseteq recorded'[f.command]
      BY <1>1, <2>1, <2>3 DEF StandsForRecorded
    <3>2. PICK e \in recorded[f.command] :
             e.seq = f.seq /\ e.kind \in DOMAIN MessageKind /\ MessageKind[e.kind] = f.kind
      BY Zenon, <1>1, <2>3 DEF StandsForRecorded
    <3> QED BY <2>3, <3>1, <3>2 DEF StandsForRecorded
  <2>4. CASE f.kind = "Checkpoint"
    <3>1. f.command \in Commands /\ f.seq <= windowHead[f.command]
      BY <1>1, <2>4 DEF StandsForRecorded
    <3>2. f.seq <= windowHead'[f.command]
      BY <1>1, <2>1, <3>1
    <3> QED BY <2>4, <3>1, <3>2 DEF StandsForRecorded
  <2>5. CASE f.kind \notin {"Answer", "Output", "Resize", "Closed", "Checkpoint"}
    BY <1>1, <2>5 DEF StandsForRecorded
  <2> QED BY <2>2, <2>3, <2>4, <2>5
<1>2. ASSUME NEW x \in Threads, NEW a \in Items(out'[x]) PROVE a.frame.seq \in Nat /\ StandsForRecorded(a.frame)
  <2>1. DOMAIN out = Threads /\ out[x] \in Seq(Addressed)
    BY DEF ThreadsOK
  <2>2. CASE x = th
    <3>1. a \in Items(frames)
      BY <1>2, <2>1, <2>2
    <3> QED BY <3>1, AddressedInBatch DEF SentIsRecorded
  <2>3. CASE x # th
    <3>1. out'[x] = out[x]
      BY <2>1, <2>3
    <3> QED BY <1>2, <2>1, <3>1, AddressedInBatch DEF SentIsRecorded
  <2> QED BY <2>2, <2>3
<1> QED BY <1>1, <1>2 DEF SentIsRecorded

-----------------------------------------------------------------------------
(***************************************************************************)
(* All steps but Collect, SendFrame and SendFails are quiet: they send and *)
(* collect nothing.  What the invariants need of such a step is said once, *)
(* thread by thread.                                                       *)
(***************************************************************************)
\* The worker's batch stays, or is made from none of recorded events.
IsWorkerBatch(frames) ==
    /\ frames \in Seq(Addressed)
    /\ out' = [out EXCEPT ![Worker] = frames]
    /\ \/ frames = out[Worker]
       \/ out[Worker] = <<>> /\ \A a \in Items(frames) : ~a.frame.live /\ StandsForRecorded(a.frame)

Publishing == {"recording", "collecting"}

\* A publisher stays where it is and learns of a change of the routes; begins;
\* records; or is refused.
PublisherStays(c) ==
    /\ pc'[c] = pc[c] /\ span'[c] = span[c] /\ previousHead'[c] = previousHead[c]
    /\ pc[c] \in Publishing => stale'[c] \/ (~stale[c] /\ routes' = routes)

PublisherBegins(c) ==
    /\ pc[c] = "idle" /\ pc'[c] = "recording"
    /\ span'[c] = routes /\ routes' = routes /\ previousHead'[c] = headSequence

PublisherRecords(c) ==
    /\ pc[c] = "recording" /\ pc'[c] = "collecting"
    /\ span'[c] = span[c] /\ stale'[c] = stale[c] /\ routes' = routes /\ previousHead'[c] = previousHead[c]

PublisherLeaves(c) ==
    /\ pc[c] = "recording" /\ pc'[c] = "idle"
    /\ span'[c] = <<>> /\ previousHead'[c] = 0

QuietPublishers ==
    \A c \in Commands : PublisherStays(c) \/ PublisherBegins(c) \/ PublisherRecords(c) \/ PublisherLeaves(c)

\* A route is owed nothing, what it was owed, or what the worker's batch brings.
OwedAsBefore(r, c) == resumed'[r][c] = resumed[r][c] /\ (r \in Items(routes) <=> r \in Items(routes'))

OwedFromBatch(r, c) ==
    /\ r \in Items(routes')
    /\ recorded'[c] = recorded[c]
    /\ BringsOutput(out'[Worker], r, c, resumed'[r][c])

QuietRoutes ==
    /\ Different(routes')
    /\ \A r \in Routes, c \in Commands : resumed'[r][c] = NoResume \/ OwedAsBefore(r, c) \/ OwedFromBatch(r, c)

\* Who holds the recorder's mutex is collecting.
HolderCollects == ~Unlocked => pc[chunking.command] = "collecting"

Quiet ==
    /\ StreamsGrow
    /\ wire' = wire /\ disturbed' = disturbed
    /\ \E frames : IsWorkerBatch(frames)
    /\ QuietPublishers
    /\ QuietRoutes
    /\ HolderCollects'

\* The parts of LiveInvariant: the worker's frames are not live; none that was
\* sent is past the head; and what holds of the publisher of window c: its span
\* and head, what it has not read yet, and what it has yet to send.
WorkerReplays == \A a \in Items(out[Worker]) : ~a.frame.live

LiveUpTo(n) == \A r \in Routes : \A f \in Items(wire[r]) : f.live => f.seq <= n

LiveOfUpTo(c, n) == \A r \in Routes : \A f \in Items(wire[r]) : f.live /\ f.command = c => f.seq <= n

SendsOwnOutput(c) ==
    \A a \in Items(out[c]) : a.frame.kind = "Output" /\ a.frame.command = c /\ a.frame.seq <= headSequence

SendsNewer(c) ==
    /\ RouteOrdered(out[c])
    /\ \A a \in Items(out[c]) : \A f \in Items(wire[a.route]) : f.live /\ f.command = c => f.seq < a.frame.seq

PublisherLive(c) ==
    /\ Different(span[c])
    /\ previousHead[c] <= headSequence
    /\ pc[c] \in Publishing => LiveOfUpTo(c, previousHead[c])
    /\ SendsOwnOutput(c)
    /\ "race" \notin disturbed => SendsNewer(c)

LiveParts ==
    /\ Different(routes) /\ WorkerReplays /\ LiveUpTo(headSequence)
    /\ \A c \in Commands : PublisherLive(c)
    /\ LiveInOrder

\* They are the invariant.
LEMMA LiveIsParts ==
    LiveInvariant <=> LiveParts
BY Zenon DEF LiveInvariant, LiveParts, Different, WorkerReplays, LiveUpTo, LiveOfUpTo, SendsOwnOutput, SendsNewer,
       PublisherLive, RouteOrdered, Publishing

\* A step that leaves the publishers and the routes alone.
LEMMA NobodyPublishes ==
    ASSUME ThreadsOK, DataOK, LiveParts, UNCHANGED <<publisherVars, routes, resumed>>,
           \A c \in Commands : pc'[c] = pc[c]
    PROVE  QuietPublishers /\ QuietRoutes
<1>1. \A c \in Commands : PublisherStays(c)
  BY Zenon DEF PublisherStays, publisherVars
<1>2. Different(routes') /\ \A r \in Routes, c \in Commands : OwedAsBefore(r, c)
  BY Zenon DEF OwedAsBefore, LiveParts
<1> QED BY <1>1, <1>2 DEF QuietPublishers, QuietRoutes

\* A step that leaves the routes alone.
LEMMA RoutesStay ==
    ASSUME LiveParts, UNCHANGED <<routes, resumed>>
    PROVE  QuietRoutes
BY Zenon DEF OwedAsBefore, QuietRoutes, LiveParts

\* A step of the worker moves no publisher.
LEMMA WorkerGoes ==
    ASSUME ThreadsOK, NEW label, Goto(Worker, label)
    PROVE  \A c \in Commands : pc'[c] = pc[c]
<1>1. DOMAIN pc = Threads /\ Commands \subseteq Threads /\ Worker \notin Commands
  BY TunnelAssumption DEF ThreadsOK, Threads
<1> QED BY <1>1 DEF Goto

\* A step that leaves the recorder alone.
LEMMA RecorderStays ==
    ASSUME TypeOK, HolderCollects, UNCHANGED vars, \A c \in Commands : pc[c] = "collecting" => pc'[c] = "collecting"
    PROVE  StreamsGrow /\ HolderCollects'
<1>1. StreamsGrow
  BY StreamsStay DEF vars, streamVars
<1>2. chunking' = chunking /\ (~Unlocked => chunking.command \in Commands)
  BY DEF vars, TypeOK, Unlocked
<1> QED BY <1>1, <1>2 DEF HolderCollects, Unlocked

\* A batch that stays.
LEMMA BatchStays ==
    ASSUME ThreadsOK, out' = out
    PROVE  IsWorkerBatch(out[Worker])
<1>1. out \in [Threads -> Seq(Addressed)] /\ Worker \in Threads
  BY DEF ThreadsOK, Threads
<1>2. out[Worker] \in Seq(Addressed) /\ out' = [out EXCEPT ![Worker] = out[Worker]]
  BY SMTT(20), <1>1
<1> QED BY Zenon, <1>2 DEF IsWorkerBatch

\* A batch that is made.
LEMMA BatchMade ==
    ASSUME ThreadsOK, pc[Worker] = "receiving", NEW frames \in Seq(Addressed), Send(Worker, frames),
           \A a \in Items(frames) : ~a.frame.live /\ StandsForRecorded(a.frame)
    PROVE  IsWorkerBatch(frames) /\ \A c \in Commands : pc'[c] = pc[c]
<1>1. out[Worker] = <<>>
  BY DEF ThreadsOK, Threads
<1>2. \A c \in Commands : pc'[c] = pc[c]
  BY WorkerGoes DEF Send
<1> QED BY <1>1, <1>2 DEF IsWorkerBatch, Send

\* An answer.
LEMMA AnswerMade ==
    ASSUME ThreadsOK, pc[Worker] = "receiving", NEW r \in Routes, Send(Worker, <<Answer(r)>>)
    PROVE  (\E frames : IsWorkerBatch(frames)) /\ \A c \in Commands : pc'[c] = pc[c]
<1>1. \A a \in Items(<<Answer(r)>>) : ~a.frame.live /\ StandsForRecorded(a.frame)
  BY Zenon, AnswerFrames DEF StandsForRecorded
<1> QED BY Zenon, <1>1, AnswerFrames, BatchMade

\* RouteOpen: the vector grows by a route that it did not have, and that is owed
\* nothing.
LEMMA RouteOpenQuiet ==
    ASSUME ThreadsOK, DataOK, LiveParts, OwedInvariant, NEW r \in Routes, ReceiveRouteOpen(r)
    PROVE  QuietPublishers /\ QuietRoutes
<1>1. /\ pc[Worker] = "receiving" /\ r \notin Items(routes) /\ routes' = Append(routes, r)
      /\ span' = span /\ previousHead' = previousHead /\ resumed' = resumed
      /\ stale' = [c \in Commands |-> stale[c] \/ (routes' # routes /\ pc[c] \in Publishing)]
  BY DEF ReceiveRouteOpen, ModifyRoutes, historyVars, Publishing
<1>2. \A c \in Commands : pc'[c] = pc[c]
  BY Zenon, AnswerMade DEF ReceiveRouteOpen
<1>3. routes \in Seq(Routes) /\ stale \in [Commands -> BOOLEAN]
  BY DEF DataOK
<1>4. /\ DOMAIN routes' = 1..(Len(routes) + 1) /\ DOMAIN routes = 1..Len(routes) /\ Len(routes) \in Nat
      /\ routes'[Len(routes) + 1] = r /\ \A i \in DOMAIN routes : routes'[i] = routes[i]
  BY <1>1, <1>3
<1>5. routes' # routes
  BY <1>4
<1>6. \A c \in Commands : PublisherStays(c)
  <2> SUFFICES ASSUME NEW c \in Commands PROVE PublisherStays(c)
    OBVIOUS
  <2>1. pc[c] \in Publishing => stale'[c]
    BY Zenon, <1>1, <1>5
  <2> QED BY Zenon, <1>1, <1>2, <2>1 DEF PublisherStays
<1>7. \A i \in DOMAIN routes' : i \in DOMAIN routes \/ i = Len(routes) + 1
  BY SMTT(20), <1>4
<1>8. Different(routes')
  <2>1. Different(routes) /\ \A i \in DOMAIN routes : routes[i] # r
    BY <1>1 DEF LiveParts, Items
  <2> QED BY <1>4, <1>7, <2>1 DEF Different
<1>9. ASSUME NEW s \in Routes, NEW c \in Commands PROVE resumed'[s][c] = NoResume \/ OwedAsBefore(s, c)
  <2>1. CASE s = r
    <3>1. r \in Routes \ Items(routes)
      BY <1>1
    <3> QED BY Zenon, <1>1, <2>1, <3>1 DEF OwedInvariant
  <2>2. CASE s # r
    <3>1. s \in Items(routes) <=> s \in Items(routes')
      BY <1>4, <1>7, <2>2 DEF Items
    <3> QED BY <1>1, <3>1 DEF OwedAsBefore
  <2> QED BY <2>1, <2>2
<1> QED BY <1>6, <1>8, <1>9 DEF QuietPublishers, QuietRoutes

\* RouteClose: the vector keeps the other routes, and the route is owed nothing.
LEMMA RouteCloseQuiet ==
    ASSUME BatchesBuilt, ThreadsOK, DataOK, LiveParts, NEW r \in Routes, ReceiveRouteClose(r)
    PROVE  QuietPublishers /\ QuietRoutes
<1>1. /\ pc[Worker] = "receiving" /\ span' = span /\ previousHead' = previousHead
      /\ resumed' = [resumed EXCEPT ![r] = [c \in Commands |-> NoResume]]
      /\ stale' = [c \in Commands |-> stale[c] \/ (routes' # routes /\ pc[c] \in Publishing)]
  BY Zenon DEF ReceiveRouteClose, ModifyRoutes, Publishing
<1>2. \A c \in Commands : pc'[c] = pc[c]
  BY Zenon, WorkerGoes DEF ReceiveRouteClose, Send
<1>3. routes \in Seq(Routes) /\ stale \in [Commands -> BOOLEAN]
      /\ resumed \in [Routes -> [Commands -> Nat \cup {NoResume}]]
  BY DEF DataOK
<1>4. \A c \in Commands : PublisherStays(c)
  <2> SUFFICES ASSUME NEW c \in Commands PROVE PublisherStays(c)
    OBVIOUS
  <2>1. pc[c] \in Publishing => stale'[c] \/ (~stale[c] /\ routes' = routes)
    BY Zenon, <1>1, <1>3
  <2> QED BY <1>1, <1>2, <2>1 DEF PublisherStays
<1>5. Items(routes') = Items(routes) \ {r} /\ Different(routes')
  BY DEF BatchesBuilt, RouteRemoved, LiveParts
<1>6. ASSUME NEW s \in Routes, NEW c \in Commands PROVE resumed'[s][c] = NoResume \/ OwedAsBefore(s, c)
  <2>1. CASE s = r
    BY <1>1, <1>3, <2>1
  <2>2. CASE s # r
    BY <1>1, <1>3, <1>5, <2>2 DEF OwedAsBefore
  <2> QED BY <2>1, <2>2
<1> QED BY <1>4, <1>5, <1>6 DEF QuietPublishers, QuietRoutes

\* Resume: the route is owed what follows the plan's base, and the batch has it.
LEMMA ResumeQuiet ==
    ASSUME BatchesBuilt, TypeOK, ThreadsOK, DataOK, StreamInvariant, LiveParts, HolderCollects,
           NEW r \in Routes, NEW c \in Commands, NEW n \in Positions, ReceiveResume(r, c, n)
    PROVE  Quiet
<1>1. /\ pc[Worker] = "receiving" /\ r \in Items(routes)
      /\ UNCHANGED <<vars, linkVars, publisherVars, wire, disturbed>>
  BY DEF ReceiveResume
<1>2. PICK frames : IsRecoveryBatch(frames, r, c)
  BY DEF BatchesBuilt
<1>3. /\ frames \in Seq(Addressed) /\ Send(Worker, frames)
      /\ \A a \in Items(frames) : ~a.frame.live /\ StandsForRecorded(a.frame)
  BY <1>2 DEF IsRecoveryBatch
<1>4. IsWorkerBatch(frames) /\ \A b \in Commands : pc'[b] = pc[b]
  BY Zenon, <1>1, <1>3, BatchMade
<1>5. StreamsGrow /\ HolderCollects'
  BY Zenon, <1>1, <1>4, RecorderStays
<1>6. QuietPublishers
  BY Zenon, <1>1, <1>4 DEF QuietPublishers, PublisherStays, publisherVars, linkVars
<1>7. out'[Worker] = frames /\ routes' = routes /\ recorded' = recorded
  BY <1>1, <1>3 DEF Send, linkVars, vars, streamVars, ThreadsOK, Threads
<1>8. CASE resumed' = resumed
  <2>1. QuietRoutes
    BY Zenon, <1>1, <1>4, <1>8, NobodyPublishes DEF linkVars
  <2> QED BY Zenon, <1>1, <1>4, <1>5, <1>6, <2>1 DEF Quiet
<1>9. ASSUME NEW base \in Nat, resumed' = [resumed EXCEPT ![r][c] = base], BringsOutput(frames, r, c, base)
      PROVE  Quiet
  <2>1. resumed \in [Routes -> [Commands -> Nat \cup {NoResume}]]
    BY DEF DataOK
  <2>2. resumed'[r][c] = base
    BY <1>9, <2>1
  <2>3. \A s \in Routes, b \in Commands : (s = r /\ b = c) \/ resumed'[s][b] = resumed[s][b]
    BY <1>9, <2>1
  <2>4. OwedFromBatch(r, c)
    BY <1>1, <1>7, <1>9, <2>2 DEF OwedFromBatch
  <2>5. \A s \in Routes, b \in Commands : OwedAsBefore(s, b) \/ OwedFromBatch(s, b)
    BY Zenon, <1>7, <2>3, <2>4 DEF OwedAsBefore
  <2>6. QuietRoutes
    BY <1>7, <2>5 DEF QuietRoutes, LiveParts
  <2> QED BY Zenon, <1>1, <1>4, <1>5, <1>6, <2>6 DEF Quiet
<1> QED BY <1>2, <1>8, <1>9 DEF IsRecoveryBatch

\* The steps of the output callback that send nothing.
LEMMA PublisherQuiet ==
    ASSUME TypeOK, ThreadsOK, DataOK, LiveParts, HolderCollects, NEW c \in Commands,
           SendOutput(c) \/ PublishRefused(c) \/ \E n \in 1..MaxChunks : PublishRecord(c, n)
    PROVE  Quiet
<1>1. /\ c \in Threads /\ DOMAIN pc = Threads /\ Commands \subseteq Threads
      /\ DOMAIN span = Commands /\ DOMAIN stale = Commands /\ DOMAIN previousHead = Commands
  BY DEF ThreadsOK, Threads, DataOK
<1>2. UNCHANGED <<routes, out, wire, resumed, disturbed>>
  BY Zenon DEF SendOutput, PublishRefused, PublishRecord, linkVars, historyVars
<1>3. ASSUME PublisherBegins(c) \/ PublisherRecords(c) \/ PublisherLeaves(c),
             \A b \in Commands \ {c} : UNCHANGED <<pc[b], span[b], stale[b], previousHead[b]>>
      PROVE  QuietPublishers
  <2>1. \A b \in Commands \ {c} : PublisherStays(b)
    BY Zenon, <1>2, <1>3 DEF PublisherStays
  <2> QED BY Zenon, <1>3, <2>1 DEF QuietPublishers
<1>4. CASE SendOutput(c)
  <2>1. /\ pc[c] = "idle" /\ pc' = [pc EXCEPT ![c] = "recording"]
        /\ span' = [span EXCEPT ![c] = routes] /\ stale' = [stale EXCEPT ![c] = FALSE]
        /\ previousHead' = [previousHead EXCEPT ![c] = headSequence]
        /\ UNCHANGED vars
    BY <1>4 DEF SendOutput, Goto
  <2>2. PublisherBegins(c) /\ \A b \in Commands \ {c} : UNCHANGED <<pc[b], span[b], stale[b], previousHead[b]>>
    BY <1>1, <1>2, <2>1 DEF PublisherBegins
  <2>3. \A b \in Commands : pc[b] = "collecting" => pc'[b] = "collecting"
    BY <1>1, <2>1
  <2> QED BY <1>2, <1>3, <2>1, <2>2, <2>3, RecorderStays, BatchStays, RoutesStay DEF Quiet
<1>5. CASE PublishRefused(c)
  <2>1. /\ pc[c] = "recording" /\ pc' = [pc EXCEPT ![c] = "idle"]
        /\ span' = [span EXCEPT ![c] = <<>>] /\ stale' = [stale EXCEPT ![c] = FALSE]
        /\ previousHead' = [previousHead EXCEPT ![c] = 0]
        /\ UNCHANGED vars
    BY <1>5 DEF PublishRefused, LeaveScope, Goto
  <2>2. PublisherLeaves(c) /\ \A b \in Commands \ {c} : UNCHANGED <<pc[b], span[b], stale[b], previousHead[b]>>
    BY <1>1, <1>2, <2>1 DEF PublisherLeaves
  <2>3. \A b \in Commands : pc[b] = "collecting" => pc'[b] = "collecting"
    BY <1>1, <2>1
  <2> QED BY <1>2, <1>3, <2>1, <2>2, <2>3, RecorderStays, BatchStays, RoutesStay DEF Quiet
<1>6. ASSUME NEW n \in 1..MaxChunks, PublishRecord(c, n) PROVE Quiet
  <2>1. /\ pc[c] = "recording" /\ pc' = [pc EXCEPT ![c] = "collecting"] /\ UNCHANGED publisherVars
        /\ RecordEvent(c, "Output", Nothing) /\ chunking' = [command |-> c, left |-> n - 1]
    BY <1>6 DEF PublishRecord, RecordOutput, Goto
  <2>2. PublisherRecords(c) /\ \A b \in Commands \ {c} : UNCHANGED <<pc[b], span[b], stale[b], previousHead[b]>>
    BY Zenon, <1>1, <1>2, <2>1 DEF PublisherRecords, publisherVars
  <2>3. StreamsGrow
    BY Zenon, <1>1, <2>1, RecordEventGrows DEF Kinds, Value
  <2>4. HolderCollects'
    BY Zenon, <1>1, <2>1 DEF HolderCollects
  <2> QED BY Zenon, <1>2, <1>3, <2>2, <2>3, <2>4, BatchStays, RoutesStay DEF Quiet
<1> QED BY <1>4, <1>5, <1>6

\* A host thread's step.
LEMMA HostQuiet ==
    ASSUME TypeOK, ThreadsOK, DataOK, LiveParts, HolderCollects, HostStep
    PROVE  Quiet
<1>1. UNCHANGED <<routes, pc, out, publisherVars, wire, resumed, disturbed>>
  BY DEF HostStep, tunnelVars, linkVars, historyVars
<1>2. StreamsGrow
  BY HostGrows DEF HolderCollects
<1>3. QuietPublishers /\ QuietRoutes
  BY <1>1, NobodyPublishes
<1>4. HolderCollects'
  <2>1. CASE RecordOutputChunk
    <3>1. ~Unlocked /\ chunking' = [chunking EXCEPT !.left = @ - 1]
      BY <2>1 DEF RecordOutputChunk
    <3>2. chunking'.command = chunking.command
      BY <3>1 DEF TypeOK
    <3> QED BY <1>1, <3>1, <3>2 DEF HolderCollects
  <2>2. CASE chunking' = chunking
    BY <1>1, <2>2 DEF HolderCollects, Unlocked
  <2>3. RecordOutputChunk \/ chunking' = chunking
    BY Zenon DEF HostStep, BeginWindow, RecordResize, RecordTitle, RecordInput, AddCheckpoint, EndWindow,
         Close, GrantControl, RevokeControl, Tick
  <2> QED BY <2>1, <2>2, <2>3
<1> QED BY <1>1, <1>2, <1>3, <1>4, BatchStays DEF Quiet

\* Every step is quiet, collects, sends a frame or fails to.
LEMMA StepKinds ==
    ASSUME BatchesBuilt, TypeOK, ThreadsOK, DataOK, StreamInvariant, LiveInvariant, OwedInvariant,
           [TunnelNext]_<<vars, tunnelVars>>
    PROVE  \/ Quiet
           \/ \E c \in Commands : Collect(c)
           \/ \E th \in Threads : SendFrame(th) \/ SendFails(th)
<1>0. LiveParts /\ HolderCollects
  BY Zenon, LiveIsParts DEF OwedInvariant, HolderCollects
<1> USE <1>0
<1>1. ASSUME UNCHANGED <<vars, out, routes, publisherVars, wire, resumed, disturbed>>,
             pc' = pc \/ \E label : Goto(Worker, label)
      PROVE  Quiet
  <2>1. \A c \in Commands : pc'[c] = pc[c]
    BY <1>1, WorkerGoes
  <2>2. StreamsGrow /\ HolderCollects'
    BY SMTT(20), <1>1, <2>1, RecorderStays
  <2> QED BY <1>1, <2>1, <2>2, BatchStays, NobodyPublishes DEF Quiet
<1>2. CASE Connect \/ CloseTunnel \/ ReceiveOnce \/ ReceiveNothing \/ InputEffectSink
  BY <1>1, <1>2 DEF Connect, CloseTunnel, ReceiveOnce, ReceiveNothing, InputEffectSink, linkVars, historyVars
<1>3. CASE UNCHANGED <<vars, tunnelVars>>
  BY <1>1, <1>3 DEF tunnelVars, linkVars, historyVars
<1>4. ASSUME NEW r \in Routes, Send(Worker, <<Answer(r)>>), pc[Worker] = "receiving",
             UNCHANGED <<vars, linkVars, publisherVars, historyVars>>
      PROVE  Quiet
  <2>1. (\E frames : IsWorkerBatch(frames)) /\ \A c \in Commands : pc'[c] = pc[c]
    BY Zenon, <1>4, AnswerMade
  <2>2. StreamsGrow /\ HolderCollects'
    BY Zenon, <1>4, <2>1, RecorderStays
  <2>3. QuietPublishers /\ QuietRoutes
    BY Zenon, <1>4, <2>1, NobodyPublishes DEF linkVars, historyVars
  <2> QED BY Zenon, <1>4, <2>1, <2>2, <2>3 DEF Quiet, historyVars
<1>5. ASSUME NEW r \in Routes, ReceivePing(r) PROVE Quiet
  BY <1>4, <1>5 DEF ReceivePing
<1>6. ASSUME NEW r \in Routes, NEW c \in Commands, NEW k \in Clients, NEW id \in LeaseIds,
             ReceiveInputRejected(r, c, k, id)
      PROVE  Quiet
  BY <1>4, <1>6 DEF ReceiveInputRejected
<1>7. ASSUME NEW r \in Routes, ReceiveRouteOpen(r) PROVE Quiet
  <2>1. (\E frames : IsWorkerBatch(frames)) /\ \A c \in Commands : pc'[c] = pc[c]
    BY Zenon, <1>7, AnswerMade DEF ReceiveRouteOpen
  <2>2. UNCHANGED <<vars, wire, disturbed>>
    BY <1>7 DEF ReceiveRouteOpen, historyVars
  <2>3. StreamsGrow /\ HolderCollects'
    BY Zenon, <2>1, <2>2, RecorderStays
  <2> QED BY Zenon, <1>7, <2>1, <2>2, <2>3, RouteOpenQuiet DEF Quiet
<1>8. ASSUME NEW r \in Routes, ReceiveRouteClose(r) PROVE Quiet
  <2>1. Send(Worker, <<>>) /\ pc[Worker] = "receiving" /\ UNCHANGED <<vars, wire, disturbed>>
    BY <1>8 DEF ReceiveRouteClose
  <2>2. <<>> \in Seq(Addressed) /\ Items(<<>>) = {}
    BY DEF Items
  <2>3. IsWorkerBatch(<<>>) /\ \A c \in Commands : pc'[c] = pc[c]
    BY Zenon, <2>1, <2>2, BatchMade
  <2>4. StreamsGrow /\ HolderCollects'
    BY Zenon, <2>1, <2>3, RecorderStays
  <2> QED BY Zenon, <1>8, <2>1, <2>3, <2>4, RouteCloseQuiet DEF Quiet
<1>9. ASSUME NEW r \in Routes, NEW c \in Commands, NEW k \in Clients, NEW id \in LeaseIds,
             ReceiveInput(r, c, k, id)
      PROVE  Quiet
  <2>1. /\ Unlocked /\ RecordEvent(c, "Input", k) /\ chunking' = chunking /\ Goto(Worker, "effect")
        /\ UNCHANGED <<routes, out, publisherVars, wire, resumed, disturbed>>
    BY <1>9 DEF ReceiveInput, TryCreateRemoteInputEffect, linkVars, historyVars
  <2>2. \A b \in Commands : pc'[b] = pc[b]
    BY Zenon, <2>1, WorkerGoes
  <2>3. StreamsGrow
    BY <2>1, RecordEventGrows DEF Kinds, Value
  <2>4. HolderCollects'
    BY Zenon, <2>1 DEF HolderCollects, Unlocked
  <2> QED BY ZenonT(30), <2>1, <2>2, <2>3, <2>4, BatchStays, NobodyPublishes DEF Quiet
<1> QED
  BY <1>2, <1>3, <1>5, <1>6, <1>7, <1>8, <1>9, HostQuiet, ResumeQuiet, PublisherQuiet
     DEF TunnelNext, WorkerStep, PublisherStep
==============================================================================
