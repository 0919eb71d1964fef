----------------------------- MODULE MirrorTunnel -----------------------------
(***************************************************************************)
(* The device tunnel of a mirrored Node on top of its recorder             *)
(* (MirrorSession): WorkspaceMirrorDeviceTunnelClient, ...TunnelSession,   *)
(* ...NodeAgent and ...RouteDispatcher.                                    *)
(*                                                                         *)
(* Threads, as MirrorDeviceTunnelClient.h describes them: one connection   *)
(* worker, which calls ReceiveOnce in a loop, and the terminal output      *)
(* callback of each command window, which calls SendOutput.  Neither the   *)
(* client nor the agent has a lock; only the recorder has one.  The host   *)
(* calls the recorder's other operations from its own threads.             *)
(*                                                                         *)
(* The server, WinHTTP and the callers are external: any frame may arrive  *)
(* at any time, and any send may fail.                                     *)
(***************************************************************************)
EXTENDS MirrorSession, Filtering

CONSTANTS
    Routes,    \* route ids the server uses
    Positions, \* sequence numbers clients resume from; 0 means none
    Worker,    \* the connection worker
    MaxFrames  \* bound: a route is sent nothing after that many Output frames

ASSUME TunnelAssumption == MaxFrames \in Nat /\ Positions \subseteq Nat /\ Worker \notin Commands

VARIABLES
    connected,    \* _webSocket is not null
    routes,       \* the agent's _routes, by route id
    pc,           \* where each thread is
    out,          \* the frames each thread has encoded and not yet sent
    clock,        \* the worker: nowMilliseconds, read before it blocks
    effect,       \* the worker: the input accepted and not yet in the sink
    span,         \* a publisher: the span over _routes it was given
    stale,        \* a publisher: _routes was modified since
    previousHead, \* a publisher: the session's head before it recorded
    wire,         \* history: the Output frames sent on each route
    sunk,         \* history: the remote inputs the sink was given
    resumed,      \* history: where each route was told to start, per command
    disturbed     \* history: whether a batch was cut short or a span went stale

publisherVars == <<span, stale, previousHead>>
linkVars == <<connected, routes>>
historyVars == <<wire, sunk, resumed, disturbed>>
tunnelVars == <<linkVars, pc, out, clock, effect, publisherVars, historyVars>>

Threads == Commands \cup {Worker}

\* "Answer" stands for RouteAccepted, Pong and Rejected, which show a client
\* nothing of a window.
Frame == [kind : {"Answer", "Checkpoint", "Output", "Resize", "Closed"},
          command : Commands \cup {Nothing}, seq : Nat, live : BOOLEAN]

Addressed == [route : Routes, frame : Frame]

\* Every local and every field has its type; a thread has frames to send only
\* in _sendAll, an input only between the recorder and the sink, and the
\* worker's clock reading is never ahead of the clock.
TunnelTypeOK ==
    /\ TypeOK
    /\ connected \in BOOLEAN
    /\ routes \in Seq(Routes)
    /\ pc \in [Threads -> {"idle", "receiving", "effect", "recording", "collecting", "sending"}]
    /\ out \in [Threads -> Seq(Addressed)]
    /\ \A th \in Threads : pc[th] = "sending" <=> out[th] # <<>>
    /\ clock \in 0..now
    /\ effect \in SUBSET RemoteInput
    /\ effect # {} <=> pc[Worker] = "effect"
    /\ span \in [Commands -> Seq(Routes)]
    /\ stale \in [Commands -> BOOLEAN]
    /\ previousHead \in [Commands -> Nat]
    /\ wire \in [Routes -> Seq(Frame)]
    /\ sunk \in Seq(RemoteInput)
    /\ resumed \in [Routes -> [Commands -> Nat \cup {NoResume}]]
    /\ disturbed \subseteq {"cut", "race"}

TunnelInit ==
    /\ Init
    /\ connected = FALSE
    /\ routes = <<>>
    /\ pc = [th \in Threads |-> "idle"]
    /\ out = [th \in Threads |-> <<>>]
    /\ clock = 0
    /\ effect = {}
    /\ span = [c \in Commands |-> <<>>]
    /\ stale = [c \in Commands |-> FALSE]
    /\ previousHead = [c \in Commands |-> 0]
    /\ wire = [r \in Routes |-> <<>>]
    /\ sunk = <<>>
    /\ resumed = [r \in Routes |-> [c \in Commands |-> NoResume]]
    /\ disturbed = {}

-----------------------------------------------------------------------------
Message(kind, c, n, live) == [kind |-> kind, command |-> c, seq |-> n, live |-> live]

To(r, frame) == [route |-> r, frame |-> frame]

Answer(r) == To(r, Message("Answer", Nothing, 0, FALSE))

Goto(th, label) == pc' = [pc EXCEPT ![th] = label]

\* Mutant: goes to _sendAll with nothing to send.
SendAlways(th, frames) ==
    /\ out' = [out EXCEPT ![th] = frames]
    /\ Goto(th, "sending")

\* The end of a handler: its frames go to _sendAll, and with none it returns.
Send(th, frames) ==
    /\ out' = [out EXCEPT ![th] = frames]
    /\ Goto(th, IF frames = <<>> THEN "idle" ELSE "sending")

\* _sendAll: one WinHttpWebSocketSend after the other ...
SendFrame(th) ==
    LET next == Head(out[th])
    IN /\ pc[th] = "sending"
       /\ connected
       /\ Len(wire[next.route]) < MaxFrames
       /\ wire' = IF next.frame.kind = "Output"
                  THEN [wire EXCEPT ![next.route] = Append(@, next.frame)]
                  ELSE wire
       /\ Send(th, Tail(out[th]))
       /\ UNCHANGED <<vars, linkVars, clock, effect, publisherVars, sunk, resumed, disturbed>>

\* ... and std::all_of gives up the rest of the batch at the first that fails.
SendFails(th) ==
    /\ pc[th] = "sending"
    /\ disturbed' = disturbed \cup {"cut"}
    /\ Send(th, <<>>)
    /\ UNCHANGED <<vars, linkVars, clock, effect, publisherVars, wire, sunk, resumed>>

-----------------------------------------------------------------------------
\* The connection: Connect (which closes first) and Close leave the agent's
\* routes and the lease alone.
Connect ==
    /\ pc[Worker] = "idle"
    /\ connected' = TRUE
    /\ UNCHANGED <<vars, routes, pc, out, clock, effect, publisherVars, historyVars>>

CloseTunnel ==
    /\ pc[Worker] = "idle"
    /\ connected' = FALSE
    /\ UNCHANGED <<vars, routes, pc, out, clock, effect, publisherVars, historyVars>>

\* The caller reads the clock, ReceiveOnce blocks for a frame.
ReceiveOnce ==
    /\ pc[Worker] = "idle"
    /\ connected
    /\ clock' = now
    /\ Goto(Worker, "receiving")
    /\ UNCHANGED <<vars, linkVars, out, effect, publisherVars, historyVars>>

\* The time is a local of the handler.
EndReceive == clock' = 0

\* No frame, one that does not decode, a Pong, or one the agent refuses: a
\* RouteOpen for a route that is open, an intent for one that is not.
ReceiveNothing ==
    /\ pc[Worker] = "receiving"
    /\ Goto(Worker, "idle")
    /\ EndReceive
    /\ UNCHANGED <<vars, linkVars, out, effect, publisherVars, historyVars>>

ReceivePing(r) ==
    /\ pc[Worker] = "receiving"
    /\ Enabled
    /\ Send(Worker, <<Answer(r)>>)
    /\ EndReceive
    /\ UNCHANGED <<vars, linkVars, effect, publisherVars, historyVars>>

\* The vector is modified under the publishers that hold a span over it.
ModifyRoutes(s) ==
    /\ routes' = s
    /\ stale' = [c \in Commands |-> stale[c] \/ (s # routes /\ pc[c] \in {"recording", "collecting"})]

ReceiveRouteOpen(r) ==
    /\ pc[Worker] = "receiving"
    /\ Enabled
    /\ r \notin Items(routes)
    /\ ModifyRoutes(Append(routes, r))
    /\ Send(Worker, <<Answer(r)>>)
    /\ EndReceive
    /\ UNCHANGED <<vars, connected, effect, span, previousHead, historyVars>>

ReceiveRouteClose(r) ==
    /\ pc[Worker] = "receiving"
    /\ ModifyRoutes(Filter(routes, Routes \ {r}))
    /\ resumed' = [resumed EXCEPT ![r] = [c \in Commands |-> NoResume]]
    /\ Send(Worker, <<>>)
    /\ EndReceive
    /\ UNCHANGED <<vars, connected, effect, span, previousHead, wire, sunk, disturbed>>

\* What _emitRecovery makes of an event; the other kinds are skipped.
MessageKind == [Output |-> "Output", Resize |-> "Resize", Exited |-> "Closed"]

RecoveryFrames(r, c, plan) ==
    LET shown == Filter(plan.events, {e \in Items(plan.events) : e.kind \in DOMAIN MessageKind})
        Replay(e) == To(r, Message(MessageKind[e.kind], c, e.seq, FALSE))
    IN (IF plan.kind = "Checkpoint" THEN <<To(r, Message("Checkpoint", c, plan.base, FALSE))>> ELSE <<>>)
          \o [i \in 1..Len(shown) |-> Replay(shown[i])]

\* A Resume intent.
ReceiveResume(r, c, n) ==
    LET plan == PlanRecovery(c, IF n = 0 THEN NoResume ELSE n)
    IN /\ pc[Worker] = "receiving"
       /\ Enabled /\ Unlocked
       /\ r \in Items(routes)
       /\ IF plan.kind = "Unavailable"
          THEN /\ Send(Worker, <<Answer(r)>>)
               /\ UNCHANGED resumed
          ELSE /\ Send(Worker, RecoveryFrames(r, c, plan))
               /\ resumed' = [resumed EXCEPT ![r][c] = plan.base]
       /\ EndReceive
       /\ UNCHANGED <<vars, linkVars, effect, publisherVars, wire, sunk, disturbed>>

\* Mutant: leaves the input out of the log.
ReceiveInputUnrecorded(r, c, k, id) ==
    /\ pc[Worker] = "receiving"
    /\ r \in Items(routes)
    /\ HasControl(k, id, clock)
    /\ effect' = {[seq |-> headSequence, client |-> k, id |-> id, at |-> clock, grant |-> Len(grants)]}
    /\ Goto(Worker, "effect")
    /\ EndReceive
    /\ UNCHANGED <<vars, linkVars, out, publisherVars, historyVars>>

\* An Input intent that holds the lease goes to the sink, outside the mutex.
ReceiveInput(r, c, k, id) ==
    /\ pc[Worker] = "receiving"
    /\ r \in Items(routes)
    /\ TryCreateRemoteInputEffect(c, k, id, clock)
    /\ effect' = remoteInputs' \ remoteInputs
    /\ Goto(Worker, "effect")
    /\ EndReceive
    /\ UNCHANGED <<linkVars, out, publisherVars, historyVars>>

ReceiveInputRejected(r, c, k, id) ==
    /\ pc[Worker] = "receiving"
    /\ r \in Items(routes)
    /\ Enabled /\ Unlocked
    /\ ~HasControl(k, id, clock) \/ c \notin windows
    /\ Send(Worker, <<Answer(r)>>)
    /\ EndReceive
    /\ UNCHANGED <<vars, linkVars, effect, publisherVars, historyVars>>

InputEffectSink ==
    /\ pc[Worker] = "effect"
    /\ \E i \in effect : sunk' = Append(sunk, i)
    /\ effect' = {}
    /\ Goto(Worker, "idle")
    /\ UNCHANGED <<vars, linkVars, out, clock, publisherVars, wire, resumed, disturbed>>

-----------------------------------------------------------------------------
\* The locals of a publisher end with RecordOutputAndBuildEffects.
LeaveScope(c) ==
    /\ span' = [span EXCEPT ![c] = <<>>]
    /\ stale' = [stale EXCEPT ![c] = FALSE]
    /\ previousHead' = [previousHead EXCEPT ![c] = 0]

\* The output callback of window c.  RecordOutputAndBuildEffects is passed a
\* span over _routes and reads the session's head ...
SendOutput(c) ==
    /\ pc[c] = "idle"
    /\ connected
    /\ Enabled /\ Unlocked
    /\ span' = [span EXCEPT ![c] = routes]
    /\ stale' = [stale EXCEPT ![c] = FALSE]
    /\ previousHead' = [previousHead EXCEPT ![c] = headSequence]
    /\ Goto(c, "recording")
    /\ UNCHANGED <<vars, linkVars, out, clock, effect, historyVars>>

\* Mutant: records without looking the window up.
PublishRecordAnywhere(c, n) ==
    /\ pc[c] = "recording"
    /\ Unlocked
    /\ RecordEvent(c, "Output", Nothing)
    /\ Goto(c, "collecting")
    /\ UNCHANGED <<closed, checkpoints, chunking, windowVars, controlVars,
                   linkVars, out, clock, effect, publisherVars, historyVars>>

\* ... records the bytes ...
PublishRecord(c, n) ==
    /\ pc[c] = "recording"
    /\ RecordOutput(c, n)
    /\ Goto(c, "collecting")
    /\ UNCHANGED <<linkVars, out, clock, effect, publisherVars, historyVars>>

PublishRefused(c) ==
    /\ pc[c] = "recording"
    /\ Unlocked
    /\ closed \/ c \notin windows
    /\ LeaveScope(c)
    /\ Goto(c, "idle")
    /\ UNCHANGED <<vars, linkVars, out, clock, effect, historyVars>>

\* The frames of the given events for the given routes, event by event.
FanOut(c, stream, targets) ==
    LET Copies(e) == [i \in 1..Len(targets) |-> To(targets[i], Message("Output", c, e.seq, TRUE))]
        fan[n \in 0..Len(stream)] == IF n = 0 THEN <<>> ELSE fan[n - 1] \o Copies(stream[n])
    IN  fan[Len(stream)]

\* Mutants: also the event at the old head; without the first new one; events
\* of every kind.
IsOutputSince(c, e) == e.seq >= previousHead[c] /\ e.kind = "Output"
IsLaterOutput(c, e) == e.seq > previousHead[c] + 1 /\ e.kind = "Output"
IsNewEvent(c, e) == e.seq > previousHead[c]

IsNewOutput(c, e) == e.seq > previousHead[c] /\ e.kind = "Output"

\* ... and copies what a second Snapshot holds of it to each route.  Reading a
\* span whose vector changed is undefined: each slot may hold any route.
Collect(c) ==
    LET stream == Filter(events[c], {e \in Items(events[c]) : IsNewOutput(c, e)})
    IN /\ pc[c] = "collecting"
       /\ Unlocked
       /\ \E targets \in IF stale[c] THEN [1..Len(span[c]) -> Routes] ELSE {span[c]} :
             Send(c, FanOut(c, stream, targets))
       /\ disturbed' = disturbed \cup (IF stale[c] THEN {"race"} ELSE {})
       /\ LeaveScope(c)
       /\ UNCHANGED <<vars, linkVars, clock, effect, wire, sunk, resumed>>

-----------------------------------------------------------------------------
\* The other operations of the recorder object (it has none that records a Gap),
\* and the rest of RecordOutput, which holds the mutex.
HostStep ==
    /\ \/ \E c \in Commands :
             \/ \E s \in Sizes : BeginWindow(c, s) \/ RecordResize(c, s)
             \/ \E t \in Titles : RecordTitle(c, t)
             \/ RecordInput(c) \/ AddCheckpoint(c) \/ EndWindow(c)
       \/ RecordOutputChunk
       \/ Close
       \/ \E k \in Clients, id \in LeaseIds, t \in 0..now, d \in Durations : GrantControl(k, id, t, d)
       \/ \E k \in Clients \cup {Nothing} : RevokeControl(k)
       \/ Tick
    /\ UNCHANGED tunnelVars

WorkerStep ==
    \/ Connect \/ CloseTunnel
    \/ ReceiveOnce \/ ReceiveNothing
    \/ \E r \in Routes :
          \/ ReceivePing(r) \/ ReceiveRouteOpen(r) \/ ReceiveRouteClose(r)
          \/ \E c \in Commands :
                \/ \E n \in Positions : ReceiveResume(r, c, n)
                \/ \E k \in Clients, id \in LeaseIds :
                      ReceiveInput(r, c, k, id) \/ ReceiveInputRejected(r, c, k, id)
    \/ InputEffectSink

PublisherStep(c) ==
    \/ SendOutput(c)
    \/ \E n \in 1..MaxChunks : PublishRecord(c, n)
    \/ PublishRefused(c)
    \/ Collect(c)

TunnelNext ==
    \/ HostStep
    \/ WorkerStep
    \/ \E c \in Commands : PublisherStep(c)
    \/ \E th \in Threads : SendFrame(th) \/ SendFails(th)

TunnelSpec == TunnelInit /\ [][TunnelNext]_<<vars, tunnelVars>>

-----------------------------------------------------------------------------
(***************************************************************************)
(* Properties.  The recorder's own hold as well: TunnelSpec implements the *)
(* recorder's Spec, since every step is a step of the recorder or leaves   *)
(* it alone.                                                               *)
(***************************************************************************)
\* A frame shows an event of its window, of its kind, or a state the window was in.
StandsForRecorded(f) ==
    /\ f.kind # "Answer" => f.command \in Commands
    /\ f.kind \in {"Output", "Resize", "Closed"} =>
          \E e \in recorded[f.command] :
              e.seq = f.seq /\ e.kind \in DOMAIN MessageKind /\ MessageKind[e.kind] = f.kind
    /\ f.kind = "Checkpoint" => f.seq <= windowHead[f.command]

\* Whatever the threads do to one another, a frame never shows a client what
\* was not recorded: each stands for an event of that window, of that kind.
SentIsRecorded ==
    \A th \in Threads : \A a \in Items(out[th]) : StandsForRecorded(a.frame)

\* As long as no span went stale, the live frames of a window reach a route in
\* the order they were recorded and none twice, although the head is read in
\* one critical section, the bytes recorded in a second and copied in a third.
LiveInOrder ==
    "race" \notin disturbed =>
        \A r \in Routes : \A i, j \in DOMAIN wire[r] :
            /\ i < j
            /\ wire[r][i].live /\ wire[r][j].live
            /\ wire[r][i].command = wire[r][j].command
            => wire[r][i].seq < wire[r][j].seq

\* The Output frame of window c with number n is among these frames.
Carries(frames, c, n) ==
    \E f \in frames : f.kind = "Output" /\ f.command = c /\ f.seq = n

\* Replay and live output meet without a hole: once a route that was told to
\* start at a number has been sent what it was owed, it has all of the window's
\* output since, provided that no batch was cut, no span went stale and the
\* window dropped nothing.
NothingLostAtRest ==
    \A r \in Items(routes), c \in Commands :
        /\ disturbed = {}
        /\ Items(events[c]) = recorded[c]
        /\ resumed[r][c] # NoResume
        /\ pc[Worker] # "sending" /\ pc[c] = "idle"
        => \A e \in Missed(recorded[c], resumed[r][c]) :
              e.kind = "Output" =>
                 Carries(Items(wire[r]), c, e.seq)

\* What LiveInOrder needs to be inductive.  Live frames are the publishers'; a
\* frame that waits is newer than what its route was sent, and what was sent of
\* a window is not past the head its publisher read.
LiveInvariant ==
    /\ \A i, j \in DOMAIN routes : routes[i] = routes[j] => i = j
    /\ \A a \in Items(out[Worker]) : ~a.frame.live
    /\ \A r \in Routes : \A f \in Items(wire[r]) : f.live => f.seq <= headSequence
    /\ \A c \in Commands :
          /\ \A i, j \in DOMAIN span[c] : span[c][i] = span[c][j] => i = j
          /\ previousHead[c] <= headSequence
          /\ pc[c] \in {"recording", "collecting"} =>
                \A r \in Routes : \A f \in Items(wire[r]) : f.live /\ f.command = c => f.seq <= previousHead[c]
          /\ \A a \in Items(out[c]) :
                a.frame.kind = "Output" /\ a.frame.command = c /\ a.frame.seq <= headSequence
          /\ "race" \notin disturbed =>
                /\ \A i, j \in DOMAIN out[c] :
                      i < j /\ out[c][i].route = out[c][j].route => out[c][i].frame.seq < out[c][j].frame.seq
                /\ \A a \in Items(out[c]) : \A f \in Items(wire[a.route]) :
                      f.live /\ f.command = c => f.seq < a.frame.seq
    /\ LiveInOrder

\* The frames a thread still has to send on a route.
Waiting(th, r) == {a.frame : a \in {x \in Items(out[th]) : x.route = r}}

\* What NothingLostAtRest needs to be inductive: output that a route is owed and
\* was not sent waits in the worker's batch or in the publisher's, or is still
\* to be collected by a publisher whose span has the route (or is stale).
OwedInvariant ==
    /\ ~Unlocked => pc[chunking.command] = "collecting"
    /\ \A r \in Routes \ Items(routes), c \in Commands : resumed[r][c] = NoResume
    /\ \A c \in Commands : pc[c] \in {"recording", "collecting"} => stale[c] \/ span[c] = routes
    /\ \A r \in Items(routes), c \in Commands :
          /\ disturbed = {}
          /\ Items(events[c]) = recorded[c]
          /\ resumed[r][c] # NoResume
          => \A e \in Missed(recorded[c], resumed[r][c]) :
                e.kind = "Output" =>
                   \/ Carries(Items(wire[r]) \cup Waiting(Worker, r) \cup Waiting(c, r), c, e.seq)
                   \/ pc[c] = "collecting" /\ e.seq > previousHead[c]

\* The inductive invariant of the delivery.
DeliveryInvariant ==
    /\ TunnelTypeOK
    /\ SentIsRecorded
    /\ LiveInvariant
    /\ OwedInvariant

\* The sink is given exactly the remote inputs in the log, once each and in the
\* order of the log, although it is called after the mutex is released.
SinkFollowsLog ==
    /\ remoteInputs = Items(sunk) \cup effect
    /\ Items(sunk) \cap effect = {}
    /\ \A i, j \in DOMAIN sunk : i < j => sunk[i].seq < sunk[j].seq
    /\ \A i \in Items(sunk), j \in effect : i.seq < j.seq

-----------------------------------------------------------------------------
(***************************************************************************)
(* What the design documents and comments say and the code does not do.    *)
(***************************************************************************)
\* "Output, join, leave and close at once: no use-after-free"
\* (07-delivery-test.md:76): no publisher reads a span over a vector that the
\* worker has modified since.
SpanIsFresh ==
    \A c \in Commands : pc[c] = "collecting" => ~stale[c]

=============================================================================
