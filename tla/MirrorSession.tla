---------------------------- MODULE MirrorSession ----------------------------
(***************************************************************************)
(* The recorder of one mirrored Workspace Node                             *)
(* (src/src/core/workspace/mirror): the bounded event stream kept for each *)
(* command window, the checkpoint index, the recovery planner and the      *)
(* control lease.  Every public operation of WorkspaceMirrorNodeRecorder   *)
(* holds the recorder's one mutex from its first line to its last, so an   *)
(* operation is one action; only RecordOutput, which records one event per *)
(* 64 KiB chunk, is one action per chunk with the mutex held in between.   *)
(* A call that returns false and changes nothing is a stuttering step.     *)
(*                                                                         *)
(* Window sizes, titles and texts are members of small sets; the bytes of  *)
(* an output or of a checkpoint are not represented.                       *)
(***************************************************************************)
EXTENDS Integers, Sequences

CONSTANTS
    Commands,            \* command ids of the Node
    Sizes, Titles,       \* window geometries and titles
    Clients, LeaseIds,   \* remote client ids and lease ids (non-empty strings)
    Nothing,             \* "no value": the empty string, an event without payload
    Mode,                \* WorkspaceNodeMirrorConfiguration::Mode
    MaximumEvents,       \* ... ::MaximumEvents
    MaximumCheckpoints,  \* ... ::MaximumCheckpoints
    Durations,           \* lease durations callers ask for
    TimeModulus,         \* milliseconds are uint64_t: they wrap here
    MaxChunks,           \* bound: chunks of one RecordOutput call
    MaxSequence,         \* bound: events of the session
    MaxTime,             \* bound: the clock
    MaxGrants            \* bound: successful GrantControl calls

\* _parseBoundedUnsigned refuses 0, and the fields default to 4096 and 4.
ASSUME LimitsAssumption ==
    /\ MaximumEvents \in Nat \ {0}
    /\ MaximumCheckpoints \in Nat \ {0}

ASSUME ClockAssumption ==
    /\ TimeModulus \in Nat \ {0}
    /\ Durations \subseteq Nat \ {0}

ASSUME BoundsAssumption ==
    /\ MaxChunks \in Nat
    /\ MaxSequence \in Nat
    /\ MaxTime \in Nat
    /\ MaxGrants \in Nat

VARIABLES
    headSequence,  \* Session.HeadSequence
    closed,        \* Session.Closed
    windows,       \* commands with an entry in Session.Windows (all are Started)
    exited,        \* Window.Exited
    hasGap,        \* Window.HasGap
    windowHead,    \* Window.HeadSequence
    size, title,   \* Window.Rows x Window.Columns, Window.Title
    events,        \* Window.Events
    checkpoints,   \* Window.Checkpoints, as the sequence numbers they are at
    lease,         \* Session.ControlLease: the empty set or a singleton
    chunking,      \* the RecordOutput call that holds the mutex, if left > 0
    now,           \* the clock the callers read
    recorded,      \* history: every event ever recorded for a window
    grants,        \* history: the successful GrantControl calls
    remoteInputs   \* history: the remote inputs accepted, and under which grant

windowVars == <<windows, exited, size, title>>
streamVars == <<headSequence, windowHead, events, hasGap, recorded>>
controlVars == <<lease, now, grants, remoteInputs>>
vars == <<closed, checkpoints, chunking, windowVars, streamVars, controlVars>>

-----------------------------------------------------------------------------
Kinds == {"Started", "Input", "Output", "Resize", "Title", "Exited", "Gap"}

Value == Sizes \cup Titles \cup Clients \cup {Nothing}

Event == [seq : Nat, kind : Kinds, value : Value]

Lease == [client : Clients, id : LeaseIds, expires : Nat]

Grant == [client : Clients, id : LeaseIds, until : Nat]

RemoteInput == [seq : Nat, client : Clients, id : LeaseIds, at : Nat, grant : Nat]

\* The elements of a sequence.
Items(s) == {s[i] : i \in DOMAIN s}

\* Every field has the type its declaration gives it.
TypeOK ==
    /\ headSequence \in Nat
    /\ closed \in BOOLEAN
    /\ windows \subseteq Commands
    /\ exited \subseteq Commands
    /\ hasGap \in [Commands -> BOOLEAN]
    /\ windowHead \in [Commands -> Nat]
    /\ size \in [Commands -> Sizes \cup {Nothing}]
    /\ title \in [Commands -> Titles \cup {Nothing}]
    /\ events \in [Commands -> Seq(Event)]
    /\ checkpoints \in [Commands -> Seq(Nat)]
    /\ lease \in SUBSET Lease
    /\ \A l, m \in lease : l = m
    /\ chunking \in [command : Commands \cup {Nothing}, left : Nat]
    /\ chunking.left > 0 => chunking.command \in windows
    /\ now \in Nat
    /\ recorded \in [Commands -> SUBSET Event]
    /\ grants \in Seq(Grant)
    /\ remoteInputs \in SUBSET RemoteInput

Init ==
    /\ headSequence = 0
    /\ closed = FALSE
    /\ windows = {}
    /\ exited = {}
    /\ hasGap = [c \in Commands |-> FALSE]
    /\ windowHead = [c \in Commands |-> 0]
    /\ size = [c \in Commands |-> Nothing]
    /\ title = [c \in Commands |-> Nothing]
    /\ events = [c \in Commands |-> <<>>]
    /\ checkpoints = [c \in Commands |-> <<>>]
    /\ lease = {}
    /\ chunking = [command |-> Nothing, left |-> 0]
    /\ now = 0
    /\ recorded = [c \in Commands |-> {}]
    /\ grants = <<>>
    /\ remoteInputs = {}

-----------------------------------------------------------------------------
\* An operation that checks Enabled() under the mutex.
Enabled == Mode = "NodeSession"

Unlocked == chunking.left = 0

\* Mutant: compares before appending, so one element too many stays.
AppendBoundedLate(s, x, limit) ==
    IF Len(s) > limit THEN Tail(Append(s, x)) ELSE Append(s, x)

\* Append, and drop the oldest element when there are now more than limit.
AppendBounded(s, x, limit) ==
    IF Len(s) + 1 > limit THEN Tail(Append(s, x)) ELSE Append(s, x)

\* Mutant: only an explicit Gap counts as a loss.
MakesGapExplicitly(c, kind) == kind = "Gap"

\* Whether an event costs the window the start of its stream.
MakesGap(c, kind) == kind = "Gap" \/ Len(events[c]) + 1 > MaximumEvents

\* Mutant: numbers from the window's head instead of the session's.
RecordEventPerWindow(c, kind, value) ==
    LET event == [seq |-> windowHead[c] + 1, kind |-> kind, value |-> value]
    IN /\ ~closed
       /\ headSequence < MaxSequence
       /\ headSequence' = headSequence + 1
       /\ windowHead' = [windowHead EXCEPT ![c] = event.seq]
       /\ events' = [events EXCEPT ![c] = AppendBounded(@, event, MaximumEvents)]
       /\ hasGap' = [hasGap EXCEPT ![c] = @ \/ MakesGap(c, kind)]
       /\ recorded' = [recorded EXCEPT ![c] = @ \cup {event}]

\* RecordWorkspaceMirrorEvent for a window that exists.
RecordEvent(c, kind, value) ==
    LET event == [seq |-> headSequence + 1, kind |-> kind, value |-> value]
    IN /\ ~closed
       /\ headSequence < MaxSequence
       /\ headSequence' = event.seq
       /\ windowHead' = [windowHead EXCEPT ![c] = event.seq]
       /\ events' = [events EXCEPT ![c] = AppendBounded(@, event, MaximumEvents)]
       /\ hasGap' = [hasGap EXCEPT ![c] = @ \/ MakesGap(c, kind)]
       /\ recorded' = [recorded EXCEPT ![c] = @ \cup {event}]

\* The window's own fields are assigned before RecordWorkspaceMirrorEvent
\* looks at Closed: on a closed session they change and no event is recorded.
RecordEventUnlessClosed(c, kind, value) ==
    \/ RecordEvent(c, kind, value)
    \/ closed /\ UNCHANGED streamVars

BeginWindow(c, s) ==
    /\ Enabled /\ Unlocked
    /\ c \notin windows
    /\ windows' = windows \cup {c}
    /\ size' = [size EXCEPT ![c] = s]
    /\ RecordEvent(c, "Started", s)
    /\ UNCHANGED <<closed, checkpoints, chunking, exited, title, controlVars>>

RecordInput(c) ==
    /\ Enabled /\ Unlocked
    /\ c \in windows
    /\ RecordEvent(c, "Input", Nothing)
    /\ UNCHANGED <<closed, checkpoints, chunking, windowVars, controlVars>>

\* Mutant: does not look the window up.
RecordOutputAnywhere(c, n) ==
    /\ Enabled /\ Unlocked
    /\ headSequence + n <= MaxSequence
    /\ RecordEvent(c, "Output", Nothing)
    /\ chunking' = [command |-> c, left |-> n - 1]
    /\ UNCHANGED <<closed, checkpoints, windowVars, controlVars>>

\* The first chunk of a call whose bytes make n chunks.
RecordOutput(c, n) ==
    /\ Enabled /\ Unlocked
    /\ c \in windows
    /\ headSequence + n <= MaxSequence
    /\ RecordEvent(c, "Output", Nothing)
    /\ chunking' = [command |-> c, left |-> n - 1]
    /\ UNCHANGED <<closed, checkpoints, windowVars, controlVars>>

RecordOutputChunk ==
    /\ ~Unlocked
    /\ RecordEvent(chunking.command, "Output", Nothing)
    /\ chunking' = [chunking EXCEPT !.left = @ - 1]
    /\ UNCHANGED <<closed, checkpoints, windowVars, controlVars>>

RecordResize(c, s) ==
    /\ Enabled /\ Unlocked
    /\ c \in windows
    /\ size' = [size EXCEPT ![c] = s]
    /\ RecordEventUnlessClosed(c, "Resize", s)
    /\ UNCHANGED <<closed, checkpoints, chunking, windows, exited, title, controlVars>>

\* Mutant: keeps the title and records no event.
RecordTitleSilently(c, t) ==
    /\ Enabled /\ Unlocked
    /\ c \in windows
    /\ title' = [title EXCEPT ![c] = t]
    /\ UNCHANGED <<closed, checkpoints, chunking, windows, exited, size, streamVars, controlVars>>

RecordTitle(c, t) ==
    /\ Enabled /\ Unlocked
    /\ c \in windows
    /\ title' = [title EXCEPT ![c] = t]
    /\ RecordEventUnlessClosed(c, "Title", t)
    /\ UNCHANGED <<closed, checkpoints, chunking, windows, exited, size, controlVars>>

EndWindow(c) ==
    /\ Enabled /\ Unlocked
    /\ c \in windows \ exited
    /\ exited' = exited \cup {c}
    /\ RecordEventUnlessClosed(c, "Exited", Nothing)
    /\ UNCHANGED <<closed, checkpoints, chunking, windows, size, title, controlVars>>

\* The event store's own entry: a tap that lost output records a Gap.
RecordGap(c) ==
    /\ Enabled /\ Unlocked
    /\ c \in windows
    /\ RecordEvent(c, "Gap", Nothing)
    /\ UNCHANGED <<closed, checkpoints, chunking, windowVars, controlVars>>

\* Mutant: labels the state with the session's head.
AddCheckpointAtSessionHead(c) ==
    /\ Enabled /\ Unlocked
    /\ c \in windows
    /\ ~closed
    /\ checkpoints' = [checkpoints EXCEPT ![c] = AppendBounded(@, headSequence, MaximumCheckpoints)]
    /\ hasGap' = [hasGap EXCEPT ![c] = FALSE]
    /\ UNCHANGED <<closed, chunking, windowVars, controlVars,
                   headSequence, windowHead, events, recorded>>

\* Mutant: forgets that the session may be closed, and clears HasGap even when
\* the index is full and the new checkpoint is not kept.
AddCheckpointCareless(c) ==
    /\ Enabled /\ Unlocked
    /\ c \in windows
    /\ checkpoints' = [checkpoints EXCEPT
          ![c] = IF Len(@) < MaximumCheckpoints THEN Append(@, windowHead[c]) ELSE @]
    /\ hasGap' = [hasGap EXCEPT ![c] = FALSE]
    /\ UNCHANGED <<closed, chunking, windowVars, controlVars,
                   headSequence, windowHead, events, recorded>>

AddCheckpoint(c) ==
    /\ Enabled /\ Unlocked
    /\ c \in windows
    /\ ~closed
    /\ checkpoints' = [checkpoints EXCEPT ![c] = AppendBounded(@, windowHead[c], MaximumCheckpoints)]
    /\ hasGap' = [hasGap EXCEPT ![c] = FALSE]
    /\ UNCHANGED <<closed, chunking, windowVars, controlVars,
                   headSequence, windowHead, events, recorded>>

\* Close does not ask Enabled().
Close ==
    /\ Unlocked
    /\ closed' = TRUE
    /\ UNCHANGED <<checkpoints, chunking, windowVars, streamVars, controlVars>>

-----------------------------------------------------------------------------
\* Mutant: grants whoever asks, on a closed session too, and adds the lease to
\* the ones already given.
GrantControlToAnyone(k, id, t, d) ==
    /\ Enabled /\ Unlocked
    /\ Len(grants) < MaxGrants
    /\ lease' = lease \cup {[client |-> k, id |-> id, expires |-> (t + d) % TimeModulus]}
    /\ grants' = Append(grants, [client |-> k, id |-> id, until |-> t + d])
    /\ UNCHANGED <<closed, checkpoints, chunking, windowVars, streamVars, now, remoteInputs>>

\* Callers read the clock before they call: t may be older than now.
GrantControl(k, id, t, d) ==
    /\ Enabled /\ Unlocked
    /\ ~closed
    /\ Len(grants) < MaxGrants
    /\ \A l \in lease : l.expires > t => l.client = k
    /\ lease' = {[client |-> k, id |-> id, expires |-> (t + d) % TimeModulus]}
    /\ grants' = Append(grants, [client |-> k, id |-> id, until |-> t + d])
    /\ UNCHANGED <<closed, checkpoints, chunking, windowVars, streamVars, now, remoteInputs>>

\* An empty client id revokes whoever holds the lease.
RevokeControl(k) ==
    /\ Enabled /\ Unlocked
    /\ \E l \in lease : k \in {Nothing, l.client}
    /\ lease' = {}
    /\ UNCHANGED <<closed, checkpoints, chunking, windowVars, streamVars, now, grants, remoteInputs>>

\* Mutant: compares the lease id only.
HasControlById(k, id, t) ==
    /\ ~closed
    /\ \E l \in lease : l.expires > t /\ l.id = id

HasControl(k, id, t) ==
    /\ ~closed
    /\ \E l \in lease : l.expires > t /\ l.client = k /\ l.id = id

\* A remote input that holds the lease is recorded and handed to the caller
\* as a WriteInput effect.
TryCreateRemoteInputEffect(c, k, id, t) ==
    /\ Enabled /\ Unlocked
    /\ HasControl(k, id, t)
    /\ c \in windows
    /\ RecordEvent(c, "Input", k)
    /\ remoteInputs' = remoteInputs \cup
          {[seq |-> headSequence + 1, client |-> k, id |-> id, at |-> t, grant |-> Len(grants)]}
    /\ UNCHANGED <<closed, checkpoints, chunking, windowVars, lease, now, grants>>

Tick ==
    /\ now < MaxTime
    /\ now' = now + 1
    /\ UNCHANGED <<closed, checkpoints, chunking, windowVars, streamVars, lease, grants, remoteInputs>>

-----------------------------------------------------------------------------
Next ==
    \/ \E c \in Commands :
          \/ \E s \in Sizes : BeginWindow(c, s) \/ RecordResize(c, s)
          \/ \E t \in Titles \cup {Nothing} : RecordTitle(c, t)
          \/ \E n \in 1..MaxChunks : RecordOutput(c, n)
          \/ RecordInput(c) \/ RecordGap(c) \/ AddCheckpoint(c) \/ EndWindow(c)
    \/ RecordOutputChunk
    \/ Close
    \/ \E k \in Clients, id \in LeaseIds, t \in 0..now :
          \/ \E d \in Durations : GrantControl(k, id, t, d)
          \/ \E c \in Commands : TryCreateRemoteInputEffect(c, k, id, t)
    \/ \E k \in Clients \cup {Nothing} : RevokeControl(k)
    \/ Tick

Spec == Init /\ [][Next]_vars

-----------------------------------------------------------------------------
(***************************************************************************)
(* Recovery: what a client that joins, or comes back with the last         *)
(* sequence number it applied, is sent.                                    *)
(***************************************************************************)
\* std::find_if: the first event past n, and everything after it.
IsFirstAfter(stream, n, i) ==
    /\ i \in DOMAIN stream
    /\ stream[i].seq > n
    /\ \A j \in 1..(i - 1) : stream[j].seq <= n

EventsAfter(stream, n) ==
    IF \E i \in DOMAIN stream : stream[i].seq > n
    THEN SubSeq(stream, CHOOSE i \in DOMAIN stream : IsFirstAfter(stream, n, i), Len(stream))
    ELSE <<>>

\* A join without a resume point (std::nullopt).
NoResume == -1

\* Mutant: does not ask whether the stream still reaches back to n.
CanResumeAnywhere(c, n) ==
    /\ n # NoResume
    /\ ~hasGap[c]
    /\ n <= windowHead[c]

CanResume(c, n) ==
    /\ n # NoResume
    /\ ~hasGap[c]
    /\ n <= windowHead[c]
    /\ events[c] = <<>> \/ n + 1 >= Head(events[c]).seq

\* Mutant: replays whatever is left of the stream.
CanReplayAnything(c) == events[c] # <<>>

CanReplay(c) ==
    /\ ~hasGap[c]
    /\ events[c] # <<>>
    /\ Head(events[c]).kind = "Started"

\* Mutant: takes the oldest checkpoint that is kept.
LastCheckpointOldest(c) ==
    IF checkpoints[c] = <<>> THEN 0 ELSE checkpoints[c][1]

\* A window without a checkpoint has the base 0.
LastCheckpoint(c) ==
    IF checkpoints[c] = <<>> THEN 0 ELSE checkpoints[c][Len(checkpoints[c])]

Plan(kind, base, head, stream) == [kind |-> kind, base |-> base, head |-> head, events |-> stream]

PlanRecovery(c, n) ==
    IF ~Enabled \/ c \notin windows
    THEN Plan("Unavailable", 0, 0, <<>>)
    ELSE IF CanResume(c, n)
    THEN Plan("Resume", n, windowHead[c], EventsAfter(events[c], n))
    ELSE IF checkpoints[c] # <<>>
    THEN Plan("Checkpoint", LastCheckpoint(c), windowHead[c], EventsAfter(events[c], LastCheckpoint(c)))
    ELSE IF CanReplay(c)
    THEN Plan("ReplayFromStart", 0, windowHead[c], events[c])
    ELSE Plan("Unavailable", 0, windowHead[c], <<>>)

\* The events of a window's log that a client at sequence n has not seen.
Missed(log, n) == {e \in log : e.seq > n}

-----------------------------------------------------------------------------
(***************************************************************************)
(* Properties of the streams.                                              *)
(***************************************************************************)
\* Sequence numbers are given once in the whole session
\* (RecordWorkspaceMirrorEvent numbers from the session's counter): no two
\* events, of one window or of two, share one, and none is above the head.
SequencesUnique ==
    \A c, b \in Commands : \A e \in recorded[c], f \in recorded[b] :
        /\ e.seq \in 1..headSequence
        /\ e.seq = f.seq => c = b /\ e = f

\* The stream is the newest part of the log: in order, without a hole and
\* within the limit.
IsNewestPart(stream, log) ==
    /\ Len(stream) <= MaximumEvents
    /\ \A i, j \in DOMAIN stream : i < j => stream[i].seq < stream[j].seq
    /\ Items(stream) \subseteq log
    /\ \A e \in Items(stream) : Missed(log, e.seq) \subseteq Items(stream)

\* However many events were dropped, what a window keeps is the newest part of
\* what was recorded for it, up to its head.
RetainedIsNewest ==
    \A c \in Commands :
        /\ IsNewestPart(events[c], recorded[c])
        /\ c \in windows =>
              events[c] # <<>> /\ events[c][Len(events[c])].seq = windowHead[c]

\* What the streams of a session look like beside that: a window has no event
\* or checkpoint past its head, begins with its one Started event, and a
\* command whose window has not begun has nothing at all.
StreamShape ==
    \A c \in Commands :
        /\ windowHead[c] <= headSequence
        /\ \A e \in recorded[c] : e.seq <= windowHead[c]
        /\ \A e, f \in recorded[c] : e.kind = "Started" => e.seq <= f.seq
        /\ \A i \in DOMAIN checkpoints[c] : checkpoints[c][i] <= windowHead[c]
        /\ c \notin windows => recorded[c] = {} /\ events[c] = <<>> /\ checkpoints[c] = <<>>

\* HasGap is the only record of a loss: while it is clear, everything recorded
\* since the last checkpoint (or since the start) is still there.
NoSilentLoss ==
    \A c \in windows : ~hasGap[c] => Missed(recorded[c], LastCheckpoint(c)) \subseteq Items(events[c])

\* A client told to resume gets every event it missed and no other, whatever
\* was dropped before and whatever checkpoint cleared HasGap since.
ResumeExact ==
    \A c \in windows, n \in 0..headSequence :
        LET plan == PlanRecovery(c, n)
        IN plan.kind = "Resume" => Items(plan.events) = Missed(recorded[c], n)

\* A client told to replay from the start gets the window's whole history.
ReplayExact ==
    \A c \in windows, n \in NoResume..headSequence :
        LET plan == PlanRecovery(c, n)
        IN plan.kind = "ReplayFromStart" => Items(plan.events) = recorded[c]

\* A checkpoint handed out while HasGap is clear comes with every later event.
CheckpointExactWithoutGap ==
    \A c \in windows, n \in NoResume..headSequence :
        LET plan == PlanRecovery(c, n)
        IN plan.kind = "Checkpoint" /\ ~hasGap[c] => Items(plan.events) = Missed(recorded[c], plan.base)

\* A client that applies a plan is at the head the plan announces: the last
\* event it is sent, or the base when nothing follows it, has that number.
PlanReachesHead ==
    \A c \in windows, n \in NoResume..headSequence :
        LET plan == PlanRecovery(c, n)
        IN plan.kind # "Unavailable" =>
              plan.head = IF plan.events = <<>> THEN plan.base
                          ELSE plan.events[Len(plan.events)].seq

\* The last value a Resize or a Title event (or Started) gave a window.
LatestValue(c, kinds, value) ==
    \E e \in recorded[c] :
        /\ e.kind \in kinds /\ e.value = value
        /\ \A f \in Missed(recorded[c], e.seq) : f.kind \notin kinds

\* Until the session is closed the window's size and title are the ones a
\* client reads off the recorded stream.
AttributesFollowStream ==
    ~closed => \A c \in windows :
        /\ LatestValue(c, {"Started", "Resize"}, size[c])
        /\ title[c] # Nothing => LatestValue(c, {"Title"}, title[c])
        /\ c \in exited <=> \E e \in recorded[c] : e.kind = "Exited"

\* "A later atomic checkpoint is the only safe way to clear this": HasGap goes
\* down only in a step that leaves a checkpoint at the window's head.
GapClearedOnlyByCheckpoint ==
    [][\A c \in Commands : hasGap[c] /\ ~hasGap'[c] =>
          checkpoints'[c] # <<>> /\ LastCheckpoint(c)' = windowHead'[c]]_vars

\* Close is final for what clients can be sent: no event, checkpoint or grant
\* is added to a closed session (a window's own fields may still change).
ClosedIsFinal ==
    [][closed => closed' /\ UNCHANGED <<streamVars, checkpoints, grants, remoteInputs>>]_vars

\* The inductive invariant the recovery properties follow from.
StreamInvariant ==
    /\ SequencesUnique
    /\ RetainedIsNewest
    /\ StreamShape
    /\ NoSilentLoss

-----------------------------------------------------------------------------
(***************************************************************************)
(* Properties of the control lease.                                        *)
(***************************************************************************)
\* The remote inputs in the log fall into one block per grant, in the order of
\* the grants, and the inputs of a block come from that grant's client with
\* that grant's lease id, inside the time it was granted for: two clients
\* never write in turns under one grant, and nobody writes under an old one.
OneController ==
    \A i \in remoteInputs :
        /\ i.grant \in DOMAIN grants
        /\ i.client = grants[i.grant].client
        /\ i.id = grants[i.grant].id
        /\ i.at < grants[i.grant].until
        /\ \A j \in remoteInputs : i.seq < j.seq => i.grant <= j.grant

\* What OneController rests on: the lease is the one of the last grant, and it
\* does not outlast it even when now + duration wraps.
ControlInvariant ==
    /\ OneController
    /\ \A l \in lease :
          LET last == grants[Len(grants)]
          IN /\ grants # <<>>
             /\ l.client = last.client /\ l.id = last.id
             /\ l.expires <= last.until
    /\ \A i \in remoteInputs : i.seq <= headSequence

\* A grant or revoke that reads an old clock still takes the lease from no
\* client that holds it: another client's grant replaces only a lease that has
\* run out by the clock of that moment.
NoTakeover ==
    [][\A l \in lease, m \in lease' : l.client # m.client => l.expires <= now]_vars

=============================================================================
