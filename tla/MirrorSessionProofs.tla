------------------------- MODULE MirrorSessionProofs -------------------------
(***************************************************************************)
(* Proofs about MirrorSession, for every set of commands and clients, every *)
(* limit and every bound.  After type correctness, the inductive invariant of *)
(* the streams (what a window keeps is the newest part of its log, and HasGap *)
(* tells of every loss that a checkpoint has not made good) and that of the *)
(* control lease (remote inputs fall into one block per grant).            *)
(***************************************************************************)
EXTENDS MirrorSession, TLAPS

\* What the append-then-erase of the event store and of the checkpoint index
\* leaves: the old elements without the first when there was one too many, then
\* the new one.
LEMMA AppendBoundedProperties ==
    ASSUME NEW S, NEW s \in Seq(S), NEW x \in S, NEW limit \in Nat \ {0}
    PROVE  LET t == AppendBounded(s, x, limit)
               d == IF Len(s) + 1 > limit THEN 1 ELSE 0
           IN /\ t \in Seq(S)
              /\ Len(t) = Len(s) + 1 - d
              /\ Len(t) > 0
              /\ t[Len(t)] = x
              /\ \A i \in 1..Len(t) : t[i] = IF i + d <= Len(s) THEN s[i + d] ELSE x
<1>1. /\ Append(s, x) \in Seq(S)
      /\ Append(s, x) # <<>>
      /\ Len(s) \in Nat
      /\ Len(Append(s, x)) = Len(s) + 1
      /\ \A i \in 1..Len(s) : Append(s, x)[i] = s[i]
      /\ Append(s, x)[Len(s) + 1] = x
  OBVIOUS
<1>2. CASE Len(s) + 1 > limit
  <2>1. /\ Tail(Append(s, x)) \in Seq(S)
        /\ Len(Tail(Append(s, x))) = Len(s)
        /\ \A i \in 1..Len(s) : Tail(Append(s, x))[i] = Append(s, x)[i + 1]
    BY <1>1
  <2>2. Len(s) > 0
    BY <1>1, <1>2
  <2> QED BY <1>1, <1>2, <2>1, <2>2 DEF AppendBounded
<1>3. CASE ~(Len(s) + 1 > limit)
  BY <1>1, <1>3 DEF AppendBounded
<1> QED BY <1>2, <1>3

\* The part of TypeOK that RecordEvent touches.
StreamTypeOK ==
    /\ headSequence \in Nat
    /\ hasGap \in [Commands -> BOOLEAN]
    /\ windowHead \in [Commands -> Nat]
    /\ events \in [Commands -> Seq(Event)]
    /\ recorded \in [Commands -> SUBSET Event]

\* RecordWorkspaceMirrorEvent keeps the types of the fields it assigns.
LEMMA RecordEventType ==
    ASSUME StreamTypeOK,
           NEW c \in Commands, NEW kind \in Kinds, NEW value \in Value,
           RecordEvent(c, kind, value)
    PROVE  StreamTypeOK'
<1> DEFINE event == [seq |-> headSequence + 1, kind |-> kind, value |-> value]
<1>1. headSequence + 1 \in Nat /\ event \in Event
  BY DEF StreamTypeOK, Event, Value
<1> HIDE DEF event
<1>2. AppendBounded(events[c], event, MaximumEvents) \in Seq(Event)
  BY <1>1, LimitsAssumption, AppendBoundedProperties DEF StreamTypeOK
<1>3. events' \in [Commands -> Seq(Event)]
  BY <1>2 DEF RecordEvent, MakesGap, StreamTypeOK, event
<1>4. recorded' \in [Commands -> SUBSET Event]
  <2>1. recorded' = [recorded EXCEPT ![c] = recorded[c] \cup {event}]
    BY DEF RecordEvent, MakesGap, event
  <2> QED BY <1>1, <2>1 DEF StreamTypeOK
<1>5. hasGap' \in [Commands -> BOOLEAN]
  BY DEF RecordEvent, MakesGap, StreamTypeOK
<1>6. headSequence' \in Nat /\ windowHead' \in [Commands -> Nat]
  BY <1>1 DEF RecordEvent, MakesGap, StreamTypeOK
<1> QED BY <1>3, <1>4, <1>5, <1>6 DEF StreamTypeOK

\* A session as CreateWorkspaceMirrorNodeSession makes it has the right types.
LEMMA InitTypeOK == Init => TypeOK
<1> SUFFICES ASSUME Init PROVE TypeOK
  OBVIOUS
<1>1. events \in [Commands -> Seq(Event)] /\ checkpoints \in [Commands -> Seq(Nat)] /\ grants \in Seq(Grant)
  BY DEF Init
<1>2. hasGap \in [Commands -> BOOLEAN] /\ windowHead \in [Commands -> Nat]
  BY DEF Init
<1>3. size \in [Commands -> Sizes \cup {Nothing}] /\ title \in [Commands -> Titles \cup {Nothing}]
  BY DEF Init
<1>4. recorded \in [Commands -> SUBSET Event]
  BY DEF Init
<1>5. /\ chunking \in [command : Commands \cup {Nothing}, left : Nat]
      /\ chunking.left > 0 => chunking.command \in windows
  BY DEF Init
<1> QED BY Zenon, <1>1, <1>2, <1>3, <1>4, <1>5 DEF Init, TypeOK

\* Every operation of the recorder keeps the types, one case per operation.
LEMMA StepTypeOK ==
    ASSUME TypeOK, [Next]_vars
    PROVE  TypeOK'
<1> USE DEF TypeOK
<1>0. StreamTypeOK
  BY DEF StreamTypeOK
<1>1. ASSUME NEW c \in Commands, NEW s \in Sizes, BeginWindow(c, s)
      PROVE  TypeOK'
  <2>1. StreamTypeOK'
    BY <1>0, <1>1, RecordEventType DEF BeginWindow, Kinds, Value
  <2> QED BY Zenon, <1>1, <2>1 DEF BeginWindow, StreamTypeOK, controlVars
<1>2. ASSUME NEW c \in Commands, NEW s \in Sizes, RecordResize(c, s)
      PROVE  TypeOK'
  <2>1. StreamTypeOK'
    <3>1. CASE RecordEvent(c, "Resize", s)
      BY <1>0, <3>1, RecordEventType DEF Kinds, Value
    <3>2. CASE UNCHANGED streamVars
      BY <1>0, <3>2 DEF StreamTypeOK, streamVars
    <3> QED BY <1>2, <3>1, <3>2 DEF RecordResize, RecordEventUnlessClosed
  <2> QED BY Zenon, <1>2, <2>1 DEF RecordResize, StreamTypeOK, controlVars
<1>3. ASSUME NEW c \in Commands, NEW t \in Titles \cup {Nothing}, RecordTitle(c, t)
      PROVE  TypeOK'
  <2>1. StreamTypeOK'
    <3>1. CASE RecordEvent(c, "Title", t)
      BY <1>0, <3>1, RecordEventType DEF Kinds, Value
    <3>2. CASE UNCHANGED streamVars
      BY <1>0, <3>2 DEF StreamTypeOK, streamVars
    <3> QED BY <1>3, <3>1, <3>2 DEF RecordTitle, RecordEventUnlessClosed
  <2> QED BY Zenon, <1>3, <2>1 DEF RecordTitle, StreamTypeOK, controlVars
<1>4. ASSUME NEW c \in Commands, NEW n \in 1..MaxChunks, RecordOutput(c, n)
      PROVE  TypeOK'
  <2>1. StreamTypeOK'
    BY <1>0, <1>4, RecordEventType DEF RecordOutput, Kinds, Value
  <2>2. n - 1 \in Nat
    BY BoundsAssumption
  <2> QED BY Zenon, <1>4, <2>1, <2>2 DEF RecordOutput, StreamTypeOK, windowVars, controlVars
<1>5. ASSUME NEW c \in Commands, RecordInput(c) \/ RecordGap(c)
      PROVE  TypeOK'
  <2>1. StreamTypeOK'
    BY <1>0, <1>5, RecordEventType DEF RecordInput, RecordGap, Kinds, Value
  <2> QED BY Zenon, <1>5, <2>1 DEF RecordInput, RecordGap, StreamTypeOK, windowVars, controlVars
<1>6. ASSUME NEW c \in Commands, AddCheckpoint(c)
      PROVE  TypeOK'
  <2>1. AppendBounded(checkpoints[c], windowHead[c], MaximumCheckpoints) \in Seq(Nat)
    BY Zenon, LimitsAssumption, AppendBoundedProperties
  <2> QED BY <1>6, <2>1 DEF AddCheckpoint, windowVars, controlVars
<1>7. ASSUME NEW c \in Commands, EndWindow(c)
      PROVE  TypeOK'
  <2>1. StreamTypeOK'
    <3>1. CASE RecordEvent(c, "Exited", Nothing)
      BY <1>0, <3>1, RecordEventType DEF Kinds, Value
    <3>2. CASE UNCHANGED streamVars
      BY <1>0, <3>2 DEF StreamTypeOK, streamVars
    <3> QED BY <1>7, <3>1, <3>2 DEF EndWindow, RecordEventUnlessClosed
  <2> QED BY Zenon, <1>7, <2>1 DEF EndWindow, StreamTypeOK, controlVars
<1>8. CASE RecordOutputChunk
  <2>1. chunking.left \in Nat /\ chunking.left > 0 /\ chunking.command \in Commands
    BY <1>8 DEF RecordOutputChunk, Unlocked
  <2>2. StreamTypeOK'
    BY <1>0, <1>8, <2>1, RecordEventType DEF RecordOutputChunk, Kinds, Value
  <2>3. /\ chunking' \in [command : Commands \cup {Nothing}, left : Nat]
        /\ chunking'.command = chunking.command
    <3>1. chunking \in [command : Commands \cup {Nothing}, left : Nat]
      OBVIOUS
    <3>2. chunking' = [chunking EXCEPT !.left = chunking.left - 1] /\ chunking.left - 1 \in Nat
      BY <1>8, <2>1 DEF RecordOutputChunk
    <3> HIDE DEF TypeOK
    <3> QED BY <3>1, <3>2
  <2>4. windows' = windows /\ chunking'.command \in windows'
    BY <1>8, <2>1, <2>3 DEF RecordOutputChunk, windowVars
  <2> QED BY Zenon, <1>8, <2>2, <2>3, <2>4 DEF RecordOutputChunk, StreamTypeOK, windowVars, controlVars
<1>9. CASE Close
  BY <1>9 DEF Close, windowVars, streamVars, controlVars
<1>10. ASSUME NEW k \in Clients, NEW id \in LeaseIds, NEW t \in 0..now, NEW d \in Durations,
              GrantControl(k, id, t, d)
       PROVE  TypeOK'
  <2>1. t + d \in Nat /\ (t + d) % TimeModulus \in Nat
    BY ClockAssumption
  <2>2. lease' \in SUBSET Lease /\ \A l, m \in lease' : l = m
    BY <1>10, <2>1 DEF GrantControl, Lease
  <2>3. grants' \in Seq(Grant)
    BY <1>10, <2>1 DEF GrantControl, Grant
  <2> QED BY <1>10, <2>2, <2>3 DEF GrantControl, windowVars, streamVars
<1>11. ASSUME NEW k \in Clients \cup {Nothing}, RevokeControl(k)
       PROVE  TypeOK'
  BY <1>11 DEF RevokeControl, windowVars, streamVars
<1>12. ASSUME NEW k \in Clients, NEW id \in LeaseIds, NEW t \in 0..now, NEW c \in Commands,
              TryCreateRemoteInputEffect(c, k, id, t)
       PROVE  TypeOK'
  <2>1. StreamTypeOK'
    BY <1>0, <1>12, RecordEventType DEF TryCreateRemoteInputEffect, Kinds, Value
  <2>2. remoteInputs' \in SUBSET RemoteInput
    BY <1>12 DEF TryCreateRemoteInputEffect, RemoteInput
  <2> QED BY Zenon, <1>12, <2>1, <2>2 DEF TryCreateRemoteInputEffect, StreamTypeOK, windowVars
<1>13. CASE Tick
  BY <1>13 DEF Tick, windowVars, streamVars
<1>14. CASE UNCHANGED vars
  BY <1>14 DEF vars, windowVars, streamVars, controlVars
<1> QED
  BY Zenon, <1>1, <1>2, <1>3, <1>4, <1>5, <1>6, <1>7, <1>8, <1>9, <1>10, <1>11, <1>12, <1>13, <1>14 DEF Next

\* Every field of the session always has its type; in particular there is never
\* more than one lease, and the window a RecordOutput call is chunking for exists.
THEOREM TypeCorrect == Spec => []TypeOK
BY InitTypeOK, StepTypeOK, PTL DEF Spec

LEMMA ModuloAtMost ==
    ASSUME NEW a \in Nat, NEW m \in Nat \ {0}
    PROVE  a % m <= a
OBVIOUS

\* Operations that leave lease, grants and remote inputs alone, and at most move
\* the head forward, keep the control invariant.
LEMMA UnchangedControl ==
    ASSUME TypeOK, ControlInvariant,
           UNCHANGED <<lease, grants, remoteInputs>>, headSequence' \in Nat, headSequence <= headSequence'
    PROVE  ControlInvariant'
<1>1. OneController'
  BY DEF ControlInvariant, OneController
<1>2. \A i \in remoteInputs' : i.seq <= headSequence'
  BY DEF ControlInvariant, TypeOK, RemoteInput
<1> QED BY <1>1, <1>2 DEF ControlInvariant

\* RecordWorkspaceMirrorEvent moves the session's head up by one.
LEMMA RecordEventHead ==
    ASSUME TypeOK, NEW c, NEW kind, NEW value, RecordEvent(c, kind, value)
    PROVE  headSequence' = headSequence + 1 /\ headSequence' \in Nat /\ headSequence <= headSequence'
BY DEF RecordEvent, MakesGap, TypeOK

\* GrantWorkspaceMirrorControl keeps the control invariant: the new lease is the
\* last grant's, and does not outlast it even if now + duration wraps.
LEMMA GrantStep ==
    ASSUME TypeOK, ControlInvariant,
           NEW k \in Clients, NEW id \in LeaseIds, NEW t \in 0..now, NEW d \in Durations,
           GrantControl(k, id, t, d)
    PROVE  ControlInvariant'
<1> DEFINE g == [client |-> k, id |-> id, until |-> t + d]
<1>1. t + d \in Nat /\ (t + d) % TimeModulus <= t + d
  <2>1. t + d \in Nat /\ TimeModulus \in Nat \ {0}
    BY ClockAssumption DEF TypeOK
  <2> QED BY <2>1, ModuloAtMost
<1>2. /\ grants' = Append(grants, g)
      /\ lease' = {[client |-> k, id |-> id, expires |-> (t + d) % TimeModulus]}
      /\ remoteInputs' = remoteInputs /\ headSequence' = headSequence
  BY DEF GrantControl, streamVars
<1>3. g \in Grant /\ grants \in Seq(Grant)
  BY <1>1 DEF Grant, TypeOK
<1> HIDE DEF g
<1>4. /\ grants' \in Seq(Grant) /\ grants' # <<>>
      /\ Len(grants') = Len(grants) + 1 /\ Len(grants) \in Nat
      /\ grants'[Len(grants')] = g
      /\ \A i \in DOMAIN grants : i \in DOMAIN grants' /\ grants'[i] = grants[i]
  BY <1>2, <1>3
<1>5. OneController'
  BY <1>2, <1>4 DEF ControlInvariant, OneController
<1>6. \A l \in lease' : l.client = g.client /\ l.id = g.id /\ l.expires <= g.until
  BY <1>1, <1>2 DEF g
<1>7. \A i \in remoteInputs' : i.seq <= headSequence'
  BY <1>2 DEF ControlInvariant
<1> QED BY <1>4, <1>5, <1>6, <1>7 DEF ControlInvariant

\* An accepted remote input belongs to the last grant and is numbered after all
\* earlier ones.
LEMMA RemoteInputStep ==
    ASSUME TypeOK, ControlInvariant,
           NEW k \in Clients, NEW id \in LeaseIds, NEW t \in 0..now, NEW c \in Commands,
           TryCreateRemoteInputEffect(c, k, id, t)
    PROVE  ControlInvariant'
<1> DEFINE i == [seq |-> headSequence + 1, client |-> k, id |-> id, at |-> t, grant |-> Len(grants)]
<1>1. /\ remoteInputs' = remoteInputs \cup {i}
      /\ UNCHANGED <<lease, grants>>
      /\ headSequence' = headSequence + 1
      /\ HasControl(k, id, t)
  BY RecordEventHead DEF TryCreateRemoteInputEffect
<1>2. /\ headSequence \in Nat /\ grants \in Seq(Grant) /\ Len(grants) \in Nat
      /\ \A j \in remoteInputs : j.seq \in Nat /\ j.grant \in Nat
  BY DEF TypeOK, RemoteInput
<1>3. PICK l \in lease : l.expires > t /\ l.client = k /\ l.id = id
  BY <1>1 DEF HasControl
<1>4. /\ Len(grants) \in DOMAIN grants
      /\ grants[Len(grants)].client = k
      /\ grants[Len(grants)].id = id
      /\ t < grants[Len(grants)].until
  <2>1. /\ grants # <<>>
        /\ l.client = grants[Len(grants)].client /\ l.id = grants[Len(grants)].id
        /\ l.expires <= grants[Len(grants)].until
    BY DEF ControlInvariant
  <2>2. Len(grants) \in DOMAIN grants
    BY <2>1, <1>2
  <2>3. grants[Len(grants)] \in Grant
    BY <2>2, <1>2
  <2>4. l.expires \in Nat /\ grants[Len(grants)].until \in Nat /\ t \in Nat
    BY <2>3 DEF TypeOK, Lease, Grant
  <2> QED BY <2>1, <2>2, <2>4, <1>3
<1>5. OneController'
  <2> SUFFICES ASSUME NEW j \in remoteInputs'
               PROVE  /\ j.grant \in DOMAIN grants
                      /\ j.client = grants[j.grant].client
                      /\ j.id = grants[j.grant].id
                      /\ j.at < grants[j.grant].until
                      /\ \A h \in remoteInputs' : j.seq < h.seq => j.grant <= h.grant
    BY <1>1 DEF OneController
  <2>1. \A h \in remoteInputs : h.seq <= headSequence /\ h.grant <= Len(grants)
    BY <1>2 DEF ControlInvariant, OneController
  <2>2. CASE j = i
    BY <2>1, <2>2, <1>1, <1>2, <1>4
  <2>3. CASE j \in remoteInputs
    BY <2>1, <2>3, <1>1, <1>2 DEF ControlInvariant, OneController
  <2> QED BY <2>2, <2>3, <1>1
<1>6. \A j \in remoteInputs' : j.seq <= headSequence'
  BY <1>1, <1>2 DEF ControlInvariant
<1> QED BY <1>1, <1>5, <1>6 DEF ControlInvariant

\* Every operation of the recorder keeps the control invariant.
LEMMA StepControl ==
    ASSUME TypeOK, ControlInvariant, [Next]_vars
    PROVE  ControlInvariant'
<1>1. ASSUME UNCHANGED <<lease, grants, remoteInputs>>,
             headSequence' = headSequence \/ \E c, kind, value : RecordEvent(c, kind, value)
      PROVE  ControlInvariant'
  <2>1. headSequence' \in Nat /\ headSequence <= headSequence'
    BY <1>1, RecordEventHead DEF TypeOK
  <2> QED BY <1>1, <2>1, UnchangedControl
<1>2. ASSUME NEW c \in Commands, NEW s \in Sizes, BeginWindow(c, s) \/ RecordResize(c, s)
      PROVE  ControlInvariant'
  BY <1>1, <1>2 DEF BeginWindow, RecordResize, RecordEventUnlessClosed, controlVars, streamVars
<1>3. ASSUME NEW c \in Commands, NEW t \in Titles \cup {Nothing}, RecordTitle(c, t)
      PROVE  ControlInvariant'
  BY <1>1, <1>3 DEF RecordTitle, RecordEventUnlessClosed, controlVars, streamVars
<1>4. ASSUME NEW c \in Commands, NEW n \in 1..MaxChunks, RecordOutput(c, n)
      PROVE  ControlInvariant'
  BY <1>1, <1>4 DEF RecordOutput, controlVars
<1>5. ASSUME NEW c \in Commands, RecordInput(c) \/ RecordGap(c)
      PROVE  ControlInvariant'
  BY <1>1, <1>5 DEF RecordInput, RecordGap, controlVars
<1>6. ASSUME NEW c \in Commands, AddCheckpoint(c) \/ EndWindow(c)
      PROVE  ControlInvariant'
  BY <1>1, <1>6 DEF AddCheckpoint, EndWindow, RecordEventUnlessClosed, controlVars, streamVars
<1>7. CASE RecordOutputChunk
  BY <1>1, <1>7 DEF RecordOutputChunk, controlVars
<1>8. CASE Close
  BY <1>1, <1>8 DEF Close, controlVars, streamVars
<1>9. ASSUME NEW k \in Clients \cup {Nothing}, RevokeControl(k)
      PROVE  ControlInvariant'
  <2>1. lease' = {} /\ UNCHANGED <<grants, remoteInputs, headSequence>>
    BY <1>9 DEF RevokeControl, streamVars
  <2> QED BY <2>1 DEF ControlInvariant, OneController
<1>10. CASE Tick
  BY <1>1, <1>10 DEF Tick, streamVars
<1>11. CASE UNCHANGED vars
  BY <1>1, <1>11 DEF vars, controlVars, streamVars
<1> QED
  BY <1>2, <1>3, <1>4, <1>5, <1>6, <1>7, <1>8, <1>9, <1>10, <1>11, GrantStep, RemoteInputStep DEF Next

\* The control invariant always holds.
LEMMA ControlHolds == Spec => []ControlInvariant
<1>1. Init => ControlInvariant
  BY DEF Init, ControlInvariant, OneController
<1>2. TypeOK /\ ControlInvariant /\ [Next]_vars => ControlInvariant'
  BY StepControl
<1> QED BY <1>1, <1>2, TypeCorrect, PTL DEF Spec

\* Remote inputs never interleave: each belongs to one grant, came from its
\* client with its lease id within its time, and the grants' inputs follow one
\* another in the log in the order of the grants.
THEOREM ControlCorrect == Spec => []OneController
<1>1. ControlInvariant => OneController
  BY DEF ControlInvariant
<1> QED BY <1>1, ControlHolds, PTL

\* A step that changes the lease is a grant or a revocation.
LEMMA StepLease ==
    ASSUME [Next]_vars, lease' # lease
    PROVE  \/ lease' = {}
           \/ \E k \in Clients, id \in LeaseIds, t \in 0..now, d \in Durations : GrantControl(k, id, t, d)
<1>1. ASSUME NEW c \in Commands, NEW s \in Sizes, BeginWindow(c, s) \/ RecordResize(c, s) PROVE FALSE
  BY <1>1 DEF BeginWindow, RecordResize, controlVars
<1>2. ASSUME NEW c \in Commands, NEW t \in Titles \cup {Nothing}, RecordTitle(c, t) PROVE FALSE
  BY <1>2 DEF RecordTitle, controlVars
<1>3. ASSUME NEW c \in Commands, NEW n \in 1..MaxChunks, RecordOutput(c, n) PROVE FALSE
  BY <1>3 DEF RecordOutput, controlVars
<1>4. ASSUME NEW c \in Commands, RecordInput(c) \/ RecordGap(c) \/ AddCheckpoint(c) \/ EndWindow(c) PROVE FALSE
  BY <1>4 DEF RecordInput, RecordGap, AddCheckpoint, EndWindow, controlVars
<1>5. ASSUME RecordOutputChunk \/ Close \/ Tick \/ UNCHANGED vars PROVE FALSE
  BY <1>5 DEF RecordOutputChunk, Close, Tick, vars, controlVars
<1>6. ASSUME NEW k, NEW id, NEW t, NEW c, TryCreateRemoteInputEffect(c, k, id, t) PROVE FALSE
  BY <1>6 DEF TryCreateRemoteInputEffect
<1>7. ASSUME NEW k, RevokeControl(k) PROVE lease' = {}
  BY <1>7 DEF RevokeControl
<1> QED BY <1>1, <1>2, <1>3, <1>4, <1>5, <1>6, <1>7 DEF Next

\* A grant to another client takes the place of a lease only once that has run
\* out, although the caller may have read an old clock
\* (GrantWorkspaceMirrorControl).
THEOREM LeaseNeverTaken == Spec => NoTakeover
<1>1. ASSUME TypeOK, [Next]_vars, NEW l \in lease, NEW m \in lease', l.client # m.client
      PROVE  l.expires <= now
  <2>1. CASE lease' = lease
    BY <1>1, <2>1 DEF TypeOK
  <2>2. ASSUME NEW k \in Clients, NEW id \in LeaseIds, NEW t \in 0..now, NEW d \in Durations,
               GrantControl(k, id, t, d)
        PROVE  l.expires <= now
    <3>1. m.client = k /\ ~(l.expires > t)
      BY <1>1, <2>2 DEF GrantControl
    <3>2. l.expires \in Nat /\ now \in Nat
      BY <1>1 DEF TypeOK, Lease
    <3> QED BY <3>1, <3>2
  <2> QED BY <1>1, <2>1, <2>2, StepLease
<1>2. TypeOK /\ [Next]_vars =>
          [\A l \in lease, m \in lease' : l.client # m.client => l.expires <= now]_vars
  BY Zenon, <1>1
<1> QED BY <1>2, TypeCorrect, PTL DEF Spec, NoTakeover

LEMMA NewestPartGrows ==
    ASSUME NEW s \in Seq(Event), NEW log \in SUBSET Event, NEW e \in Event,
           IsNewestPart(s, log),
           \A f \in log : f.seq < e.seq
    PROVE  /\ IsNewestPart(AppendBounded(s, e, MaximumEvents), log \cup {e})
           /\ Len(s) + 1 <= MaximumEvents =>
                 Items(AppendBounded(s, e, MaximumEvents)) = Items(s) \cup {e}
<1> DEFINE t == AppendBounded(s, e, MaximumEvents)
           d == IF Len(s) + 1 > MaximumEvents THEN 1 ELSE 0
<1>1. /\ Len(s) \in Nat
      /\ DOMAIN s = 1..Len(s)
      /\ \A i \in 1..Len(s) : s[i] \in Event /\ s[i].seq \in Nat
  <2>1. \A h \in Event : h.seq \in Nat
    BY DEF Event
  <2> QED BY <2>1
<1>2. /\ t \in Seq(Event)
      /\ Len(t) = Len(s) + 1 - d
      /\ t[Len(t)] = e
      /\ \A i \in 1..Len(t) : t[i] = IF i + d <= Len(s) THEN s[i + d] ELSE e
  BY LimitsAssumption, AppendBoundedProperties
<1>3. DOMAIN t = 1..Len(t) /\ Len(t) \in Nat /\ d \in {0, 1} /\ MaximumEvents \in Nat
  BY <1>2, LimitsAssumption
<1>4. \A f \in Event : f.seq \in Nat
  BY DEF Event
<1>5. /\ Len(s) <= MaximumEvents
      /\ \A i, j \in DOMAIN s : i < j => s[i].seq < s[j].seq
      /\ \A i \in DOMAIN s : s[i] \in log /\ s[i].seq < e.seq
      /\ \A i \in DOMAIN s : Missed(log, s[i].seq) \subseteq Items(s)
  BY Zenon DEF IsNewestPart, Items
<1>6. Len(t) <= MaximumEvents
  BY <1>1, <1>2, <1>3, <1>5 DEF d
<1>7. d = 1 <=> Len(s) + 1 > MaximumEvents
  BY DEF d
<1> HIDE DEF t, d
<1>8. ASSUME NEW i \in DOMAIN t, NEW j \in DOMAIN t, i < j
      PROVE  t[i].seq < t[j].seq
  <2>1. i + d \in DOMAIN s /\ t[i] = s[i + d]
    <3>1. i \in 1..Len(t) /\ i + d \in 1..Len(s)
      BY <1>1, <1>2, <1>3, <1>8
    <3> QED BY <3>1, <1>1, <1>2
  <2>2. CASE j + d <= Len(s)
    <3>1. j + d \in DOMAIN s /\ t[j] = s[j + d] /\ i + d < j + d
      BY <1>1, <1>2, <1>3, <1>8, <2>2
    <3> QED BY <2>1, <3>1, <1>5
  <2>3. CASE ~(j + d <= Len(s))
    BY <1>2, <1>3, <1>5, <2>1, <2>3
  <2> QED BY <2>2, <2>3
<1>9. ASSUME NEW i \in DOMAIN t PROVE t[i] \in log \cup {e}
  <2>1. CASE i + d <= Len(s)
    BY <2>1, <1>1, <1>2, <1>3, <1>5
  <2>2. CASE ~(i + d <= Len(s))
    BY <2>2, <1>2, <1>3
  <2> QED BY <2>1, <2>2
<1>10. e \in Items(t)
  <2>1. Len(t) \in DOMAIN t
    BY <1>1, <1>2, <1>3, LimitsAssumption, <1>7
  <2> QED BY <2>1, <1>2 DEF Items
<1>11. ASSUME NEW i \in DOMAIN t, NEW f \in log \cup {e}, f.seq > t[i].seq
       PROVE  f \in Items(t)
  <2>1. CASE f = e
    BY <2>1, <1>10
  <2>2. CASE f \in log
    <3>1. t[i] # e
      BY <2>2, <1>11, <1>4
    <3>2. i + d \in DOMAIN s /\ t[i] = s[i + d]
      <4>1. i \in 1..Len(t) /\ i + d <= Len(s)
        BY <3>1, <1>1, <1>2, <1>3
      <4>2. i + d \in 1..Len(s)
        BY <4>1, <1>1, <1>3
      <4> QED BY <4>1, <4>2, <1>1, <1>2
    <3>3. PICK j \in DOMAIN s : f = s[j]
      BY <2>2, <3>2, <1>5, <1>11 DEF Missed, Items
    <3>4. j > i + d
      <4>1. ~(j < i + d) /\ j # i + d
        BY <3>2, <3>3, <1>1, <1>5, <1>11
      <4> QED BY <4>1, <3>2, <1>1
    <3>5. j - d \in DOMAIN t /\ (j - d) + d = j
      BY <3>4, <1>1, <1>2, <1>3
    <3>6. t[j - d] = f
      BY <3>3, <3>5, <1>1, <1>2, <1>3
    <3> QED BY <3>5, <3>6 DEF Items
  <2> QED BY <2>1, <2>2
<1>12. IsNewestPart(t, log \cup {e})
  <2>1. Items(t) \subseteq log \cup {e}
    BY <1>9 DEF Items
  <2>2. \A g \in Items(t) : Missed(log \cup {e}, g.seq) \subseteq Items(t)
    BY <1>11 DEF Missed, Items
  <2> QED BY Zenon, <1>6, <1>8, <2>1, <2>2 DEF IsNewestPart
<1>13. ASSUME Len(s) + 1 <= MaximumEvents
       PROVE  Items(t) = Items(s) \cup {e}
  <2>1. d = 0
    BY <1>1, <1>3, <1>7, <1>13
  <2>2. \A i \in DOMAIN s : i \in DOMAIN t /\ t[i] = s[i]
    BY <2>1, <1>1, <1>2, <1>3
  <2>3. \A i \in DOMAIN t : i \in DOMAIN s \/ t[i] = e
    BY <2>1, <1>1, <1>2, <1>3
  <2> QED BY <2>2, <2>3, <1>10 DEF Items
<1> QED BY <1>12, <1>13 DEF t

\* RecordWorkspaceMirrorEvent keeps the stream invariant, whether it is the
\* Started event of a new window or an event of a window that exists.
LEMMA RecordEventStream ==
    ASSUME TypeOK, StreamInvariant,
           NEW c \in Commands, NEW kind \in Kinds, NEW value \in Value,
           RecordEvent(c, kind, value),
           windows' = windows \cup {c},
           checkpoints' = checkpoints,
           c \in windows <=> kind # "Started"
    PROVE  StreamInvariant'
<1> DEFINE e == [seq |-> headSequence + 1, kind |-> kind, value |-> value]
           t == AppendBounded(events[c], e, MaximumEvents)
<1>1. /\ headSequence \in Nat
      /\ e \in Event /\ e.seq = headSequence + 1 /\ e.kind = kind
  BY DEF TypeOK, Event, Value
<1>2. /\ \A f \in Event : f.seq \in Nat
      /\ \A b \in Commands : events[b] \in Seq(Event) /\ recorded[b] \in SUBSET Event
  BY Zenon DEF TypeOK, Event
<1>3. /\ headSequence' = e.seq
      /\ windowHead' = [windowHead EXCEPT ![c] = e.seq]
      /\ events' = [events EXCEPT ![c] = t]
      /\ hasGap' = [hasGap EXCEPT ![c] = hasGap[c] \/ kind = "Gap" \/ Len(events[c]) + 1 > MaximumEvents]
      /\ recorded' = [recorded EXCEPT ![c] = recorded[c] \cup {e}]
  BY DEF RecordEvent, MakesGap
<1> HIDE DEF e, t
<1>4. /\ windowHead'[c] = e.seq
      /\ events'[c] = t
      /\ recorded'[c] = recorded[c] \cup {e}
      /\ hasGap'[c] <=> hasGap[c] \/ kind = "Gap" \/ Len(events[c]) + 1 > MaximumEvents
  BY Zenon, <1>3 DEF TypeOK
<1>5. \A b \in Commands \ {c} :
        /\ windowHead'[b] = windowHead[b]
        /\ events'[b] = events[b]
        /\ hasGap'[b] = hasGap[b]
        /\ recorded'[b] = recorded[b]
        /\ b \in windows' <=> b \in windows
  BY <1>3 DEF TypeOK
<1>6. \A b \in Commands : \A f \in recorded[b] : f.seq \in Nat /\ f.seq <= headSequence /\ f.seq >= 1
  BY <1>1 DEF StreamInvariant, SequencesUnique
<1>7. /\ IsNewestPart(t, recorded[c] \cup {e})
      /\ Len(events[c]) + 1 <= MaximumEvents => Items(t) = Items(events[c]) \cup {e}
  <2>1. IsNewestPart(events[c], recorded[c])
    BY DEF StreamInvariant, RetainedIsNewest
  <2>2. \A f \in recorded[c] : f.seq < e.seq
    BY <1>1, <1>6
  <2> QED BY Zenon, <1>1, <1>2, <2>1, <2>2, NewestPartGrows DEF t
<1>8. SequencesUnique'
  <2> SUFFICES ASSUME NEW a \in Commands, NEW b \in Commands,
                      NEW f \in recorded'[a], NEW g \in recorded'[b]
               PROVE  /\ f.seq \in 1..headSequence'
                      /\ f.seq = g.seq => a = b /\ f = g
    BY DEF SequencesUnique
  <2>1. (a = c /\ f = e) \/ f \in recorded[a]
    BY <1>4, <1>5
  <2>2. (b = c /\ g = e) \/ g \in recorded[b]
    BY <1>4, <1>5
  <2>3. f.seq \in 1..headSequence'
    BY <2>1, <1>1, <1>3, <1>6
  <2>4. ASSUME f.seq = g.seq PROVE a = b /\ f = g
    <3>1. CASE f \in recorded[a] /\ g \in recorded[b]
      BY <3>1, <2>4 DEF StreamInvariant, SequencesUnique
    <3>2. CASE ~(f \in recorded[a] /\ g \in recorded[b])
      BY <3>2, <2>1, <2>2, <2>4, <1>1, <1>6
    <3> QED BY <3>1, <3>2
  <2> QED BY <2>3, <2>4
<1>9. RetainedIsNewest'
  <2> SUFFICES ASSUME NEW b \in Commands
      PROVE /\ IsNewestPart(events'[b], recorded'[b])
            /\ b \in windows' =>
                  events'[b] # <<>> /\ events'[b][Len(events'[b])].seq = windowHead'[b]
    BY DEF RetainedIsNewest
  <2>1. CASE b = c
    <3>1. Len(t) > 0 /\ t[Len(t)] = e
      <4>1. events[c] \in Seq(Event) /\ e \in Event /\ MaximumEvents \in Nat \ {0}
        BY <1>1, <1>2, LimitsAssumption
      <4> QED BY ONLY <4>1, AppendBoundedProperties DEF t
    <3>2. t # <<>>
      BY <3>1
    <3> QED BY <2>1, <3>1, <3>2, <1>4, <1>7
  <2>2. CASE b # c
    BY <2>2, <1>5 DEF StreamInvariant, RetainedIsNewest
  <2> QED BY <2>1, <2>2
<1>10. StreamShape'
  <2> SUFFICES ASSUME NEW b \in Commands
      PROVE /\ windowHead'[b] <= headSequence'
            /\ \A f \in recorded'[b] : f.seq <= windowHead'[b]
            /\ \A f, g \in recorded'[b] : f.kind = "Started" => f.seq <= g.seq
            /\ \A i \in DOMAIN checkpoints'[b] : checkpoints'[b][i] <= windowHead'[b]
            /\ b \notin windows' => recorded'[b] = {} /\ events'[b] = <<>> /\ checkpoints'[b] = <<>>
    BY SMTT(20) DEF StreamShape
  <2>0. /\ windowHead[b] \in Nat
        /\ windowHead[b] <= headSequence
        /\ \A f \in recorded[b] : f.seq <= windowHead[b]
        /\ \A f, g \in recorded[b] : f.kind = "Started" => f.seq <= g.seq
        /\ \A i \in DOMAIN checkpoints[b] : checkpoints[b][i] \in Nat /\ checkpoints[b][i] <= windowHead[b]
        /\ b \notin windows => recorded[b] = {} /\ events[b] = <<>> /\ checkpoints[b] = <<>>
    <3>1. windowHead[b] \in Nat /\ checkpoints[b] \in Seq(Nat)
      BY DEF TypeOK
    <3>2. \A i \in DOMAIN checkpoints[b] : checkpoints[b][i] \in Nat
      BY <3>1
    <3> QED BY <3>1, <3>2 DEF StreamInvariant, StreamShape
  <2>1. CASE b = c
    <3>1. \A f \in recorded'[b] : f.seq <= windowHead'[b]
      BY <2>1, <1>1, <1>4, <1>6
    <3>2. ASSUME NEW f \in recorded'[b], NEW g \in recorded'[b], f.kind = "Started"
          PROVE  f.seq <= g.seq
      <4>1. CASE kind = "Started"
        BY <2>0, <2>1, <4>1, <1>1, <1>4
      <4>2. CASE kind # "Started"
        BY <2>0, <2>1, <4>2, <3>2, <1>1, <1>4, <1>6
      <4> QED BY <4>1, <4>2
    <3>3. \A i \in DOMAIN checkpoints'[b] : checkpoints'[b][i] <= windowHead'[b]
      BY SMTT(20), <2>0, <2>1, <1>1, <1>4
    <3> QED BY <2>1, <3>1, <3>2, <3>3, <1>1, <1>3, <1>4
  <2>2. CASE b # c
    BY <2>0, <2>2, <1>1, <1>3, <1>5
  <2> QED BY <2>1, <2>2
<1>11. NoSilentLoss'
  <2> SUFFICES ASSUME NEW b \in windows', ~hasGap'[b],
                      NEW f \in recorded'[b], f.seq > LastCheckpoint(b)'
               PROVE  f \in Items(events'[b])
    BY DEF NoSilentLoss, Missed
  <2>0. b \in Commands /\ LastCheckpoint(b)' = LastCheckpoint(b)
    BY DEF TypeOK, LastCheckpoint
  <2>1. CASE b = c
    <3>1. ~hasGap[c] /\ Len(events[c]) + 1 <= MaximumEvents
      <4>1. Len(events[c]) \in Nat /\ MaximumEvents \in Nat
        BY <1>2, LimitsAssumption
      <4> QED BY <4>1, <2>1, <1>4
    <3>2. CASE f \in recorded[c]
      <4>1. c \in windows
        BY <3>2 DEF StreamInvariant, StreamShape
      <4>2. f \in Items(events[c])
        BY <4>1, <3>1, <3>2, <2>0, <2>1 DEF StreamInvariant, NoSilentLoss, Missed
      <4> QED BY <4>2, <3>1, <2>1, <1>4, <1>7
    <3> QED BY Zenon, <3>1, <3>2, <2>1, <1>4, <1>7
  <2>2. CASE b # c
    BY <2>0, <2>2, <1>5 DEF StreamInvariant, NoSilentLoss, Missed
  <2> QED BY <2>1, <2>2
<1> QED BY <1>8, <1>9, <1>10, <1>11 DEF StreamInvariant

\* Operations that touch neither streams nor checkpoints keep the invariant.
LEMMA UnchangedStream ==
    ASSUME StreamInvariant, UNCHANGED <<streamVars, windows, checkpoints>>
    PROVE  StreamInvariant'
BY DEF StreamInvariant, SequencesUnique, RetainedIsNewest, StreamShape, NoSilentLoss, LastCheckpoint, streamVars

\* AddWorkspaceMirrorCheckpoint may clear HasGap: the checkpoint it adds is at
\* the window's head, so nothing recorded since is missing.
LEMMA AddCheckpointStream ==
    ASSUME TypeOK, StreamInvariant, NEW c \in Commands, AddCheckpoint(c)
    PROVE  StreamInvariant'
<1> DEFINE s == checkpoints[c]
           x == windowHead[c]
           t == AppendBounded(s, x, MaximumCheckpoints)
           d == IF Len(s) + 1 > MaximumCheckpoints THEN 1 ELSE 0
<1>1. /\ UNCHANGED <<headSequence, windowHead, events, recorded, windows>>
      /\ checkpoints' = [checkpoints EXCEPT ![c] = t]
      /\ hasGap' = [hasGap EXCEPT ![c] = FALSE]
      /\ c \in windows
  BY DEF AddCheckpoint, windowVars
<1>2. s \in Seq(Nat) /\ x \in Nat /\ MaximumCheckpoints \in Nat \ {0}
  BY LimitsAssumption DEF TypeOK
<1>3. /\ t \in Seq(Nat)
      /\ Len(t) = Len(s) + 1 - d
      /\ Len(t) > 0
      /\ t[Len(t)] = x
      /\ \A i \in 1..Len(t) : t[i] = IF i + d <= Len(s) THEN s[i + d] ELSE x
  <2> DEFINE S == Nat
  <2>1. s \in Seq(S) /\ x \in S /\ MaximumCheckpoints \in Nat \ {0}
    BY <1>2
  <2> HIDE DEF s, x, S
  <2>2. /\ t \in Seq(S)
        /\ Len(t) = Len(s) + 1 - d
        /\ Len(t) > 0
        /\ t[Len(t)] = x
        /\ \A i \in 1..Len(t) : t[i] = IF i + d <= Len(s) THEN s[i + d] ELSE x
    BY <2>1, AppendBoundedProperties
  <2> QED BY <2>2 DEF S
<1>4. d \in {0, 1}
  OBVIOUS
<1> HIDE DEF t, d
<1>5. checkpoints'[c] = t /\ \A b \in Commands \ {c} : checkpoints'[b] = checkpoints[b]
  BY <1>1 DEF TypeOK
<1>6. SequencesUnique' /\ RetainedIsNewest'
  BY <1>1 DEF StreamInvariant, SequencesUnique, RetainedIsNewest
<1>7. StreamShape'
  <2>1. ASSUME NEW i \in DOMAIN t PROVE t[i] <= windowHead[c]
    <3>0. DOMAIN t = 1..Len(t) /\ Len(t) \in Nat
      BY <1>3
    <3>1. \A j \in DOMAIN checkpoints[c] : checkpoints[c][j] <= windowHead[c]
      BY DEF StreamInvariant, StreamShape
    <3>2. DOMAIN checkpoints[c] = 1..Len(checkpoints[c]) /\ Len(checkpoints[c]) \in Nat
      BY <1>2
    <3>3. CASE i + d <= Len(checkpoints[c])
      <4>1. i + d \in DOMAIN checkpoints[c]
        BY <3>0, <3>2, <3>3, <1>4
      <4> QED BY <4>1, <3>0, <3>1, <3>3, <1>3
    <3>4. CASE ~(i + d <= Len(checkpoints[c]))
      BY <3>0, <3>4, <1>2, <1>3
    <3> QED BY <3>3, <3>4
  <2> QED BY <2>1, <1>1, <1>5 DEF StreamInvariant, StreamShape
<1>8. NoSilentLoss'
  <2> SUFFICES ASSUME NEW b \in windows, ~hasGap'[b],
                      NEW f \in recorded[b], f.seq > LastCheckpoint(b)'
               PROVE  f \in Items(events[b])
    BY <1>1 DEF NoSilentLoss, Missed
  <2>0. b \in Commands
    BY DEF TypeOK
  <2>1. CASE b = c
    <3>1. LastCheckpoint(c)' = windowHead[c]
      <4>1. t # <<>>
        BY <1>3
      <4> QED BY <4>1, <1>3, <1>5 DEF LastCheckpoint
    <3>2. f.seq <= windowHead[c]
      BY <2>1 DEF StreamInvariant, StreamShape
    <3>3. f.seq \in Nat
      BY <2>0 DEF TypeOK, Event
    <3> QED BY <3>1, <3>2, <3>3, <2>1, <1>2
  <2>2. CASE b # c
    <3>1. LastCheckpoint(b)' = LastCheckpoint(b) /\ ~hasGap[b]
      BY <2>0, <2>2, <1>1, <1>5 DEF LastCheckpoint, TypeOK
    <3> QED BY <3>1 DEF StreamInvariant, NoSilentLoss, Missed
  <2> QED BY <2>1, <2>2
<1> QED BY <1>6, <1>7, <1>8 DEF StreamInvariant

\* The stream invariant holds of a session without windows.
LEMMA InitStream == Init => StreamInvariant
<1> SUFFICES ASSUME Init PROVE StreamInvariant
  OBVIOUS
<1>1. \A c \in Commands : events[c] = <<>> /\ recorded[c] = {} /\ checkpoints[c] = <<>> /\ windowHead[c] = 0
  BY Zenon DEF Init
<1>2. headSequence = 0 /\ windows = {}
  BY DEF Init
<1>3. IsNewestPart(<<>>, {})
  BY LimitsAssumption DEF IsNewestPart, Items, Missed
<1>4. SequencesUnique /\ RetainedIsNewest
  BY Zenon, <1>1, <1>2, <1>3 DEF SequencesUnique, RetainedIsNewest
<1>5. StreamShape /\ NoSilentLoss
  BY <1>1, <1>2 DEF StreamShape, NoSilentLoss
<1> QED BY <1>4, <1>5 DEF StreamInvariant

\* Every operation of the recorder keeps the stream invariant.
LEMMA StepStream ==
    ASSUME TypeOK, StreamInvariant, [Next]_vars
    PROVE  StreamInvariant'
<1> USE DEF Value, Kinds
<1>1. ASSUME NEW c \in Commands, NEW s \in Sizes, BeginWindow(c, s)
      PROVE  StreamInvariant'
  BY <1>1, RecordEventStream DEF BeginWindow
<1>2. ASSUME NEW c \in Commands, NEW s \in Sizes, RecordResize(c, s)
      PROVE  StreamInvariant'
  <2>1. CASE RecordEvent(c, "Resize", s)
    BY <1>2, <2>1, RecordEventStream DEF RecordResize
  <2>2. CASE UNCHANGED streamVars
    BY <1>2, <2>2, UnchangedStream DEF RecordResize
  <2> QED BY <1>2, <2>1, <2>2 DEF RecordResize, RecordEventUnlessClosed
<1>3. ASSUME NEW c \in Commands, NEW t \in Titles \cup {Nothing}, RecordTitle(c, t)
      PROVE  StreamInvariant'
  <2>1. CASE RecordEvent(c, "Title", t)
    BY <1>3, <2>1, RecordEventStream DEF RecordTitle
  <2>2. CASE UNCHANGED streamVars
    BY <1>3, <2>2, UnchangedStream DEF RecordTitle
  <2> QED BY <1>3, <2>1, <2>2 DEF RecordTitle, RecordEventUnlessClosed
<1>4. ASSUME NEW c \in Commands, EndWindow(c)
      PROVE  StreamInvariant'
  <2>1. CASE RecordEvent(c, "Exited", Nothing)
    BY <1>4, <2>1, RecordEventStream DEF EndWindow
  <2>2. CASE UNCHANGED streamVars
    BY <1>4, <2>2, UnchangedStream DEF EndWindow
  <2> QED BY <1>4, <2>1, <2>2 DEF EndWindow, RecordEventUnlessClosed
<1>5. ASSUME NEW c \in Commands, NEW n \in 1..MaxChunks, RecordOutput(c, n)
      PROVE  StreamInvariant'
  BY <1>5, RecordEventStream DEF RecordOutput, windowVars
<1>6. ASSUME NEW c \in Commands, RecordInput(c) \/ RecordGap(c)
      PROVE  StreamInvariant'
  BY <1>6, RecordEventStream DEF RecordInput, RecordGap, windowVars
<1>7. ASSUME NEW c \in Commands, AddCheckpoint(c)
      PROVE  StreamInvariant'
  BY <1>7, AddCheckpointStream
<1>8. CASE RecordOutputChunk
  <2>1. chunking.command \in windows /\ chunking.command \in Commands
    BY <1>8 DEF RecordOutputChunk, Unlocked, TypeOK
  <2>2. windows' = windows \cup {chunking.command} /\ checkpoints' = checkpoints
    BY <1>8, <2>1 DEF RecordOutputChunk, windowVars
  <2> QED BY <1>8, <2>1, <2>2, RecordEventStream DEF RecordOutputChunk
<1>9. CASE Close
  BY <1>9, UnchangedStream DEF Close, windowVars
<1>10. ASSUME NEW k \in Clients, NEW id \in LeaseIds, NEW t \in 0..now, NEW d \in Durations,
              GrantControl(k, id, t, d)
       PROVE  StreamInvariant'
  BY <1>10, UnchangedStream DEF GrantControl, windowVars
<1>11. ASSUME NEW k \in Clients \cup {Nothing}, RevokeControl(k)
       PROVE  StreamInvariant'
  BY <1>11, UnchangedStream DEF RevokeControl, windowVars
<1>12. ASSUME NEW k \in Clients, NEW id \in LeaseIds, NEW t \in 0..now, NEW c \in Commands,
              TryCreateRemoteInputEffect(c, k, id, t)
       PROVE  StreamInvariant'
  BY <1>12, RecordEventStream DEF TryCreateRemoteInputEffect, windowVars
<1>13. CASE Tick
  BY <1>13, UnchangedStream DEF Tick, windowVars
<1>14. CASE UNCHANGED vars
  BY <1>14, UnchangedStream DEF vars, windowVars
<1> QED
  BY <1>1, <1>2, <1>3, <1>4, <1>5, <1>6, <1>7, <1>8, <1>9, <1>10, <1>11, <1>12, <1>13, <1>14 DEF Next

\* The stream invariant always holds: numbers are unique in the session, a
\* window keeps the newest part of its log up to its head, and while HasGap is
\* clear everything since the last checkpoint is still there.
THEOREM StreamCorrect == Spec => []StreamInvariant
<1>1. Init => TypeOK /\ StreamInvariant
  BY InitTypeOK, InitStream
<1>2. TypeOK /\ StreamInvariant /\ [Next]_vars => (TypeOK /\ StreamInvariant)'
  BY StepTypeOK, StepStream
<1> QED BY <1>1, <1>2, PTL DEF Spec

\* No two events of a session share a number, whichever windows they belong to
\* (RecordWorkspaceMirrorEvent takes the number from the session's counter).
THEOREM NumbersUnique == Spec => []SequencesUnique
<1>1. StreamInvariant => SequencesUnique
  BY DEF StreamInvariant
<1> QED BY <1>1, StreamCorrect, PTL

\* What the bounded store keeps of a window is the newest part of its log
\* (WorkspaceMirrorEventStore drops from the front only).
THEOREM NewestKept == Spec => []RetainedIsNewest
<1>1. StreamInvariant => RetainedIsNewest
  BY DEF StreamInvariant
<1> QED BY <1>1, StreamCorrect, PTL

\* Nothing since the last checkpoint is lost without HasGap being set
\* (RecordWorkspaceMirrorEvent, AddWorkspaceMirrorCheckpoint).
THEOREM LossIsFlagged == Spec => []NoSilentLoss
<1>1. StreamInvariant => NoSilentLoss
  BY DEF StreamInvariant
<1> QED BY <1>1, StreamCorrect, PTL

\* AddWorkspaceMirrorCheckpoint leaves a checkpoint at the window's head, also
\* when the index is full and drops its oldest entry.
LEMMA CheckpointAtHead ==
    ASSUME TypeOK, NEW c \in Commands, AddCheckpoint(c)
    PROVE  checkpoints'[c] # <<>> /\ LastCheckpoint(c)' = windowHead'[c]
<1> DEFINE t == AppendBounded(checkpoints[c], windowHead[c], MaximumCheckpoints)
<1>1. /\ checkpoints[c] \in Seq(Nat) /\ windowHead[c] \in Nat /\ MaximumCheckpoints \in Nat \ {0}
  BY LimitsAssumption DEF TypeOK
<1>2. Len(t) > 0 /\ t[Len(t)] = windowHead[c] /\ t \in Seq(Nat)
  <2> DEFINE s == checkpoints[c]
             x == windowHead[c]
             S == Nat
  <2>1. s \in Seq(S) /\ x \in S /\ MaximumCheckpoints \in Nat \ {0}
    BY <1>1
  <2> HIDE DEF s, x, S
  <2>2. LET u == AppendBounded(s, x, MaximumCheckpoints)
        IN  Len(u) > 0 /\ u[Len(u)] = x /\ u \in Seq(S)
    BY <2>1, AppendBoundedProperties
  <2> QED BY <2>2 DEF s, x, S
<1>3. checkpoints'[c] = t /\ windowHead' = windowHead
  BY DEF AddCheckpoint, TypeOK
<1> HIDE DEF t
<1>4. t # <<>>
  BY <1>2
<1> QED BY <1>2, <1>3, <1>4 DEF LastCheckpoint

\* HasGap goes down only in a step that adds a checkpoint.
LEMMA StepKeepsGap ==
    ASSUME TypeOK, [Next]_vars, NEW c \in Commands, hasGap[c], ~hasGap'[c]
    PROVE  AddCheckpoint(c)
<1>1. ASSUME NEW b, NEW kind, NEW value, RecordEvent(b, kind, value) PROVE FALSE
  BY <1>1 DEF RecordEvent, TypeOK
<1>2. hasGap' # hasGap
  OBVIOUS
<1>3. ASSUME NEW b \in Commands, NEW s \in Sizes, BeginWindow(b, s) \/ RecordResize(b, s) PROVE FALSE
  BY <1>1, <1>2, <1>3 DEF BeginWindow, RecordResize, RecordEventUnlessClosed, streamVars
<1>4. ASSUME NEW b \in Commands, NEW t \in Titles \cup {Nothing}, RecordTitle(b, t) PROVE FALSE
  BY <1>1, <1>2, <1>4 DEF RecordTitle, RecordEventUnlessClosed, streamVars
<1>5. ASSUME NEW b \in Commands, NEW n \in 1..MaxChunks, RecordOutput(b, n) PROVE FALSE
  BY <1>1, <1>5 DEF RecordOutput
<1>6. ASSUME NEW b \in Commands, RecordInput(b) \/ RecordGap(b) \/ EndWindow(b) PROVE FALSE
  BY <1>1, <1>2, <1>6 DEF RecordInput, RecordGap, EndWindow, RecordEventUnlessClosed, streamVars
<1>7. ASSUME NEW b \in Commands, AddCheckpoint(b) PROVE b = c
  BY <1>7 DEF AddCheckpoint, TypeOK
<1>8. CASE RecordOutputChunk
  BY <1>1, <1>8 DEF RecordOutputChunk
<1>9. ASSUME NEW k \in Clients, NEW id \in LeaseIds, NEW t \in 0..now, NEW b \in Commands,
             TryCreateRemoteInputEffect(b, k, id, t) PROVE FALSE
  BY Zenon, <1>1, <1>9 DEF TryCreateRemoteInputEffect
<1>10. ASSUME UNCHANGED streamVars PROVE FALSE
  BY <1>2, <1>10 DEF streamVars
<1>11. CASE Close \/ Tick \/ UNCHANGED vars
  BY <1>2, <1>11 DEF Close, Tick, vars, streamVars
<1>12. ASSUME NEW k, NEW id, NEW t, NEW d, GrantControl(k, id, t, d) \/ RevokeControl(k) PROVE FALSE
  BY <1>10, <1>12 DEF GrantControl, RevokeControl
<1> QED
  BY Zenon, <1>3, <1>4, <1>5, <1>6, <1>7, <1>8, <1>9, <1>11, <1>12 DEF Next

\* Only a checkpoint at the window's head clears HasGap
\* (AddWorkspaceMirrorCheckpoint).
THEOREM GapStaysUntilCheckpoint == Spec => GapClearedOnlyByCheckpoint
<1>1. TypeOK /\ [Next]_vars =>
          [\A c \in Commands : hasGap[c] /\ ~hasGap'[c] =>
              checkpoints'[c] # <<>> /\ LastCheckpoint(c)' = windowHead'[c]]_vars
  BY StepKeepsGap, CheckpointAtHead
<1> QED BY <1>1, TypeCorrect, PTL DEF Spec, GapClearedOnlyByCheckpoint

\* Nothing is recorded, granted or checkpointed in a closed session
\* (WorkspaceMirrorNodeRecorder::Close).
THEOREM ClosedStaysClosed == Spec => ClosedIsFinal
<1>1. ASSUME [Next]_vars, closed
      PROVE  closed' /\ UNCHANGED <<streamVars, checkpoints, grants, remoteInputs>>
  <2>1. ASSUME NEW c \in Commands, NEW s \in Sizes, BeginWindow(c, s) \/ RecordResize(c, s)
        PROVE  closed' /\ UNCHANGED <<streamVars, checkpoints, grants, remoteInputs>>
    BY <1>1, <2>1 DEF BeginWindow, RecordResize, RecordEventUnlessClosed, RecordEvent, controlVars
  <2>2. ASSUME NEW c \in Commands, NEW t \in Titles \cup {Nothing}, RecordTitle(c, t)
        PROVE  closed' /\ UNCHANGED <<streamVars, checkpoints, grants, remoteInputs>>
    BY <1>1, <2>2 DEF RecordTitle, RecordEventUnlessClosed, RecordEvent, controlVars
  <2>3. ASSUME NEW c \in Commands, EndWindow(c)
        PROVE  closed' /\ UNCHANGED <<streamVars, checkpoints, grants, remoteInputs>>
    BY <1>1, <2>3 DEF EndWindow, RecordEventUnlessClosed, RecordEvent, controlVars
  <2>4. ASSUME NEW c \in Commands, RecordInput(c) \/ RecordGap(c) \/ AddCheckpoint(c) PROVE FALSE
    BY Zenon, <1>1, <2>4 DEF RecordInput, RecordGap, AddCheckpoint, RecordEvent
  <2>5. ASSUME NEW c \in Commands, NEW n \in 1..MaxChunks, RecordOutput(c, n) PROVE FALSE
    BY <1>1, <2>5 DEF RecordOutput, RecordEvent
  <2>6. ASSUME RecordOutputChunk PROVE FALSE
    BY <1>1, <2>6 DEF RecordOutputChunk, RecordEvent
  <2>7. CASE Close \/ Tick \/ UNCHANGED vars
    <3>1. CASE Close
      BY <1>1, <3>1 DEF Close, controlVars
    <3>2. CASE Tick
      BY <1>1, <3>2 DEF Tick, streamVars
    <3>3. CASE UNCHANGED vars
      BY <1>1, <3>3 DEF vars, controlVars, streamVars
    <3> QED BY <2>7, <3>1, <3>2, <3>3
  <2>8. ASSUME NEW k, NEW id, NEW t,
               \/ \E d \in Durations : GrantControl(k, id, t, d)
               \/ \E c \in Commands : TryCreateRemoteInputEffect(c, k, id, t)
        PROVE  FALSE
    BY <1>1, <2>8 DEF GrantControl, TryCreateRemoteInputEffect, HasControl
  <2>9. ASSUME NEW k, RevokeControl(k)
        PROVE  closed' /\ UNCHANGED <<streamVars, checkpoints, grants, remoteInputs>>
    BY <1>1, <2>9 DEF RevokeControl
  <2> QED BY <1>1, <2>1, <2>2, <2>3, <2>4, <2>5, <2>6, <2>7, <2>8, <2>9 DEF Next
<1>2. [Next]_vars => [closed => closed' /\ UNCHANGED <<streamVars, checkpoints, grants, remoteInputs>>]_vars
  BY <1>1
<1> QED BY <1>2, PTL DEF Spec, ClosedIsFinal

\* What makes AttributesFollowStream inductive: a command whose window has not
\* begun has neither a title nor an end.
AttributesInvariant ==
    /\ AttributesFollowStream
    /\ \A c \in Commands \ windows : title[c] = Nothing /\ c \notin exited

\* RecordWorkspaceMirrorEvent makes its value the latest of its kinds and leaves
\* the latest values of other kinds and windows alone.
LEMMA RecordEventLatest ==
    ASSUME TypeOK, StreamInvariant, NEW c \in Commands, NEW kind, NEW value, RecordEvent(c, kind, value)
    PROVE  /\ \A kinds : kind \in kinds => LatestValue(c, kinds, value)'
           /\ \A kinds, v : kind \notin kinds /\ LatestValue(c, kinds, v) => LatestValue(c, kinds, v)'
           /\ \A b \in Commands \ {c} : recorded'[b] = recorded[b]
<1> DEFINE e == [seq |-> headSequence + 1, kind |-> kind, value |-> value]
<1>1. /\ recorded'[c] = recorded[c] \cup {e}
      /\ \A b \in Commands \ {c} : recorded'[b] = recorded[b]
  BY DEF RecordEvent, TypeOK
<1>2. headSequence \in Nat /\ \A f \in recorded[c] : f.seq \in Nat /\ f.seq <= headSequence
  BY DEF StreamInvariant, SequencesUnique, TypeOK
<1>3. e.seq = headSequence + 1 /\ e.kind = kind /\ e.value = value
  OBVIOUS
<1> HIDE DEF e
<1>4. ASSUME NEW kinds, kind \in kinds
      PROVE  LatestValue(c, kinds, value)'
  <2>1. Missed(recorded'[c], e.seq) = {}
    BY <1>1, <1>2, <1>3 DEF Missed
  <2>2. e \in recorded'[c] /\ e.kind \in kinds /\ e.value = value
    BY <1>1, <1>3, <1>4
  <2> QED BY Zenon, <2>1, <2>2 DEF LatestValue
<1>5. ASSUME NEW kinds, NEW v, kind \notin kinds, LatestValue(c, kinds, v)
      PROVE  LatestValue(c, kinds, v)'
  <2>1. PICK g \in recorded[c] : /\ g.kind \in kinds /\ g.value = v
                                 /\ \A f \in Missed(recorded[c], g.seq) : f.kind \notin kinds
    BY <1>5 DEF LatestValue
  <2>2. \A f \in Missed(recorded'[c], g.seq) : f.kind \notin kinds
    BY <1>1, <1>3, <1>5, <2>1 DEF Missed
  <2> QED BY <1>1, <2>1, <2>2 DEF LatestValue
<1> QED BY Zenon, <1>1, <1>4, <1>5

\* A window's stream holds an Exited event once one is recorded for it.
LEMMA RecordEventExited ==
    ASSUME TypeOK, NEW c \in Commands, NEW kind, NEW value, RecordEvent(c, kind, value)
    PROVE  (\E e \in recorded'[c] : e.kind = "Exited")
              <=> kind = "Exited" \/ \E e \in recorded[c] : e.kind = "Exited"
<1> DEFINE new == [seq |-> headSequence + 1, kind |-> kind, value |-> value]
<1>1. recorded'[c] = recorded[c] \cup {new} /\ new.kind = kind
  BY DEF RecordEvent, TypeOK
<1> HIDE DEF new
<1> QED BY Zenon, <1>1

\* An operation that records an event and sets the attribute the event is about
\* keeps the two together.
LEMMA RecordEventAttributes ==
    ASSUME TypeOK, StreamInvariant, AttributesInvariant,
           NEW c \in Commands, NEW kind, NEW value, RecordEvent(c, kind, value),
           windows' = windows \cup {c}, c \in windows <=> kind # "Started",
           size' = IF kind \in {"Started", "Resize"} THEN [size EXCEPT ![c] = value] ELSE size,
           title' = IF kind = "Title" THEN [title EXCEPT ![c] = value] ELSE title,
           exited' = IF kind = "Exited" THEN exited \cup {c} ELSE exited
    PROVE  AttributesInvariant'
<1>1. ~closed /\ windows \subseteq Commands
  BY DEF RecordEvent, TypeOK
<1>2. /\ \A b \in Commands \ {c} : size'[b] = size[b] /\ title'[b] = title[b] /\ (b \in exited' <=> b \in exited)
      /\ size'[c] = IF kind \in {"Started", "Resize"} THEN value ELSE size[c]
      /\ title'[c] = IF kind = "Title" THEN value ELSE title[c]
      /\ c \in exited' <=> kind = "Exited" \/ c \in exited
  BY DEF TypeOK
<1>3. \A b \in Commands \ windows' : title'[b] = Nothing /\ b \notin exited'
  BY <1>1, <1>2 DEF AttributesInvariant
<1>4. ASSUME NEW b \in windows', b # c
      PROVE  /\ LatestValue(b, {"Started", "Resize"}, size[b])'
             /\ title'[b] # Nothing => LatestValue(b, {"Title"}, title[b])'
             /\ b \in exited' <=> \E e \in recorded'[b] : e.kind = "Exited"
  <2>1. b \in windows /\ b \in Commands \ {c} /\ recorded'[b] = recorded[b]
    BY <1>1, <1>4, RecordEventLatest
  <2>2. /\ LatestValue(b, {"Started", "Resize"}, size[b])
        /\ title[b] # Nothing => LatestValue(b, {"Title"}, title[b])
        /\ b \in exited <=> \E e \in recorded[b] : e.kind = "Exited"
    BY <1>1, <2>1 DEF AttributesInvariant, AttributesFollowStream
  <2>3. size'[b] = size[b] /\ title'[b] = title[b] /\ (b \in exited' <=> b \in exited)
    BY <1>2, <2>1
  <2>4. LatestValue(b, {"Started", "Resize"}, size[b])'
    BY Zenon, <2>1, <2>2, <2>3 DEF LatestValue
  <2>5. title'[b] # Nothing => LatestValue(b, {"Title"}, title[b])'
    BY Zenon, <2>1, <2>2, <2>3 DEF LatestValue
  <2> QED BY Zenon, <2>1, <2>2, <2>3, <2>4, <2>5
<1>5. LatestValue(c, {"Started", "Resize"}, size[c])'
  <2>1. CASE kind \in {"Started", "Resize"}
    <3>1. LatestValue(c, {"Started", "Resize"}, value)'
      BY <2>1, RecordEventLatest
    <3> QED BY ZenonT(30), <1>2, <2>1, <3>1 DEF LatestValue
  <2>2. CASE kind \notin {"Started", "Resize"}
    <3>1. LatestValue(c, {"Started", "Resize"}, size[c])
      BY <1>1, <2>2 DEF AttributesInvariant, AttributesFollowStream
    <3>2. ASSUME NEW v, LatestValue(c, {"Started", "Resize"}, v)
          PROVE  LatestValue(c, {"Started", "Resize"}, v)'
      BY Zenon, <2>2, <3>2, RecordEventLatest
    <3> QED BY Zenon, <1>2, <2>2, <3>1, <3>2 DEF LatestValue
  <2> QED BY <2>1, <2>2
<1>6. title'[c] # Nothing => LatestValue(c, {"Title"}, title[c])'
  <2>1. CASE kind = "Title"
    <3>1. LatestValue(c, {"Title"}, value)'
      BY <2>1, RecordEventLatest
    <3> QED BY Zenon, <1>2, <2>1, <3>1 DEF LatestValue
  <2>2. CASE kind # "Title" /\ title[c] # Nothing
    <3>1. LatestValue(c, {"Title"}, title[c])
      BY <1>1, <2>2 DEF AttributesInvariant, AttributesFollowStream
    <3>2. ASSUME NEW v, LatestValue(c, {"Title"}, v)
          PROVE  LatestValue(c, {"Title"}, v)'
      BY Zenon, <2>2, <3>2, RecordEventLatest
    <3> QED BY Zenon, <1>2, <2>2, <3>1, <3>2 DEF LatestValue
  <2> QED BY <1>2, <2>1, <2>2
<1>7. c \in exited' <=> \E e \in recorded'[c] : e.kind = "Exited"
  <2>1. c \in exited <=> \E e \in recorded[c] : e.kind = "Exited"
    BY Zenon, <1>1 DEF AttributesInvariant, AttributesFollowStream, StreamInvariant, StreamShape
  <2>2. (\E e \in recorded'[c] : e.kind = "Exited")
          <=> kind = "Exited" \/ \E e \in recorded[c] : e.kind = "Exited"
    BY RecordEventExited
  <2> QED BY Zenon, <1>2, <2>1, <2>2
<1> QED BY Zenon, <1>3, <1>4, <1>5, <1>6, <1>7 DEF AttributesInvariant, AttributesFollowStream

\* Every operation of the recorder keeps the attributes and the stream together,
\* until the session is closed.
LEMMA StepAttributes ==
    ASSUME TypeOK, StreamInvariant, AttributesInvariant, [Next]_vars
    PROVE  AttributesInvariant'
<1>1. ASSUME UNCHANGED <<windowVars, recorded>>, ~closed' => ~closed
      PROVE  AttributesInvariant'
  BY Zenon, <1>1 DEF AttributesInvariant, AttributesFollowStream, LatestValue, windowVars
<1>2. ASSUME NEW c \in windows, closed', windows' = windows,
             title' = title \/ \E t : title' = [title EXCEPT ![c] = t],
             exited' \subseteq exited \cup {c}
      PROVE  AttributesInvariant'
  BY Zenon, <1>2 DEF AttributesInvariant, AttributesFollowStream, TypeOK
<1>3. ASSUME NEW c \in windows, NEW kind \in {"Input", "Output", "Gap"}, NEW value,
             RecordEvent(c, kind, value), UNCHANGED windowVars
      PROVE  AttributesInvariant'
  <2>1. c \in Commands /\ windows' = windows \cup {c} /\ size' = size /\ title' = title /\ exited' = exited
    BY <1>3 DEF TypeOK, windowVars
  <2> QED BY <1>3, <2>1, RecordEventAttributes
<1>4. ASSUME NEW c \in Commands, NEW s \in Sizes, BeginWindow(c, s)
      PROVE  AttributesInvariant'
  <2>1. /\ RecordEvent(c, "Started", s) /\ c \notin windows /\ windows' = windows \cup {c}
        /\ size' = [size EXCEPT ![c] = s] /\ title' = title /\ exited' = exited
    BY <1>4 DEF BeginWindow
  <2> QED BY Zenon, <2>1, RecordEventAttributes
<1>5. ASSUME NEW c \in Commands, NEW s \in Sizes, RecordResize(c, s)
      PROVE  AttributesInvariant'
  <2>1. /\ c \in windows /\ windows' = windows /\ closed' = closed
        /\ size' = [size EXCEPT ![c] = s] /\ title' = title /\ exited' = exited
        /\ RecordEvent(c, "Resize", s) \/ closed
    BY <1>5 DEF RecordResize, RecordEventUnlessClosed
  <2>2. CASE RecordEvent(c, "Resize", s)
    BY Zenon, <2>1, <2>2, RecordEventAttributes
  <2> QED BY <1>2, <2>1, <2>2
<1>6. ASSUME NEW c \in Commands, NEW t \in Titles \cup {Nothing}, RecordTitle(c, t)
      PROVE  AttributesInvariant'
  <2>1. /\ c \in windows /\ windows' = windows /\ closed' = closed
        /\ size' = size /\ title' = [title EXCEPT ![c] = t] /\ exited' = exited
        /\ RecordEvent(c, "Title", t) \/ closed
    BY <1>6 DEF RecordTitle, RecordEventUnlessClosed
  <2>2. CASE RecordEvent(c, "Title", t)
    BY Zenon, <2>1, <2>2, RecordEventAttributes
  <2> QED BY Zenon, <1>2, <2>1, <2>2
<1>7. ASSUME NEW c \in Commands, EndWindow(c)
      PROVE  AttributesInvariant'
  <2>1. /\ c \in windows /\ windows' = windows /\ closed' = closed
        /\ size' = size /\ title' = title /\ exited' = exited \cup {c}
        /\ RecordEvent(c, "Exited", Nothing) \/ closed
    BY <1>7 DEF EndWindow, RecordEventUnlessClosed
  <2>2. CASE RecordEvent(c, "Exited", Nothing)
    BY <2>1, <2>2, RecordEventAttributes
  <2> QED BY <1>2, <2>1, <2>2
<1>8. ASSUME NEW c \in Commands, NEW n \in 1..MaxChunks, RecordOutput(c, n)
      PROVE  AttributesInvariant'
  BY <1>3, <1>8 DEF RecordOutput
<1>9. ASSUME NEW c \in Commands, RecordInput(c) \/ RecordGap(c)
      PROVE  AttributesInvariant'
  BY <1>3, <1>9 DEF RecordInput, RecordGap
<1>10. CASE RecordOutputChunk
  <2>1. chunking.command \in windows
    BY <1>10 DEF RecordOutputChunk, Unlocked, TypeOK
  <2> QED BY <1>3, <1>10, <2>1 DEF RecordOutputChunk
<1>11. ASSUME NEW k, NEW id, NEW t, NEW c \in Commands, TryCreateRemoteInputEffect(c, k, id, t)
       PROVE  AttributesInvariant'
  BY <1>3, <1>11 DEF TryCreateRemoteInputEffect
<1>12. ASSUME NEW c \in Commands, AddCheckpoint(c)
       PROVE  AttributesInvariant'
  BY <1>1, <1>12 DEF AddCheckpoint
<1>13. ASSUME NEW k, NEW id, NEW t, NEW d, GrantControl(k, id, t, d) \/ RevokeControl(k)
       PROVE  AttributesInvariant'
  BY <1>1, <1>13 DEF GrantControl, RevokeControl, streamVars
<1>14. CASE Close \/ Tick \/ UNCHANGED vars
  BY <1>1, <1>14 DEF Close, Tick, vars, streamVars
<1> QED
  BY <1>4, <1>5, <1>6, <1>7, <1>8, <1>9, <1>10, <1>11, <1>12, <1>13, <1>14 DEF Next

\* Until the session is closed the size, the title and the end of a window are
\* what a client reads off the stream (RecordResize, RecordTitle, EndWindow).
THEOREM AttributesCorrect == Spec => []AttributesFollowStream
<1>1. Init => AttributesInvariant
  BY DEF Init, AttributesInvariant, AttributesFollowStream
<1>2. TypeOK /\ StreamInvariant /\ AttributesInvariant /\ [Next]_vars => AttributesInvariant'
  BY StepAttributes
<1>3. AttributesInvariant => AttributesFollowStream
  BY DEF AttributesInvariant
<1> QED BY <1>1, <1>2, <1>3, TypeCorrect, StreamCorrect, PTL DEF Spec
==============================================================================
