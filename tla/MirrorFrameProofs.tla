-------------------------- MODULE MirrorFrameProofs --------------------------
(***************************************************************************)
(* What the recovery planner and the fan-out of new output put into a batch of *)
(* frames, from the invariant of the streams and from what the filters and the *)
(* searches over a stream return.                                          *)
(***************************************************************************)
EXTENDS MirrorBatches, FilteringProofs

LEMMA SequenceOfEvents ==
    ASSUME NEW stream \in Seq(Event)
    PROVE  /\ Len(stream) \in Nat
           /\ DOMAIN stream = 1..Len(stream)
           /\ \A i \in 1..Len(stream) : stream[i] \in Event /\ stream[i].seq \in Nat
<1>1. \A e \in Event : e.seq \in Nat
  BY DEF Event
<1> QED BY <1>1

\* WorkspaceMirrorEventsAfter on an ordered stream returns the events past n,
\* all of them and no other, and ends where the stream ends.
LEMMA EventsAfterExact ==
    ASSUME NEW stream \in Seq(Event), Ordered(stream), NEW n \in Int
    PROVE  /\ EventsAfter(stream, n) \in Seq(Event)
           /\ Items(EventsAfter(stream, n)) = {e \in Items(stream) : e.seq > n}
           /\ (\E e \in Items(stream) : e.seq > n) =>
                 /\ EventsAfter(stream, n) # <<>>
                 /\ EventsAfter(stream, n)[Len(EventsAfter(stream, n))] = stream[Len(stream)]
           /\ ~(\E e \in Items(stream) : e.seq > n) => EventsAfter(stream, n) = <<>>
<1>1. CASE ~\E i \in DOMAIN stream : stream[i].seq > n
  BY <1>1 DEF EventsAfter, Items
<1>2. CASE \E i \in DOMAIN stream : stream[i].seq > n
  <2> DEFINE T == {i \in DOMAIN stream : stream[i].seq > n}
             first == CHOOSE i \in DOMAIN stream : IsFirstAfter(stream, n, i)
  <2>0. /\ Len(stream) \in Nat
        /\ DOMAIN stream = 1..Len(stream)
        /\ \A i \in 1..Len(stream) : stream[i] \in Event /\ stream[i].seq \in Nat
    BY SequenceOfEvents
  <2>1. PICK m \in T : \A i \in T : m <= i
    <3>1. T \in SUBSET Nat /\ T # {}
      BY <1>2, <2>0
    <3> HIDE DEF T
    <3> QED BY <3>1, LeastNatural
  <2>2. m \in DOMAIN stream /\ IsFirstAfter(stream, n, m)
    <3>1. ASSUME NEW j \in 1..(m - 1) PROVE stream[j].seq <= n
      <4>1. j \in DOMAIN stream /\ j < m /\ j \in Int /\ m \in Int
        BY <2>0
      <4>2. j \notin T
        BY <4>1, <2>1
      <4>3. ~(stream[j].seq > n)
        BY <4>1, <4>2
      <4> QED BY <4>1, <4>3, <2>0
    <3> QED BY <3>1, <2>1 DEF IsFirstAfter
  <2>3. first \in DOMAIN stream /\ IsFirstAfter(stream, n, first)
    <3> HIDE DEF T
    <3> QED BY <2>2
  <2>4. EventsAfter(stream, n) = SubSeq(stream, first, Len(stream))
    BY Zenon, <1>2 DEF EventsAfter
  <2> HIDE DEF first, T
  <2>5. /\ EventsAfter(stream, n) \in Seq(Event)
        /\ Len(EventsAfter(stream, n)) = Len(stream) - first + 1
        /\ \A i \in 1..(Len(stream) - first + 1) :
              EventsAfter(stream, n)[i] = stream[first + i - 1]
    BY <2>0, <2>3, <2>4
  <2>6. \A i \in DOMAIN stream : stream[i].seq > n <=> i >= first
    BY <2>0, <2>3 DEF IsFirstAfter, Ordered
  <2>7. Items(EventsAfter(stream, n)) = {e \in Items(stream) : e.seq > n}
    <3>1. ASSUME NEW e \in Items(EventsAfter(stream, n))
          PROVE  e \in Items(stream) /\ e.seq > n
      <4>1. PICK i \in 1..(Len(stream) - first + 1) : e = stream[first + i - 1]
        BY <2>5 DEF Items
      <4>2. first + i - 1 \in DOMAIN stream /\ first + i - 1 >= first
        BY <2>0, <2>3
      <4> QED BY <4>1, <4>2, <2>6 DEF Items
    <3>2. ASSUME NEW e \in Items(stream), e.seq > n
          PROVE  e \in Items(EventsAfter(stream, n))
      <4>1. PICK i \in DOMAIN stream : e = stream[i]
        BY DEF Items
      <4>2. i >= first /\ i - first + 1 \in 1..(Len(stream) - first + 1)
        BY <4>1, <3>2, <2>0, <2>3, <2>6
      <4>3. EventsAfter(stream, n)[i - first + 1] = stream[first + (i - first + 1) - 1]
        BY <4>2, <2>5
      <4>4. first + (i - first + 1) - 1 = i
        BY <2>0, <2>3
      <4> QED BY <4>1, <4>2, <4>3, <4>4, <2>5 DEF Items
    <3> QED BY <3>1, <3>2
  <2>8. /\ EventsAfter(stream, n) # <<>>
        /\ EventsAfter(stream, n)[Len(EventsAfter(stream, n))] = stream[Len(stream)]
    BY <2>0, <2>3, <2>5
  <2>9. \E e \in Items(stream) : e.seq > n
    BY <1>2 DEF Items
  <2> QED BY <2>5, <2>7, <2>8, <2>9
<1> QED BY <1>1, <1>2

\* What the invariant says of one window, in the form the planner's lemmas use.
LEMMA WindowFacts ==
    ASSUME TypeOK, StreamInvariant, NEW c \in windows
    PROVE  /\ c \in Commands
           /\ events[c] \in Seq(Event) /\ Ordered(events[c])
           /\ events[c] # <<>> /\ Len(events[c]) \in Nat \ {0}
           /\ \A e \in recorded[c] : e.seq \in Nat
           /\ Items(events[c]) \subseteq recorded[c]
           /\ \A e \in Items(events[c]) : Missed(recorded[c], e.seq) \subseteq Items(events[c])
           /\ events[c][1] \in Items(events[c])
           /\ events[c][Len(events[c])] \in Items(events[c])
           /\ events[c][Len(events[c])].seq = windowHead[c]
           /\ windowHead[c] \in Nat
           /\ LastCheckpoint(c) \in Nat /\ LastCheckpoint(c) <= windowHead[c]
<1>1. c \in Commands /\ events[c] \in Seq(Event) /\ windowHead[c] \in Nat /\ checkpoints[c] \in Seq(Nat)
  BY DEF TypeOK
<1>2. \A e \in recorded[c] : e.seq \in Nat
  BY <1>1 DEF TypeOK, Event
<1>3. /\ IsNewestPart(events[c], recorded[c])
      /\ events[c] # <<>>
      /\ events[c][Len(events[c])].seq = windowHead[c]
  BY <1>1 DEF StreamInvariant, RetainedIsNewest
<1>4. Len(events[c]) \in Nat \ {0} /\ DOMAIN events[c] = 1..Len(events[c])
  BY <1>1, <1>3
<1>5. events[c][1] \in Items(events[c]) /\ events[c][Len(events[c])] \in Items(events[c])
  BY <1>4 DEF Items
<1>6. LastCheckpoint(c) \in Nat /\ LastCheckpoint(c) <= windowHead[c]
  <2>1. CASE checkpoints[c] = <<>>
    BY <2>1, <1>1 DEF LastCheckpoint
  <2>2. CASE checkpoints[c] # <<>>
    <3>1. Len(checkpoints[c]) \in DOMAIN checkpoints[c] /\ checkpoints[c][Len(checkpoints[c])] \in Nat
      BY <2>2, <1>1
    <3> QED BY <2>2, <3>1, <1>1 DEF LastCheckpoint, StreamInvariant, StreamShape
  <2> QED BY <2>1, <2>2
<1> QED BY <1>1, <1>2, <1>3, <1>4, <1>5, <1>6 DEF IsNewestPart, Ordered

\* When the stream still holds everything past n, EventsAfter returns exactly
\* what a client at n missed.
LEMMA ReplayableAfter ==
    ASSUME TypeOK, StreamInvariant, NEW c \in windows, NEW n \in Int,
           Missed(recorded[c], n) \subseteq Items(events[c])
    PROVE  Items(EventsAfter(events[c], n)) = Missed(recorded[c], n)
<1>1. Items(EventsAfter(events[c], n)) = {e \in Items(events[c]) : e.seq > n}
  BY WindowFacts, EventsAfterExact
<1> QED BY <1>1, WindowFacts DEF Missed

\* The events past n end at the window's head, or there are none and n is it.
LEMMA ReachesHead ==
    ASSUME TypeOK, StreamInvariant, NEW c \in windows, NEW n \in Int, n <= windowHead[c]
    PROVE  windowHead[c] = IF EventsAfter(events[c], n) = <<>> THEN n
                           ELSE EventsAfter(events[c], n)[Len(EventsAfter(events[c], n))].seq
<1>1. CASE \E e \in Items(events[c]) : e.seq > n
  BY <1>1, WindowFacts, EventsAfterExact
<1>2. CASE ~\E e \in Items(events[c]) : e.seq > n
  <2>1. EventsAfter(events[c], n) = <<>>
    BY <1>2, WindowFacts, EventsAfterExact
  <2>2. ~(windowHead[c] > n)
    BY <1>2, WindowFacts
  <2> QED BY <2>1, <2>2, WindowFacts
<1> QED BY <1>1, <1>2

\* The front check of the planner is enough: a resume point at or past the oldest
\* kept event minus one misses nothing that was dropped.
LEMMA ResumeIsExact == TypeOK /\ StreamInvariant => ResumeExact
<1> SUFFICES ASSUME TypeOK, StreamInvariant, NEW c \in windows, NEW n \in 0..headSequence,
                    PlanRecovery(c, n).kind = "Resume"
             PROVE  Items(PlanRecovery(c, n).events) = Missed(recorded[c], n)
  BY DEF ResumeExact
<1>1. CanResume(c, n)
  BY DEF PlanRecovery, Plan
<1>2. PlanRecovery(c, n).events = EventsAfter(events[c], n)
  BY <1>1 DEF PlanRecovery, Plan
<1>3. n \in Int
  BY DEF TypeOK
<1>4. n + 1 >= events[c][1].seq
  BY <1>1, WindowFacts DEF CanResume
<1>5. ASSUME NEW e \in Missed(recorded[c], n) PROVE e \in Items(events[c])
  <2> DEFINE f == events[c][1]
  <2>1. e \in recorded[c] /\ e.seq \in Nat /\ e.seq > n
    BY <1>5, WindowFacts DEF Missed
  <2>2. f \in Items(events[c]) /\ f \in recorded[c] /\ f.seq \in Nat
    BY WindowFacts
  <2>3. CASE e.seq = f.seq
    BY <2>1, <2>2, <2>3, WindowFacts DEF StreamInvariant, SequencesUnique
  <2>4. CASE e.seq > f.seq
    <3>1. e \in Missed(recorded[c], f.seq)
      BY <2>1, <2>4 DEF Missed
    <3> QED BY Zenon, <3>1, <2>2, WindowFacts
  <2> QED BY <1>3, <1>4, <2>1, <2>2, <2>3, <2>4
<1> QED BY <1>2, <1>3, <1>5, ReplayableAfter

\* A stream that still begins with Started is the window's whole history.
LEMMA ReplayIsExact == TypeOK /\ StreamInvariant => ReplayExact
<1> SUFFICES ASSUME TypeOK, StreamInvariant, NEW c \in windows, NEW n \in NoResume..headSequence,
                    PlanRecovery(c, n).kind = "ReplayFromStart"
             PROVE  Items(PlanRecovery(c, n).events) = recorded[c]
  BY DEF ReplayExact
<1>1. /\ ~hasGap[c] /\ checkpoints[c] = <<>>
      /\ PlanRecovery(c, n).events = events[c]
  BY DEF PlanRecovery, Plan, CanReplay
<1>2. LastCheckpoint(c) = 0
  BY <1>1 DEF LastCheckpoint
<1>3. \A e \in recorded[c] : e.seq > 0
  BY SMTT(20), WindowFacts DEF StreamInvariant, SequencesUnique, TypeOK
<1>4. Missed(recorded[c], 0) = recorded[c]
  BY SMTT(20), <1>3 DEF Missed
<1>5. recorded[c] \subseteq Items(events[c])
  BY <1>1, <1>2, <1>4 DEF StreamInvariant, NoSilentLoss
<1> QED BY Zenon, <1>1, <1>5, WindowFacts

\* While HasGap is clear the events after the last checkpoint are all there.
LEMMA CheckpointIsExact == TypeOK /\ StreamInvariant => CheckpointExactWithoutGap
<1> SUFFICES ASSUME TypeOK, StreamInvariant, NEW c \in windows, NEW n \in NoResume..headSequence,
                    PlanRecovery(c, n).kind = "Checkpoint", ~hasGap[c]
             PROVE  Items(PlanRecovery(c, n).events) = Missed(recorded[c], PlanRecovery(c, n).base)
  BY DEF CheckpointExactWithoutGap
<1>1. /\ PlanRecovery(c, n).base = LastCheckpoint(c)
      /\ PlanRecovery(c, n).events = EventsAfter(events[c], LastCheckpoint(c))
  BY DEF PlanRecovery, Plan
<1>2. Missed(recorded[c], LastCheckpoint(c)) \subseteq Items(events[c])
  BY DEF StreamInvariant, NoSilentLoss
<1> QED BY <1>1, <1>2, WindowFacts, ReplayableAfter

\* Every plan but Unavailable ends at the head it announces.
LEMMA PlansReachHead == TypeOK /\ StreamInvariant => PlanReachesHead
<1> SUFFICES ASSUME TypeOK, StreamInvariant, NEW c \in windows, NEW n \in NoResume..headSequence,
                    PlanRecovery(c, n).kind # "Unavailable"
             PROVE  PlanRecovery(c, n).head =
                      IF PlanRecovery(c, n).events = <<>> THEN PlanRecovery(c, n).base
                      ELSE PlanRecovery(c, n).events[Len(PlanRecovery(c, n).events)].seq
  BY DEF PlanReachesHead
<1>1. n \in Int
  BY DEF TypeOK, NoResume
<1>2. CASE PlanRecovery(c, n) = Plan("Resume", n, windowHead[c], EventsAfter(events[c], n))
           /\ n <= windowHead[c]
  BY <1>1, <1>2, ReachesHead DEF Plan
<1>3. CASE PlanRecovery(c, n) = Plan("Checkpoint", LastCheckpoint(c), windowHead[c],
                                     EventsAfter(events[c], LastCheckpoint(c)))
  BY <1>3, WindowFacts, ReachesHead DEF Plan
<1>4. CASE PlanRecovery(c, n) = Plan("ReplayFromStart", 0, windowHead[c], events[c])
  BY <1>4, WindowFacts DEF Plan
<1> QED BY Zenon, <1>2, <1>3, <1>4 DEF PlanRecovery, Plan, CanResume

LEMMA AddressedFields ==
    ASSUME NEW r \in Routes, NEW kind \in {"Answer", "Checkpoint", "Output", "Resize", "Closed"},
           NEW c \in Commands \cup {Nothing}, NEW n \in Nat, NEW live \in BOOLEAN
    PROVE  LET a == To(r, Message(kind, c, n, live))
           IN /\ a \in Addressed /\ a.route = r
              /\ a.frame.kind = kind /\ a.frame.command = c /\ a.frame.seq = n /\ a.frame.live = live
BY DEF To, Message, Addressed, Frame

\* One element after another: what a concatenation holds.
LEMMA ConcatMembers ==
    ASSUME NEW S, NEW s \in Seq(S), NEW t \in Seq(S)
    PROVE  /\ s \o t \in Seq(S)
           /\ Len(s \o t) = Len(s) + Len(t)
           /\ \A i \in DOMAIN s : i \in DOMAIN (s \o t) /\ (s \o t)[i] = s[i]
           /\ \A i \in DOMAIN t : Len(s) + i \in DOMAIN (s \o t) /\ (s \o t)[Len(s) + i] = t[i]
           /\ \A i \in DOMAIN (s \o t) : i \in DOMAIN s \/ (i - Len(s) \in DOMAIN t /\ i = Len(s) + (i - Len(s)))
OBVIOUS

\* The copies of one event, as FanOut makes them.
CopiesOf(c, e, targets) == [i \in 1..Len(targets) |-> To(targets[i], Message("Output", c, e.seq, TRUE))]

\* fan[n] holds the copies of the first n events.
IsFan(fan, c, stream, targets) ==
    /\ fan \in [0..Len(stream) -> Seq(Addressed)]
    /\ fan[0] = <<>>
    /\ \A n \in 1..Len(stream) : fan[n] = fan[n - 1] \o CopiesOf(c, stream[n], targets)
    /\ FanOut(c, stream, targets) = fan[Len(stream)]

\* The copies of an event are frames, one for each route, with its number.
LEMMA CopiesFacts ==
    ASSUME NEW c \in Commands, NEW e \in Event, NEW targets \in Seq(Routes)
    PROVE  /\ CopiesOf(c, e, targets) \in Seq(Addressed)
           /\ DOMAIN CopiesOf(c, e, targets) = DOMAIN targets
           /\ \A i \in DOMAIN targets :
                 CopiesOf(c, e, targets)[i] = To(targets[i], Message("Output", c, e.seq, TRUE))
<1>1. DOMAIN targets = 1..Len(targets) /\ Len(targets) \in Nat /\ \A i \in DOMAIN targets : targets[i] \in Routes
  OBVIOUS
<1>2. e.seq \in Nat
  BY DEF Event
<1>3. \A i \in 1..Len(targets) : To(targets[i], Message("Output", c, e.seq, TRUE)) \in Addressed
  BY <1>1, <1>2 DEF To, Message, Addressed, Frame
<1> DEFINE F(i) == To(targets[i], Message("Output", c, e.seq, TRUE))
<1>4. CopiesOf(c, e, targets) = [i \in 1..Len(targets) |-> F(i)]
  BY Zenon DEF CopiesOf
<1>5. \A i \in 1..Len(targets) : F(i) \in Addressed
  BY Zenon, <1>3
<1> HIDE DEF F
<1>6. CopiesOf(c, e, targets) \in Seq(Addressed)
  BY <1>1, <1>4, <1>5
<1>7. /\ DOMAIN CopiesOf(c, e, targets) = DOMAIN targets
      /\ \A i \in DOMAIN targets : CopiesOf(c, e, targets)[i] = F(i)
  BY <1>1, <1>4
<1> QED BY <1>6, <1>7, Zenon DEF F

\* FanOut is the loop it is written as.
LEMMA FanOutRuns ==
    ASSUME NEW c \in Commands, NEW stream \in Seq(Event), NEW targets \in Seq(Routes)
    PROVE  \E fan : IsFan(fan, c, stream, targets)
<1> DEFINE Step(n, t) == t \o CopiesOf(c, stream[n], targets)
<1> DEFINE step == [n \in 1..Len(stream) |-> [t \in Seq(Addressed) |-> Step(n, t)]]
<1> DEFINE IsKept(g) == g = [n \in 0..Len(stream) |-> IF n = 0 THEN <<>> ELSE Step(n, g[n - 1])]
<1>1. Len(stream) \in Nat /\ <<>> \in Seq(Addressed)
  OBVIOUS
<1>2. \A n \in 1..Len(stream) : \A t \in Seq(Addressed) : Step(n, t) \in Seq(Addressed)
  <2> TAKE n \in 1..Len(stream)
  <2> TAKE t \in Seq(Addressed)
  <2>1. stream[n] \in Event
    OBVIOUS
  <2>2. CopiesOf(c, stream[n], targets) \in Seq(Addressed)
    BY Zenon, <2>1, CopiesFacts
  <2> QED BY <2>2, ConcatMembers
<1> HIDE DEF Step
<1>3. step \in [1..Len(stream) -> [Seq(Addressed) -> Seq(Addressed)]]
  BY <1>2
<1>4. PICK f : IsLoop(f, Len(stream), Seq(Addressed), <<>>, step)
  <2> HIDE DEF step
  <2> QED BY Zenon, <1>1, <1>3, LoopExists
<1>5. f \in [0..Len(stream) -> Seq(Addressed)] /\ f[0] = <<>>
  BY <1>4 DEF IsLoop
<1>6. \A n \in 1..Len(stream) : f[n] = Step(n, f[n - 1])
  <2> TAKE n \in 1..Len(stream)
  <2>1. f[n - 1] \in Seq(Addressed) /\ f[n] = step[n][f[n - 1]]
    <3> HIDE DEF step
    <3> QED BY <1>4 DEF IsLoop
  <2> QED BY <2>1
<1>7. IsKept(f)
  BY <1>5, <1>6
<1> DEFINE K == CHOOSE g : IsKept(g)
<1>8. IsKept(K)
  <2> HIDE DEF IsKept
  <2> QED BY <1>7, Zenon
<1>9. FanOut(c, stream, targets) = K[Len(stream)]
  BY Zenon DEF FanOut, CopiesOf, Step
<1>10. K[0] = <<>> /\ \A n \in 1..Len(stream) : K[n] = Step(n, K[n - 1])
  <2> HIDE DEF K
  <2> QED BY <1>8
<1>11. \A n \in 0..Len(stream) : n \in {m \in Nat : K[m] = f[m]}
  <2> DEFINE G == {m \in Nat : K[m] = f[m]}
  <2> HIDE DEF K
  <2>1. 0 \in G
    BY <1>5, <1>10
  <2>2. \A n \in 0..(Len(stream) - 1) : n \in G => n + 1 \in G
    BY <1>6, <1>10
  <2> HIDE DEF G
  <2>3. \A n \in 0..Len(stream) : n \in G
    BY Zenon, <1>1, <2>1, <2>2, CountingUp
  <2> QED BY <2>3 DEF G
<1>12. FanOut(c, stream, targets) = f[Len(stream)]
  <2> HIDE DEF K
  <2> QED BY <1>1, <1>9, <1>11
<1>13. \A n \in 1..Len(stream) : f[n] = f[n - 1] \o CopiesOf(c, stream[n], targets)
  BY Zenon, <1>6 DEF Step
<1> QED BY <1>5, <1>12, <1>13, Zenon DEF IsFan

\* The frame that brings event e of window c to route r as it happens.
LiveFrame(r, c, e) == To(r, Message("Output", c, e.seq, TRUE))

\* t brings the first n events of the stream to the targets.
BringsFirst(t, n, c, stream, targets) ==
    /\ \A a \in Items(t) : \E m \in 1..n, i \in DOMAIN targets : a = LiveFrame(targets[i], c, stream[m])
    /\ \A m \in 1..n, i \in DOMAIN targets : LiveFrame(targets[i], c, stream[m]) \in Items(t)
    /\ Ordered(stream) /\ Different(targets) => RouteOrdered(t)

\* A live frame carries the route and the number it was made from.
LEMMA LiveFrameFields ==
    ASSUME NEW r, NEW c, NEW e
    PROVE  LiveFrame(r, c, e).route = r /\ LiveFrame(r, c, e).frame.seq = e.seq
BY DEF LiveFrame, To, Message

\* One more event: its copies come after those of the events before it.
LEMMA BringsOneMore ==
    ASSUME NEW c \in Commands, NEW stream \in Seq(Event), NEW targets \in Seq(Routes),
           NEW n \in 1..Len(stream), NEW t \in Seq(Addressed), BringsFirst(t, n - 1, c, stream, targets)
    PROVE  BringsFirst(t \o CopiesOf(c, stream[n], targets), n, c, stream, targets)
<1> DEFINE u == CopiesOf(c, stream[n], targets)
<1> DEFINE w == t \o u
<1>1. stream[n] \in Event /\ DOMAIN stream = 1..Len(stream)
  OBVIOUS
<1>2. /\ u \in Seq(Addressed) /\ DOMAIN u = DOMAIN targets
      /\ \A i \in DOMAIN targets : u[i] = LiveFrame(targets[i], c, stream[n])
  BY Zenon, <1>1, CopiesFacts DEF LiveFrame
<1> HIDE DEF u
<1>3. /\ Len(t) \in Nat /\ DOMAIN t = 1..Len(t) /\ DOMAIN w \subseteq Nat \ {0}
      /\ \A i \in DOMAIN t : i \in DOMAIN w /\ w[i] = t[i]
      /\ \A i \in DOMAIN u : Len(t) + i \in DOMAIN w /\ w[Len(t) + i] = u[i]
      /\ \A i \in DOMAIN w : i \in DOMAIN t \/ (i - Len(t) \in DOMAIN u /\ i = Len(t) + (i - Len(t)))
  <2>1. /\ w \in Seq(Addressed) /\ t \in Seq(Addressed)
        /\ \A i \in DOMAIN t : i \in DOMAIN w /\ w[i] = t[i]
        /\ \A i \in DOMAIN u : Len(t) + i \in DOMAIN w /\ w[Len(t) + i] = u[i]
        /\ \A i \in DOMAIN w : i \in DOMAIN t \/ (i - Len(t) \in DOMAIN u /\ i = Len(t) + (i - Len(t)))
    BY <1>2, ConcatMembers
  <2> HIDE DEF w
  <2>2. Len(t) \in Nat /\ DOMAIN t = 1..Len(t) /\ DOMAIN w \subseteq Nat \ {0}
    BY <2>1
  <2> QED BY Zenon, <2>1, <2>2
<1> HIDE DEF w
<1>4. \A i \in DOMAIN w : w[i] \in Items(t) \/ \E j \in DOMAIN targets : i = Len(t) + j /\ w[i] = LiveFrame(targets[j], c, stream[n])
  <2> TAKE i \in DOMAIN w
  <2>1. CASE i \in DOMAIN t
    BY <1>3, <2>1 DEF Items
  <2>2. CASE i - Len(t) \in DOMAIN u /\ i = Len(t) + (i - Len(t))
    <3>1. w[i] = u[i - Len(t)] /\ i - Len(t) \in DOMAIN targets
      BY <1>2, <1>3, <2>2
    <3> QED BY <1>2, <2>2, <3>1
  <2> QED BY <1>3, <2>1, <2>2
<1>5. ASSUME NEW a \in Items(w)
      PROVE  \E m \in 1..n, i \in DOMAIN targets : a = LiveFrame(targets[i], c, stream[m])
  <2>1. PICK p \in DOMAIN w : a = w[p]
    BY DEF Items
  <2>2. CASE a \in Items(t)
    <3>1. PICK m \in 1..(n - 1), i \in DOMAIN targets : a = LiveFrame(targets[i], c, stream[m])
      BY <2>2 DEF BringsFirst
    <3>2. m \in 1..n
      OBVIOUS
    <3> QED BY <3>1, <3>2
  <2>3. CASE \E j \in DOMAIN targets : w[p] = LiveFrame(targets[j], c, stream[n])
    <3>1. n \in 1..n
      OBVIOUS
    <3> QED BY <2>1, <2>3, <3>1
  <2> QED BY <1>4, <2>1, <2>2, <2>3
<1>6. ASSUME NEW m \in 1..n, NEW i \in DOMAIN targets PROVE LiveFrame(targets[i], c, stream[m]) \in Items(w)
  <2>1. CASE m = n
    BY <1>2, <1>3, <2>1 DEF Items
  <2>2. CASE m # n
    <3>1. m \in 1..(n - 1)
      BY <2>2
    <3>2. LiveFrame(targets[i], c, stream[m]) \in Items(t)
      BY <3>1 DEF BringsFirst
    <3>3. Items(t) \subseteq Items(w)
      BY <1>3 DEF Items
    <3> QED BY <3>2, <3>3
  <2> QED BY <2>1, <2>2
<1>7. ASSUME Ordered(stream), Different(targets) PROVE RouteOrdered(w)
  <2> SUFFICES ASSUME NEW p \in DOMAIN w, NEW q \in DOMAIN w, p < q, w[p].route = w[q].route
               PROVE  w[p].frame.seq < w[q].frame.seq
    BY DEF RouteOrdered
  <2>1. CASE q \in DOMAIN t
    <3>1. p \in DOMAIN t
      BY <1>3, <2>1
    <3>2. RouteOrdered(t)
      BY <1>7 DEF BringsFirst
    <3> QED BY <1>3, <2>1, <3>1, <3>2 DEF RouteOrdered
  <2>2. CASE q \notin DOMAIN t
    <3>1. PICK j \in DOMAIN targets : q = Len(t) + j /\ w[q] = LiveFrame(targets[j], c, stream[n])
      <4>1. q - Len(t) \in DOMAIN u /\ q = Len(t) + (q - Len(t))
        BY <1>3, <2>2
      <4> QED BY <1>2, <1>3, <4>1
    <3>2. w[q].route = targets[j] /\ w[q].frame.seq = stream[n].seq
      BY <3>1, LiveFrameFields
    <3>3. CASE p \in DOMAIN t
      <4>1. w[p] \in Items(t)
        BY <1>3, <3>3 DEF Items
      <4>2. PICK m \in 1..(n - 1), i \in DOMAIN targets : w[p] = LiveFrame(targets[i], c, stream[m])
        BY <4>1 DEF BringsFirst
      <4>3. w[p].frame.seq = stream[m].seq
        BY <4>2, LiveFrameFields
      <4>4. m \in DOMAIN stream /\ n \in DOMAIN stream /\ m < n
        BY <1>1
      <4> QED BY <1>7, <3>2, <4>3, <4>4 DEF Ordered
    <3>4. CASE p \notin DOMAIN t
      <4>1. PICK i \in DOMAIN targets : p = Len(t) + i /\ w[p] = LiveFrame(targets[i], c, stream[n])
        <5>1. p - Len(t) \in DOMAIN u /\ p = Len(t) + (p - Len(t))
          BY <1>3, <3>4
        <5> QED BY <1>2, <1>3, <5>1
      <4>2. w[p].route = targets[i]
        BY <4>1, LiveFrameFields
      <4>3. i = j
        BY <1>7, <3>2, <4>2 DEF Different
      <4> QED BY <3>1, <4>1, <4>3
    <3> QED BY <3>3, <3>4
  <2> QED BY <2>1, <2>2
<1>8. BringsFirst(w, n, c, stream, targets)
  BY <1>5, <1>6, <1>7 DEF BringsFirst
<1> QED BY <1>8 DEF w, u

\* FanOut brings every event to every target, nothing else, and in order.
LEMMA FanOutFacts ==
    ASSUME NEW c \in Commands, NEW stream \in Seq(Event), NEW targets \in Seq(Routes)
    PROVE  /\ FanOut(c, stream, targets) \in Seq(Addressed)
           /\ BringsFirst(FanOut(c, stream, targets), Len(stream), c, stream, targets)
<1>1. PICK fan : IsFan(fan, c, stream, targets)
  BY FanOutRuns
<1> DEFINE G == {n \in Nat : BringsFirst(fan[n], n, c, stream, targets)}
<1>2. 0 \in G
  <2>1. BringsFirst(<<>>, 0, c, stream, targets)
    BY DEF BringsFirst, Items, RouteOrdered
  <2> QED BY <1>1, <2>1 DEF IsFan
<1>3. ASSUME NEW m \in 0..(Len(stream) - 1), m \in G PROVE m + 1 \in G
  <2> DEFINE n == m + 1
  <2>1. n \in 1..Len(stream) /\ n - 1 = m /\ n \in Nat
    OBVIOUS
  <2> HIDE DEF n
  <2>2. fan[n] = fan[m] \o CopiesOf(c, stream[n], targets)
    BY Zenon, <1>1, <2>1 DEF IsFan
  <2>5. fan[m] \in Seq(Addressed)
    BY <1>1 DEF IsFan
  <2>3. BringsFirst(fan[m], n - 1, c, stream, targets)
    BY <1>3, <2>1
  <2>4. BringsFirst(fan[n], n, c, stream, targets)
    BY Zenon, <2>1, <2>2, <2>3, <2>5, BringsOneMore
  <2> QED BY <2>1, <2>4 DEF n
<1>4. Len(stream) \in Nat /\ Len(stream) \in 0..Len(stream)
  OBVIOUS
<1>5. \A n \in 0..Len(stream) : n \in G
  <2> HIDE DEF G
  <2> QED BY Zenon, <1>2, <1>3, <1>4, CountingUp
<1>6. BringsFirst(fan[Len(stream)], Len(stream), c, stream, targets)
  BY <1>4, <1>5
<1> QED BY <1>1, <1>4, <1>6 DEF IsFan

\* What the worker is given for a Resume intent: the kept events past the base,
\* all of them.
LEMMA PlanFacts ==
    ASSUME TypeOK, StreamInvariant, NEW c \in Commands, NEW n \in Nat \cup {NoResume},
           PlanRecovery(c, n).kind # "Unavailable"
    PROVE  LET plan == PlanRecovery(c, n)
           IN /\ plan.base \in Nat /\ plan.base <= windowHead[c]
              /\ plan.events \in Seq(Event)
              /\ Items(plan.events) = Missed(Items(events[c]), plan.base)
              /\ Items(plan.events) \subseteq recorded[c]
<1> DEFINE plan == PlanRecovery(c, n)
<1>1. c \in windows
  BY SMTT(20) DEF PlanRecovery, Plan
<1>2. /\ events[c] \in Seq(Event) /\ Ordered(events[c]) /\ Items(events[c]) \subseteq recorded[c]
      /\ windowHead[c] \in Nat /\ LastCheckpoint(c) \in Nat /\ LastCheckpoint(c) <= windowHead[c]
  BY <1>1, WindowFacts
<1>3. \/ plan = Plan("Resume", n, windowHead[c], EventsAfter(events[c], n)) /\ n # NoResume /\ n <= windowHead[c]
      \/ plan = Plan("Checkpoint", LastCheckpoint(c), windowHead[c], EventsAfter(events[c], LastCheckpoint(c)))
      \/ plan = Plan("ReplayFromStart", 0, windowHead[c], events[c])
  BY Zenon DEF PlanRecovery, Plan, CanResume
<1> HIDE DEF plan
<1>4. ASSUME NEW b \in Nat, b <= windowHead[c], plan.base = b, plan.events = EventsAfter(events[c], b)
      PROVE  /\ plan.base \in Nat /\ plan.base <= windowHead[c]
             /\ plan.events \in Seq(Event)
             /\ Items(plan.events) = Missed(Items(events[c]), plan.base)
             /\ Items(plan.events) \subseteq recorded[c]
  <2>1. /\ EventsAfter(events[c], b) \in Seq(Event)
        /\ Items(EventsAfter(events[c], b)) = {e \in Items(events[c]) : e.seq > b}
    BY SMTT(20), <1>2, EventsAfterExact
  <2> QED BY <1>2, <1>4, <2>1 DEF Missed
<1>5. CASE plan = Plan("Resume", n, windowHead[c], EventsAfter(events[c], n)) /\ n # NoResume /\ n <= windowHead[c]
  <2>1. plan.base = n /\ plan.events = EventsAfter(events[c], n) /\ n \in Nat
    BY SMTT(20), <1>5 DEF Plan
  <2> QED BY Zenon, <1>4, <1>5, <2>1 DEF plan
<1>6. CASE plan = Plan("Checkpoint", LastCheckpoint(c), windowHead[c], EventsAfter(events[c], LastCheckpoint(c)))
  <2>1. plan.base = LastCheckpoint(c) /\ plan.events = EventsAfter(events[c], LastCheckpoint(c))
    BY <1>6 DEF Plan
  <2> QED BY <1>2, <1>4, <2>1 DEF plan
<1>7. CASE plan = Plan("ReplayFromStart", 0, windowHead[c], events[c])
  <2>1. plan.base = 0 /\ plan.events = events[c]
    BY <1>7 DEF Plan
  <2>2. headSequence \in Nat /\ \A e \in recorded[c] : e.seq \in 1..headSequence
    BY Zenon DEF StreamInvariant, SequencesUnique, TypeOK
  <2>3. Items(events[c]) = Missed(Items(events[c]), 0)
    BY <1>2, <2>2 DEF Missed
  <2> QED BY <1>2, <2>1, <2>3 DEF plan
<1> QED BY Zenon, <1>3, <1>5, <1>6, <1>7

\* The frame that brings event e of window c to route r in a recovery.
ReplayFrame(r, c, e) == To(r, Message(MessageKind[e.kind], c, e.seq, FALSE))

\* _emitRecovery sends frames of that window on that route only: its checkpoint
\* first, if the plan is one, and one for each event that clients are shown.
LEMMA RecoveryFramesFacts ==
    ASSUME NEW r \in Routes, NEW c \in Commands, NEW plan,
           plan.events \in Seq(Event), plan.base \in Nat
    PROVE  /\ RecoveryFrames(r, c, plan) \in Seq(Addressed)
           /\ \A a \in Items(RecoveryFrames(r, c, plan)) :
                 \/ a = To(r, Message("Checkpoint", c, plan.base, FALSE))
                 \/ \E e \in Items(plan.events) : e.kind \in DOMAIN MessageKind /\ a = ReplayFrame(r, c, e)
           /\ \A e \in Items(plan.events) :
                 e.kind \in DOMAIN MessageKind => ReplayFrame(r, c, e) \in Items(RecoveryFrames(r, c, plan))
<1> DEFINE T == {e \in Items(plan.events) : e.kind \in DOMAIN MessageKind}
           shown == Filter(plan.events, T)
           first == IF plan.kind = "Checkpoint" THEN <<To(r, Message("Checkpoint", c, plan.base, FALSE))>> ELSE <<>>
           rest == [i \in 1..Len(shown) |-> ReplayFrame(r, c, shown[i])]
<1>1. RecoveryFrames(r, c, plan) = first \o rest
  BY DEF RecoveryFrames, ReplayFrame
<1>2. shown \in Seq(Event) /\ Items(shown) = T
  <2>1. /\ {shown[i] : i \in DOMAIN shown} = {plan.events[i] : i \in DOMAIN plan.events} \cap T
        /\ shown \in Seq(Event)
    <3> HIDE DEF T
    <3> QED BY Zenon, FilterMembers
  <2>2. T \subseteq Items(plan.events)
    OBVIOUS
  <2> HIDE DEF shown, T
  <2> QED BY <2>1, <2>2 DEF Items
<1> HIDE DEF shown
<1>3. DOMAIN shown = 1..Len(shown) /\ Len(shown) \in Nat /\ \A i \in DOMAIN shown : shown[i] \in T /\ shown[i].seq \in Nat
  <2> HIDE DEF T
  <2>1. /\ DOMAIN shown = 1..Len(shown) /\ Len(shown) \in Nat
        /\ \A i \in DOMAIN shown : shown[i] \in Event /\ shown[i].seq \in Nat
    BY <1>2, SequenceOfEvents
  <2>2. \A i \in DOMAIN shown : shown[i] \in T
    BY <1>2 DEF Items
  <2> QED BY <2>1, <2>2
<1>4. \A e \in T : MessageKind[e.kind] \in {"Output", "Resize", "Closed"}
  BY DEF MessageKind
<1> HIDE DEF T
<1>5. \A i \in 1..Len(shown) : ReplayFrame(r, c, shown[i]) \in Addressed
  <2> TAKE i \in 1..Len(shown)
  <2>1. MessageKind[shown[i].kind] \in {"Output", "Resize", "Closed"} /\ shown[i].seq \in Nat
    BY <1>3, <1>4
  <2> QED BY <2>1 DEF ReplayFrame, To, Message, Addressed, Frame
<1>6. first \in Seq(Addressed) /\ \A i \in DOMAIN first : first[i] = To(r, Message("Checkpoint", c, plan.base, FALSE))
  <2>1. To(r, Message("Checkpoint", c, plan.base, FALSE)) \in Addressed
    BY DEF To, Message, Addressed, Frame
  <2>2. CASE plan.kind = "Checkpoint"
    <3> DEFINE x == To(r, Message("Checkpoint", c, plan.base, FALSE))
    <3>1. first = <<x>> /\ x \in Addressed
      BY Zenon, <2>1, <2>2
    <3> HIDE DEF first, x
    <3>2. first \in Seq(Addressed) /\ \A i \in DOMAIN first : first[i] = x
      BY <3>1
    <3> QED BY Zenon, <3>2 DEF x
  <2>3. CASE plan.kind # "Checkpoint"
    BY <2>3
  <2> QED BY Zenon, <2>2, <2>3
<1> HIDE DEF first
<1>7. rest \in Seq(Addressed) /\ DOMAIN rest = 1..Len(shown)
  BY <1>3, <1>5
<1>8. \A i \in 1..Len(shown) : rest[i] = ReplayFrame(r, c, shown[i])
  OBVIOUS
<1> HIDE DEF rest
<1> DEFINE w == first \o rest
<1>9. /\ w \in Seq(Addressed)
      /\ \A i \in DOMAIN rest : Len(first) + i \in DOMAIN w /\ w[Len(first) + i] = rest[i]
      /\ \A i \in DOMAIN w : (i \in DOMAIN first /\ w[i] = first[i]) \/ (\E j \in DOMAIN rest : w[i] = rest[j])
  BY <1>6, <1>7, ConcatMembers
<1> HIDE DEF w
<1>10. ASSUME NEW a \in Items(w)
       PROVE  \/ a = To(r, Message("Checkpoint", c, plan.base, FALSE))
              \/ \E e \in Items(plan.events) : e.kind \in DOMAIN MessageKind /\ a = ReplayFrame(r, c, e)
  <2>1. PICK i \in DOMAIN w : a = w[i]
    BY DEF Items
  <2>2. CASE i \in DOMAIN first /\ w[i] = first[i]
    BY Zenon, <1>6, <2>1, <2>2
  <2>3. CASE \E j \in DOMAIN rest : w[i] = rest[j]
    <3>1. PICK j \in 1..Len(shown) : w[i] = ReplayFrame(r, c, shown[j])
      BY <1>7, <1>8, <2>3
    <3>2. shown[j] \in Items(plan.events) /\ shown[j].kind \in DOMAIN MessageKind
      BY <1>3 DEF T
    <3> QED BY Zenon, <2>1, <3>1, <3>2
  <2> QED BY Zenon, <1>9, <2>2, <2>3
<1>11. ASSUME NEW e \in Items(plan.events), e.kind \in DOMAIN MessageKind
       PROVE  ReplayFrame(r, c, e) \in Items(w)
  <2>1. e \in Items(shown)
    BY <1>2, <1>11 DEF T
  <2>2. PICK i \in 1..Len(shown) : e = shown[i]
    BY <1>3, <2>1 DEF Items
  <2>3. rest[i] = ReplayFrame(r, c, e) /\ i \in DOMAIN rest
    BY SMTT(20), <1>7, <1>8, <2>2
  <2> QED BY <1>9, <2>3 DEF Items
<1> QED BY Zenon, <1>1, <1>9, <1>10, <1>11 DEF w

\* A replayed event's frame stands for it.
LEMMA ReplayFrameStands ==
    ASSUME NEW r, NEW c \in Commands, NEW e \in recorded[c], e.kind \in DOMAIN MessageKind
    PROVE  /\ ReplayFrame(r, c, e).route = r /\ ~ReplayFrame(r, c, e).frame.live
           /\ ReplayFrame(r, c, e).frame.command = c /\ ReplayFrame(r, c, e).frame.seq = e.seq
           /\ StandsForRecorded(ReplayFrame(r, c, e).frame)
<1> DEFINE f == ReplayFrame(r, c, e).frame
<1>1. ReplayFrame(r, c, e).route = r /\ ~f.live /\ f.command = c /\ f.seq = e.seq /\ f.kind = MessageKind[e.kind]
  BY DEF ReplayFrame, To, Message
<1>2. MessageKind[e.kind] \in {"Output", "Resize", "Closed"}
  BY DEF MessageKind
<1> HIDE DEF f
<1>3. StandsForRecorded(f)
  BY <1>1, <1>2 DEF StandsForRecorded
<1> QED BY <1>1, <1>2, <1>3 DEF f

\* An output event is replayed as an output frame of its number.
LEMMA ReplayOutput ==
    ASSUME NEW r, NEW c, NEW e, e.kind = "Output"
    PROVE  /\ e.kind \in DOMAIN MessageKind /\ ReplayFrame(r, c, e).frame.kind = "Output"
           /\ ReplayFrame(r, c, e).route = r
           /\ ReplayFrame(r, c, e).frame.command = c /\ ReplayFrame(r, c, e).frame.seq = e.seq
BY DEF ReplayFrame, To, Message, MessageKind

\* A Resume intent (_emitRecovery) gives the worker frames of recorded events,
\* and all the output past the base it names.
LEMMA ResumeSends ==
    ASSUME TypeOK, StreamInvariant, NEW r \in Routes, NEW c \in Commands, NEW n \in Positions,
           ReceiveResume(r, c, n)
    PROVE  \E frames : IsRecoveryBatch(frames, r, c)
<1> DEFINE m == IF n = 0 THEN NoResume ELSE n
           plan == PlanRecovery(c, m)
<1>1. m \in Nat \cup {NoResume}
  BY TunnelAssumption
<1>2. CASE plan.kind = "Unavailable"
  <2>1. Send(Worker, <<Answer(r)>>) /\ resumed' = resumed
    BY SMTT(20), <1>2 DEF ReceiveResume
  <2>2. Answer(r) \in Addressed /\ ~Answer(r).frame.live /\ StandsForRecorded(Answer(r).frame)
    BY DEF Answer, To, Message, Addressed, Frame, StandsForRecorded
  <2>3. <<Answer(r)>> \in Seq(Addressed) /\ Items(<<Answer(r)>>) = {Answer(r)}
    BY <2>2 DEF Items
  <2>4. IsRecoveryBatch(<<Answer(r)>>, r, c)
    BY <2>1, <2>2, <2>3 DEF IsRecoveryBatch
  <2> QED BY <2>4
<1>3. CASE plan.kind # "Unavailable"
  <2> DEFINE frames == RecoveryFrames(r, c, plan)
  <2>1. Send(Worker, frames) /\ resumed' = [resumed EXCEPT ![r][c] = plan.base]
    BY SMTT(20), <1>3 DEF ReceiveResume
  <2> HIDE DEF m
  <2>2. /\ plan.base \in Nat /\ plan.base <= windowHead[c] /\ plan.events \in Seq(Event)
        /\ Items(plan.events) = Missed(Items(events[c]), plan.base) /\ Items(plan.events) \subseteq recorded[c]
    BY <1>1, <1>3, PlanFacts
  <2> HIDE DEF plan
  <2>3. /\ frames \in Seq(Addressed)
        /\ \A a \in Items(frames) :
              \/ a = To(r, Message("Checkpoint", c, plan.base, FALSE))
              \/ \E e \in Items(plan.events) : e.kind \in DOMAIN MessageKind /\ a = ReplayFrame(r, c, e)
        /\ \A e \in Items(plan.events) : e.kind \in DOMAIN MessageKind => ReplayFrame(r, c, e) \in Items(frames)
    BY Zenon, <2>2, RecoveryFramesFacts
  <2> HIDE DEF frames
  <2>4. ASSUME NEW a \in Items(frames) PROVE ~a.frame.live /\ StandsForRecorded(a.frame)
    <3>1. CASE a = To(r, Message("Checkpoint", c, plan.base, FALSE))
      <4>1. a.frame.kind = "Checkpoint" /\ ~a.frame.live /\ a.frame.command = c /\ a.frame.seq = plan.base
        BY <3>1 DEF To, Message
      <4> QED BY Zenon, <2>2, <4>1 DEF StandsForRecorded
    <3>2. CASE \E e \in Items(plan.events) : e.kind \in DOMAIN MessageKind /\ a = ReplayFrame(r, c, e)
      <4>1. PICK e \in Items(plan.events) : e.kind \in DOMAIN MessageKind /\ a = ReplayFrame(r, c, e)
        BY Zenon, <3>2
      <4>2. e \in recorded[c]
        BY Zenon, <2>2
      <4> QED BY Zenon, <4>1, <4>2, ReplayFrameStands
    <3> QED BY Zenon, <2>3, <3>1, <3>2
  <2>5. BringsOutput(frames, r, c, plan.base)
    <3>1. ASSUME NEW e \in Items(plan.events), e.kind = "Output"
          PROVE  /\ ReplayFrame(r, c, e) \in Items(frames)
                 /\ ReplayFrame(r, c, e).route = r /\ ReplayFrame(r, c, e).frame.kind = "Output"
                 /\ ReplayFrame(r, c, e).frame.command = c /\ ReplayFrame(r, c, e).frame.seq = e.seq
      <4>1. /\ e.kind \in DOMAIN MessageKind /\ ReplayFrame(r, c, e).frame.kind = "Output"
            /\ ReplayFrame(r, c, e).route = r
            /\ ReplayFrame(r, c, e).frame.command = c /\ ReplayFrame(r, c, e).frame.seq = e.seq
        BY ONLY <3>1, ReplayOutput
      <4> QED BY Zenon, <2>3, <4>1
    <3> QED BY Zenon, <2>2, <3>1 DEF BringsOutput
  <2>6. IsRecoveryBatch(frames, r, c)
    BY Zenon, <2>1, <2>2, <2>3, <2>4, <2>5 DEF IsRecoveryBatch
  <2> QED BY <2>6
<1> QED BY <1>2, <1>3

\* What every window's stream is, begun or not.
LEMMA StreamFacts ==
    ASSUME TypeOK, StreamInvariant, NEW c \in Commands
    PROVE  /\ events[c] \in Seq(Event) /\ Ordered(events[c]) /\ Items(events[c]) \subseteq recorded[c]
           /\ \A e \in recorded[c] : e \in Event /\ e.seq \in Nat /\ e.seq <= headSequence
<1>1. events[c] \in Seq(Event) /\ \A e \in recorded[c] : e \in Event /\ e.seq \in Nat
  <2>1. events[c] \in Seq(Event) /\ recorded[c] \subseteq Event
    BY DEF TypeOK
  <2>2. \A e \in Event : e.seq \in Nat
    BY DEF Event
  <2> QED BY <2>1, <2>2
<1>2. IsNewestPart(events[c], recorded[c])
  BY Zenon DEF StreamInvariant, RetainedIsNewest
<1>3. \A e \in recorded[c] : e.seq <= headSequence
  <2>1. headSequence \in Nat /\ windowHead[c] \in Nat /\ windowHead[c] <= headSequence
    BY DEF TypeOK, StreamInvariant, StreamShape
  <2>2. \A e \in recorded[c] : e.seq <= windowHead[c]
    BY Zenon DEF StreamInvariant, StreamShape
  <2> QED BY <1>1, <2>1, <2>2
<1> QED BY Zenon, <1>1, <1>2, <1>3 DEF IsNewestPart, Ordered

\* What the publisher's second Snapshot yields: the kept output past the head it
\* read first, in order.
LEMMA NewOutputFacts ==
    ASSUME TypeOK, StreamInvariant, NEW c \in Commands
    PROVE  LET stream == Filter(events[c], {e \in Items(events[c]) : IsNewOutput(c, e)})
           IN /\ stream \in Seq(Event) /\ Ordered(stream)
              /\ Items(stream) = {e \in Items(events[c]) : IsNewOutput(c, e)}
<1> DEFINE T == {e \in Items(events[c]) : IsNewOutput(c, e)}
           s == events[c]
           stream == Filter(s, T)
           R == {p \in Event \X Event : p[1].seq < p[2].seq}
<1>1. s \in Seq(Event) /\ Ordered(s) /\ T \subseteq Items(s)
  BY Zenon, StreamFacts
<1> HIDE DEF s, T
<1>2. {stream[i] : i \in DOMAIN stream} = {s[i] : i \in DOMAIN s} \cap T /\ stream \in Seq(Event)
  BY Zenon, <1>1, FilterMembers
<1>3. \A i, j \in DOMAIN s : i < j => <<s[i], s[j]>> \in R
  BY Zenon, <1>1, SequenceOfEvents DEF Ordered
<1>4. \A i, j \in DOMAIN stream : i < j => <<stream[i], stream[j]>> \in R
  <2> HIDE DEF R
  <2> QED BY Zenon, <1>1, <1>3, FilterKeepsOrder
<1> HIDE DEF stream
<1>5. Ordered(stream)
  BY Zenon, <1>4 DEF Ordered
<1>6. Items(stream) = T
  BY Zenon, <1>1, <1>2 DEF Items
<1> QED BY Zenon, <1>2, <1>5, <1>6 DEF stream, s, T

\* RecordOutputAndBuildEffects gives the publisher its batch.
LEMMA CollectSends ==
    ASSUME TypeOK, DataOK, StreamInvariant, NEW c \in Commands, Collect(c)
    PROVE  \E frames : IsLiveBatch(frames, c)
<1> DEFINE stream == Filter(events[c], {e \in Items(events[c]) : IsNewOutput(c, e)})
<1>1. PICK targets \in IF stale[c] THEN [1..Len(span[c]) -> Routes] ELSE {span[c]} :
         Send(c, FanOut(c, stream, targets))
  BY Zenon DEF Collect
<1>2. /\ stream \in Seq(Event) /\ Ordered(stream)
      /\ Items(stream) = {e \in Items(events[c]) : IsNewOutput(c, e)}
  BY Zenon, NewOutputFacts
<1> HIDE DEF stream
<1>3. span[c] \in Seq(Routes) /\ Len(span[c]) \in Nat
  BY DEF DataOK
<1>4. targets \in Seq(Routes) /\ (~stale[c] => targets = span[c])
  BY <1>1, <1>3
<1> DEFINE frames == FanOut(c, stream, targets)
<1>5. frames \in Seq(Addressed) /\ BringsFirst(frames, Len(stream), c, stream, targets)
  BY Zenon, <1>2, <1>4, FanOutFacts
<1> HIDE DEF frames
<1>6. DOMAIN stream = 1..Len(stream)
  BY <1>2
<1>7. ASSUME NEW a \in Items(frames)
      PROVE  /\ a.frame.kind = "Output" /\ a.frame.command = c /\ StandsForRecorded(a.frame)
             /\ a.frame.seq > previousHead[c] /\ a.frame.seq <= headSequence
  <2>1. PICK m \in 1..Len(stream), i \in DOMAIN targets : a = LiveFrame(targets[i], c, stream[m])
    BY Zenon, <1>5 DEF BringsFirst
  <2>2. stream[m] \in Items(events[c]) /\ IsNewOutput(c, stream[m])
    BY Zenon, <1>2, <1>6 DEF Items
  <2>3. stream[m] \in recorded[c] /\ stream[m].seq <= headSequence
    BY <2>2, StreamFacts
  <2>4. stream[m].kind = "Output" /\ stream[m].seq > previousHead[c]
    BY SMTT(20), <2>2 DEF IsNewOutput
  <2>5. a.frame.kind = "Output" /\ a.frame.command = c /\ a.frame.seq = stream[m].seq
    BY SMTT(20), <2>1 DEF LiveFrame, To, Message
  <2>6. "Output" \in DOMAIN MessageKind /\ MessageKind["Output"] = "Output"
    BY DEF MessageKind
  <2> QED BY Zenon, <2>3, <2>4, <2>5, <2>6 DEF StandsForRecorded
<1>8. ASSUME ~stale[c], Different(span[c]) PROVE RouteOrdered(frames)
  BY Zenon, <1>2, <1>4, <1>5, <1>8 DEF BringsFirst
<1>9. ASSUME ~stale[c], NEW r \in Items(span[c]) PROVE BringsOutput(frames, r, c, previousHead[c])
  <2> SUFFICES ASSUME NEW e \in Missed(Items(events[c]), previousHead[c]), e.kind = "Output"
               PROVE  \E a \in Items(frames) :
                         a.route = r /\ a.frame.kind = "Output" /\ a.frame.command = c /\ a.frame.seq = e.seq
    BY DEF BringsOutput
  <2>1. e \in Items(stream)
    BY <1>2 DEF Missed, IsNewOutput
  <2>2. PICK m \in 1..Len(stream) : e = stream[m]
    BY Zenon, <1>6, <2>1 DEF Items
  <2>3. PICK i \in DOMAIN targets : r = targets[i]
    BY <1>4, <1>9 DEF Items
  <2>4. LiveFrame(r, c, e) \in Items(frames)
    BY Zenon, <1>5, <2>2, <2>3 DEF BringsFirst
  <2>5. /\ LiveFrame(r, c, e).route = r /\ LiveFrame(r, c, e).frame.kind = "Output"
        /\ LiveFrame(r, c, e).frame.command = c /\ LiveFrame(r, c, e).frame.seq = e.seq
    BY Zenon DEF LiveFrame, To, Message
  <2> QED BY <2>4, <2>5
<1>10. IsLiveBatch(frames, c)
  BY Zenon, <1>1, <1>5, <1>7, <1>8, <1>9 DEF IsLiveBatch, frames
<1> QED BY Zenon, <1>10

\* RouteClosed removes the route and keeps the order of the others.
LEMMA RouteCloses ==
    ASSUME DataOK, NEW r \in Routes, ReceiveRouteClose(r)
    PROVE  RouteRemoved(r)
<1> DEFINE T == Routes \ {r}
           R == {p \in Routes \X Routes : p[1] # p[2]}
<1>1. routes' = Filter(routes, T) /\ routes \in Seq(Routes)
  BY DEF ReceiveRouteClose, ModifyRoutes, DataOK
<1>2. Items(routes) \subseteq Routes
  BY <1>1 DEF Items
<1>3. routes' \in Seq(Routes) /\ Items(routes') = Items(routes) \ {r}
  <2>1. /\ {routes'[i] : i \in DOMAIN routes'} = {routes[i] : i \in DOMAIN routes} \cap T
        /\ routes' \in Seq(Routes)
    <3> HIDE DEF T
    <3> QED BY <1>1, FilterMembers
  <2> QED BY Zenon, <1>2, <2>1 DEF Items
<1>4. ASSUME Different(routes) PROVE Different(routes')
  <2>1. \A i, j \in DOMAIN routes : i < j => <<routes[i], routes[j]>> \in R
    <3>1. DOMAIN routes = 1..Len(routes)
      BY <1>1
    <3> QED BY <1>1, <1>4, <3>1 DEF Different
  <2>2. \A i, j \in DOMAIN routes' : i < j => <<routes'[i], routes'[j]>> \in R
    <3> HIDE DEF R, T
    <3> QED BY <1>1, <2>1, FilterKeepsOrder
  <2>3. DOMAIN routes' = 1..Len(routes') /\ Len(routes') \in Nat
    BY <1>3
  <2>4. \A i, j \in DOMAIN routes' : i < j => routes'[i] # routes'[j]
    BY Zenon, <2>2
  <2>5. \A i, j \in DOMAIN routes' : i < j \/ j < i \/ i = j
    BY <2>3
  <2> QED BY <2>4, <2>5 DEF Different
<1> QED BY <1>3, <1>4 DEF RouteRemoved

\* In a state of the right types whose streams are right, every list that a
\* step builds is the right one.
LEMMA AllBuilt ==
    ASSUME TypeOK, DataOK, StreamInvariant
    PROVE  BatchesBuilt
<1>1. ASSUME NEW r \in Routes, NEW c \in Commands, NEW n \in Positions, ReceiveResume(r, c, n)
      PROVE  \E frames : IsRecoveryBatch(frames, r, c)
  BY <1>1, ResumeSends
<1>2. ASSUME NEW c \in Commands, Collect(c) PROVE \E frames : IsLiveBatch(frames, c)
  BY <1>2, CollectSends
<1>3. ASSUME NEW r \in Routes, ReceiveRouteClose(r) PROVE RouteRemoved(r)
  BY <1>3, RouteCloses
<1> QED BY <1>1, <1>2, <1>3 DEF BatchesBuilt
==============================================================================
