---------------------------- MODULE MirrorBatches ----------------------------
(***************************************************************************)
(* What the proofs about MirrorTunnel say of the lists its threads build: the *)
(* frames of one recovery, the frames of one batch of new output, and the  *)
(* routes that are left when one is closed.                                *)
(***************************************************************************)
EXTENDS MirrorTunnel

Ordered(stream) ==
    \A i, j \in DOMAIN stream : i < j => stream[i].seq < stream[j].seq

Different(targets) == \A i, j \in DOMAIN targets : targets[i] = targets[j] => i = j

\* Frames for one route are in the order of their numbers.
RouteOrdered(t) ==
    \A i, j \in DOMAIN t : i < j /\ t[i].route = t[j].route => t[i].frame.seq < t[j].frame.seq

-----------------------------------------------------------------------------
\* The batch brings the Output events of window c past base to route r.
BringsOutput(frames, r, c, base) ==
    \A e \in Missed(Items(events[c]), base) :
        e.kind = "Output" =>
           \E a \in Items(frames) :
               a.route = r /\ a.frame.kind = "Output" /\ a.frame.command = c /\ a.frame.seq = e.seq

\* The worker's batch after a Resume intent.
IsRecoveryBatch(frames, r, c) ==
    /\ frames \in Seq(Addressed)
    /\ Send(Worker, frames)
    /\ \A a \in Items(frames) : ~a.frame.live /\ StandsForRecorded(a.frame)
    /\ \/ resumed' = resumed
       \/ \E base \in Nat :
             /\ resumed' = [resumed EXCEPT ![r][c] = base]
             /\ BringsOutput(frames, r, c, base)

\* A publisher's batch: new output of its window, and with a span that is fresh
\* all of it, in order, for every route of the span.
IsLiveBatch(frames, c) ==
    /\ frames \in Seq(Addressed)
    /\ Send(c, frames)
    /\ \A a \in Items(frames) :
          /\ a.frame.kind = "Output" /\ a.frame.command = c /\ StandsForRecorded(a.frame)
          /\ a.frame.seq > previousHead[c] /\ a.frame.seq <= headSequence
    /\ ~stale[c] =>
          /\ Different(span[c]) => RouteOrdered(frames)
          /\ \A r \in Items(span[c]) : BringsOutput(frames, r, c, previousHead[c])

-----------------------------------------------------------------------------
Labels == {"idle", "receiving", "effect", "recording", "collecting", "sending"}

\* The threads' places and batches.
ThreadsOK ==
    /\ pc \in [Threads -> Labels]
    /\ out \in [Threads -> Seq(Addressed)]
    /\ \A th \in Threads : pc[th] = "sending" <=> out[th] # <<>>
    /\ effect # {} <=> pc[Worker] = "effect"

\* What the agent, the publishers and the history hold.
DataOK ==
    /\ connected \in BOOLEAN
    /\ routes \in Seq(Routes)
    /\ span \in [Commands -> Seq(Routes)]
    /\ stale \in [Commands -> BOOLEAN]
    /\ previousHead \in [Commands -> Nat]
    /\ wire \in [Routes -> Seq(Frame)]
    /\ resumed \in [Routes -> [Commands -> Nat \cup {NoResume}]]
    /\ disturbed \subseteq {"cut", "race"}

\* The clock of the log is not ahead of the clock.
ClockBehind == now \in Nat /\ clock \in 0..now

\* What makes SinkFollowsLog inductive: the worker holds one input, and only
\* between the recorder and the sink.
SinkInvariant ==
    /\ SinkFollowsLog
    /\ DOMAIN pc = Threads
    /\ effect # {} => pc[Worker] = "effect"
    /\ \A i, j \in effect : i = j
    /\ sunk \in Seq(RemoteInput)

\* What the worker's removal of a route leaves of the list of routes.
RouteRemoved(r) ==
    /\ routes' \in Seq(Routes) /\ Items(routes') = Items(routes) \ {r}
    /\ Different(routes) => Different(routes')

\* Every step that builds a list builds the right one: the worker's recovery
\* batch, a callback's live batch, and the routes that are left after a close.
BatchesBuilt ==
    /\ \A r \in Routes, c \in Commands, n \in Positions :
          ReceiveResume(r, c, n) => \E frames : IsRecoveryBatch(frames, r, c)
    /\ \A c \in Commands : Collect(c) => \E frames : IsLiveBatch(frames, c)
    /\ \A r \in Routes : ReceiveRouteClose(r) => RouteRemoved(r)
==============================================================================
