----------------------------- MODULE EgressShard -----------------------------
(***************************************************************************)
(* One egress shard thread, its RTMP backend and the publishers that wake  *)
(* it: EgressShardRuntime::run and FeedWakeHandle::deliver (egress/        *)
(* shard.rs), WakeGate (egress/journal.rs), RtmpShardBackend's ready queue *)
(* and feed-waiting queue (egress/backends/rtmp_shard.rs) and the wait     *)
(* conditions MediaPublisher::advance reports (egress/backends/rtmp.rs).   *)
(*                                                                         *)
(* A publisher pushes media and then delivers one coalesced wake: it swaps *)
(* the gate's pending bit, and only on a clear-to-set transition tries to  *)
(* queue a FeedWake command; a full channel leaves a retry bit instead.    *)
(* The shard loops: a batch of commands, a batch of ready visits, a        *)
(* bounded park when both were empty, then the retry bit and the media     *)
(* tick.  Leaves are in the publishing state, each with its own socket.    *)
(*                                                                         *)
(* The shard's own steps touch shared state once each (a channel receive,  *)
(* a gate swap, a read of the feed head), so each is one action.  Socket   *)
(* completions land between any two shard steps, which covers every moment *)
(* the poller's runtime runs them.  Media positions stand for packets; the *)
(* ring behind them is modelled in RingBuffer and RingFeed.                *)
(***************************************************************************)
EXTENDS Naturals, Sequences, SequencesExt, FiniteSets

CONSTANTS
    Leaves,             \* the outputs placed on this shard
    Wakers,             \* threads that deliver feed wakes
    Producer,           \* the waker that also publishes media
    CommandCapacity,    \* bound of the command channel
    CommandBudget,      \* EgressShardConfig::command_batch_budget
    ReadyBudget,        \* EgressShardConfig::readiness_batch_budget
    Retained,           \* feed units the ring retains behind its head
    MaxHead,            \* bound: packets published
    MaxControl,         \* bound: control commands dispatched
    MaxReceived         \* bound: control messages the peers send

ASSUME ShardConstants ==
    /\ Producer \in Wakers
    /\ CommandCapacity \in Nat \ {0} /\ CommandBudget \in Nat \ {0}
    /\ ReadyBudget \in Nat \ {0} /\ Retained \in Nat \ {0}
    /\ MaxHead \in Nat /\ MaxControl \in Nat /\ MaxReceived \in Nat

VARIABLES
    head,               \* the feed's head sequence
    pending,            \* WakeGate::pending
    full_retry,         \* WakeGate::full_retry
    wake,               \* where each waker is in FeedWakeHandle::deliver
    channel,            \* the shard's command channel
    control,            \* control commands still to dispatch
    peer,               \* control messages the peers may still send
    pc,                 \* the shard loop's position
    processed,          \* commands processed this iteration
    visited,            \* ready visits this iteration
    backlog,            \* ready_backlog: on_ready calls owed
    draining_until,     \* the shard is in its drain window
    stopped_by,         \* what ended the loop
    ready,              \* RtmpShardBackend::ready
    visits_until_poll,  \* RtmpShardBackend::visits_until_poll
    feed_waiting,       \* RtmpShardBackend::feed_waiting
    completions,        \* leaves with socket completions not yet reaped
    leaf                \* the leaf arena: the state of every output's leaf

gateVars == <<pending, full_retry, wake, head>>
loopVars == <<pc, processed, visited>>
backendVars == <<ready, visits_until_poll, feed_waiting, completions, leaf>>
vars == <<gateVars, channel, control, peer, loopVars, backlog, draining_until,
          stopped_by, backendVars>>

FeedWake == [type |-> "FeedWake"]
Shutdown == [type |-> "Shutdown"]
RemoveOutput(l) == [type |-> "Remove", output |-> l]
DrainOther == [type |-> "DrainShard"]        \* addressed to another shard
ControlCommands == {Shutdown, DrainOther} \cup {RemoveOutput(l) : l \in Leaves}

Capacity == CommandBudget + ReadyBudget     \* of ready_backlog

Directions == {"readable", "writable"}
Leaf == [live: BOOLEAN,             \* the slot holds a leaf
         cursor: Nat,               \* next feed sequence to read
         unsent: BOOLEAN,           \* the engine holds bytes the transport has not taken
         inflight: BOOLEAN,         \* pending_transport_write_bytes > 0
         staged: BOOLEAN,           \* has_buffered_receive
         arrived: SUBSET Directions,     \* completions not yet reaped
         readiness: SUBSET Directions,   \* pending_readiness
         wants_feed_wake: BOOLEAN,
         pending_bytes: BOOLEAN,    \* pending_application_bytes > 0, as of the last visit
         draining: BOOLEAN]         \* draining_since is set

NewLeaf == [live |-> TRUE, cursor |-> 0, unsent |-> FALSE, inflight |-> FALSE,
            staged |-> FALSE, arrived |-> {}, readiness |-> {"writable"},
            wants_feed_wake |-> FALSE, pending_bytes |-> FALSE, draining |-> FALSE]
NoLeaf == [NewLeaf EXCEPT !.live = FALSE, !.readiness = {}]

Init ==
    /\ head = 0 /\ pending = FALSE /\ full_retry = FALSE
    /\ wake = [p \in Wakers |-> "idle"]
    /\ channel = <<>> /\ control = MaxControl /\ peer = MaxReceived
    /\ pc = "commands" /\ processed = 0 /\ visited = 0
    /\ backlog = 1 /\ draining_until = FALSE /\ stopped_by = "none"
    /\ ready \in SetToSeqs(Leaves)
    /\ visits_until_poll = 0 /\ feed_waiting = <<>> /\ completions = <<>>
    /\ leaf = [l \in Leaves |-> NewLeaf]

Running == pc # "stopped"
-----------------------------------------------------------------------------
(* Publishers: FeedWakeHandle::deliver after a push, or once on subscribing. *)

Publish ==
    /\ wake[Producer] = "idle" /\ head < MaxHead
    /\ head' = head + 1
    /\ wake' = [wake EXCEPT ![Producer] = "notify"]
    /\ UNCHANGED <<pending, full_retry, channel, control, peer, loopVars, backlog,
                   draining_until, stopped_by, backendVars>>

Subscribe(p) ==
    /\ p # Producer /\ wake[p] = "idle"
    /\ wake' = [wake EXCEPT ![p] = "notify"]
    /\ UNCHANGED <<pending, full_retry, head, channel, control, peer, loopVars, backlog,
                   draining_until, stopped_by, backendVars>>

\* WakeGate::notify: only the clear-to-set transition owes a delivery.
Notify(p) ==
    /\ wake[p] = "notify"
    /\ pending' = TRUE
    /\ wake' = [wake EXCEPT ![p] = IF pending THEN "idle" ELSE "send"]
    /\ UNCHANGED <<full_retry, head, channel, control, peer, loopVars, backlog,
                   draining_until, stopped_by, backendVars>>

\* try_send(FeedWake): queued, refused by a full channel, or disconnected
\* (then the gate is cleared again).
Send(p) ==
    /\ wake[p] = "send"
    /\ \/ /\ Running /\ Len(channel) < CommandCapacity
          /\ channel' = Append(channel, FeedWake)
          /\ wake' = [wake EXCEPT ![p] = "idle"]
          /\ UNCHANGED pending
       \/ /\ Running /\ Len(channel) >= CommandCapacity
          /\ wake' = [wake EXCEPT ![p] = "full"]
          /\ UNCHANGED <<channel, pending>>
       \/ /\ ~Running
          /\ pending' = FALSE
          /\ wake' = [wake EXCEPT ![p] = "idle"]
          /\ UNCHANGED channel
    /\ UNCHANGED <<full_retry, head, control, peer, loopVars, backlog,
                   draining_until, stopped_by, backendVars>>

\* Mutant: the full-channel wake is dropped.
RecordFullForgets(p) ==
    /\ wake[p] = "full"
    /\ pending' = FALSE
    /\ wake' = [wake EXCEPT ![p] = "idle"]
    /\ UNCHANGED <<full_retry, head, channel, control, peer, loopVars, backlog,
                   draining_until, stopped_by, backendVars>>

\* Mutant: the retry bit is set but the gate stays set.
RecordFullKeepsGate(p) ==
    /\ wake[p] = "full"
    /\ full_retry' = TRUE
    /\ wake' = [wake EXCEPT ![p] = "idle"]
    /\ UNCHANGED <<pending, head, channel, control, peer, loopVars, backlog,
                   draining_until, stopped_by, backendVars>>

\* WakeGate::record_full_delivery: clear the gate, then set the retry bit.
RecordFull(p) ==
    /\ \/ /\ wake[p] = "full"
          /\ pending' = FALSE
          /\ wake' = [wake EXCEPT ![p] = "retry"]
          /\ UNCHANGED full_retry
       \/ /\ wake[p] = "retry"
          /\ full_retry' = TRUE
          /\ wake' = [wake EXCEPT ![p] = "idle"]
          /\ UNCHANGED pending
    /\ UNCHANGED <<head, channel, control, peer, loopVars, backlog,
                   draining_until, stopped_by, backendVars>>

\* The control plane queues a command; a full or closed channel refuses it.
Dispatch(c) ==
    /\ Running /\ control > 0 /\ Len(channel) < CommandCapacity
    /\ channel' = Append(channel, c)
    /\ control' = control - 1
    /\ UNCHANGED <<gateVars, peer, loopVars, backlog, draining_until, stopped_by, backendVars>>

(* Sockets: the transmit and receive workers of the Compio poller. *)

\* ReadyQueue::push: a queued key keeps its place.
Push(queue, l) == IF l \in Range(queue) THEN queue ELSE Append(queue, l)

TransmitDone(l) ==
    /\ Running /\ leaf[l].live /\ leaf[l].inflight
    /\ leaf' = [leaf EXCEPT ![l].inflight = FALSE, ![l].arrived = @ \cup {"writable"}]
    /\ completions' = Push(completions, l)
    /\ UNCHANGED <<gateVars, channel, control, peer, loopVars, backlog, draining_until,
                   stopped_by, ready, visits_until_poll, feed_waiting>>

Received(l) ==
    /\ Running /\ leaf[l].live /\ peer > 0
    /\ peer' = peer - 1
    /\ leaf' = [leaf EXCEPT ![l].staged = TRUE, ![l].arrived = @ \cup {"readable"}]
    /\ completions' = Push(completions, l)
    /\ UNCHANGED <<gateVars, channel, control, loopVars, backlog, draining_until,
                   stopped_by, ready, visits_until_poll, feed_waiting>>
-----------------------------------------------------------------------------
(* Backend queues. *)

\* Pushing the keys of seq one after another.
PushAll(queue, seq) == queue \o SelectSeq(seq, LAMBDA l : l \notin Range(queue))

\* remove_leaf_socket: the leaf leaves the arena and every queue.
Without(queue, gone) == SelectSeq(queue, LAMBDA l : l \notin gone)

Closed(lf, gone) == [l \in Leaves |-> IF l \in gone THEN NoLeaf ELSE lf[l]]

CloseLeaves(gone) ==
    /\ leaf' = Closed(leaf, gone)
    /\ ready' = Without(ready, gone)
    /\ feed_waiting' = Without(feed_waiting, gone)

\* enqueue_feed_waiting_leaves
EnqueueFeedWaiting ==
    /\ ready' = PushAll(ready, SelectSeq(feed_waiting,
                                         LAMBDA l : leaf[l].live /\ leaf[l].wants_feed_wake))
    /\ feed_waiting' = <<>>

\* begin_graceful_close: a leaf with nothing queued closes at once, any
\* other is marked draining and closes once a visit finds it flushed.
GracefulClose(outputs) ==
    LET idle == {l \in outputs : leaf[l].live /\ ~leaf[l].pending_bytes}
    IN  /\ leaf' = [l \in Leaves |->
                      IF l \in idle THEN NoLeaf
                      ELSE [leaf[l] EXCEPT !.draining = @ \/ (l \in outputs /\ leaf[l].live)]]
        /\ ready' = Without(ready, idle)
        /\ feed_waiting' = Without(feed_waiting, idle)

\* apply_effect(ScheduleReady), bounded by the backlog's capacity.
Schedule(n) == IF n < Capacity THEN n + 1 ELSE n
-----------------------------------------------------------------------------
(* MediaPublisher::advance, as the set of ways a visit can end.  A visit    *)
(* writes what the engine holds, then reads the control channel, then takes *)
(* units from the feed, until something stops it.                           *)

CanWrite(f) == "writable" \in f.readiness
StagedAfterRead(f) == f.staged /\ "readable" \notin f.readiness
Retains(f) == head - f.cursor <= Retained

\* What a visit may have read by the time it stops holding a unit: nothing,
\* or (once the unit it came with is written) units of the feed or replies.
Held(f) ==
    (IF f.unsent THEN {[cursor |-> f.cursor, staged |-> f.staged]} ELSE {})
    \cup (IF f.unsent => CanWrite(f)
          THEN {[cursor |-> c, staged |-> StagedAfterRead(f)] :
                  c \in {c \in f.cursor .. head :
                           IF c = f.cursor THEN f.staged /\ "readable" \in f.readiness
                           ELSE Retains(f)}}
          ELSE {})

\* ... and whether bytes went to the transport on the way.
Stops(f) ==
    {x \in {[cursor |-> h.cursor, staged |-> h.staged, moved |-> m] :
               h \in Held(f), m \in BOOLEAN} :
       /\ x.moved => CanWrite(f)
       /\ f.unsent /\ (x.cursor # f.cursor \/ x.staged # f.staged) => x.moved}

\* No write readiness, a partial write or WouldBlock (bytes in flight).
Blocked(f) ==
    {[f |-> [f EXCEPT !.cursor = x.cursor, !.staged = x.staged, !.unsent = TRUE,
                      !.inflight = @ \/ x.moved, !.wants_feed_wake = FALSE],
      writable |-> TRUE, moved |-> x.moved, again |-> FALSE] :
        x \in {x \in Stops(f) : CanWrite(f) /\ ~x.moved => f.inflight}}

\* The work budget ran out after some work.
Exhausted(f) ==
    {[f |-> [f EXCEPT !.cursor = x.cursor, !.staged = x.staged, !.unsent = held,
                      !.inflight = @ \/ x.moved, !.wants_feed_wake = TRUE],
      writable |-> TRUE, moved |-> x.moved, again |-> FALSE] :
        x \in {x \in Stops(f) : x.moved}, held \in BOOLEAN}
    \cup {[f |-> [f EXCEPT !.cursor = x.cursor, !.staged = x.staged, !.unsent = TRUE,
                           !.wants_feed_wake = TRUE],
           writable |-> TRUE, moved |-> FALSE, again |-> FALSE] :
             x \in {x \in Stops(f) : ~x.moved /\ x.cursor > f.cursor}}

\* Everything written and the feed empty.
Drained(f) ==
    LET work == f.unsent \/ f.cursor < head
    IN  IF (work => CanWrite(f)) /\ Retains(f)
        THEN {[f |-> [f EXCEPT !.cursor = head, !.staged = StagedAfterRead(f),
                               !.unsent = FALSE, !.inflight = @ \/ moved,
                               !.wants_feed_wake = TRUE],
               writable |-> FALSE, moved |-> moved, again |-> FALSE] :
                 moved \in {m \in BOOLEAN :
                    /\ work => m
                    /\ m => work \/ (CanWrite(f) /\ f.staged /\ "readable" \in f.readiness)}}
        ELSE {}

\* The producer lapped the leaf: visit_leaf re-anchors it in place.
Overrun(f) ==
    IF ~Retains(f) /\ (f.unsent => CanWrite(f))
    THEN {[f |-> [f EXCEPT !.cursor = c, !.staged = StagedAfterRead(f), !.unsent = FALSE,
                           !.inflight = @ \/ f.unsent, !.wants_feed_wake = FALSE],
           writable |-> FALSE, moved |-> TRUE, again |-> TRUE] :
             c \in head - Retained .. head}
    ELSE {}

Advance(f) == Blocked(f) \cup Exhausted(f) \cup Drained(f) \cup Overrun(f)

\* Mutant: no local visit for a write-wanting leaf with nothing in flight.
FollowupReadOnly(o) ==
    IF o.again THEN Directions ELSE {d \in {"readable"} : o.f.staged}

\* Mutant: no local visit for staged receive bytes.
FollowupWriteOnly(o) ==
    IF o.again THEN Directions ELSE {d \in {"writable"} : o.writable /\ ~o.f.inflight}

\* local_followup_visit
Followup(o) ==
    IF o.again THEN Directions
    ELSE {d \in Directions : \/ d = "writable" /\ o.writable /\ ~o.f.inflight
                             \/ d = "readable" /\ o.f.staged}
-----------------------------------------------------------------------------
(* RtmpShardBackend::on_ready: reap completions when the ready round is     *)
(* over, visit one leaf, and report whether another pass is wanted.         *)

PolledReady == PushAll(ready, SelectSeq(completions, LAMBDA l : leaf[l].live))

PolledLeaf == [l \in Leaves |-> [leaf[l] EXCEPT !.readiness = @ \cup leaf[l].arrived,
                                               !.arrived = {}]]

\* A visit that ends wanting the feed parks the leaf, progress or not.
Park(o, l) == IF o.f.wants_feed_wake THEN Push(feed_waiting, l) ELSE feed_waiting

\* Mutant: another pass only when this leaf moved.
WantsMoreSelf(moved, queue) == moved

\* on_ready asks for another pass while the leaf moved or others are queued.
WantsMore(moved, queue) == moved \/ queue # <<>>

\* visit_one_ready_leaf on the head of queue q, with leaves lf.
VisitOne(q, lf, more) ==
    LET l == Head(q)
        rest == Tail(q)
        close(gone) == /\ leaf' = Closed(lf, gone)
                       /\ ready' = Without(rest, gone)
                       /\ feed_waiting' = Without(feed_waiting, gone)
                       /\ more = WantsMore(FALSE, ready')
    IN  \/ \E o \in Advance(lf[l]) :
             LET follow == Followup(o)
                 pending_bytes == o.f.unsent \/ o.f.inflight
                 next == [o.f EXCEPT !.readiness = follow, !.pending_bytes = pending_bytes]
             IN  \/ /\ ~(next.draining /\ ~pending_bytes)
                    /\ leaf' = [lf EXCEPT ![l] = next]
                    /\ ready' = IF follow = {} THEN rest ELSE Push(rest, l)
                    /\ feed_waiting' = Park(o, l)
                    /\ more = WantsMore(o.moved, ready')
                 \/ /\ next.draining             \* flushed, or past its deadline
                    /\ close({l})
        \/ close({l})                            \* PeerClosed, Failed

OnReady(more) ==
    LET poll == ready = <<>> \/ visits_until_poll = 0
        q == IF poll THEN PolledReady ELSE ready
        lf == IF poll THEN PolledLeaf ELSE leaf
        round == IF ~poll THEN visits_until_poll ELSE IF q = <<>> THEN 1 ELSE Len(q)
    IN  /\ completions' = IF poll THEN <<>> ELSE completions
        /\ visits_until_poll' = round - 1
        /\ IF q = <<>>
           THEN more = FALSE /\ ready' = q /\ leaf' = lf /\ UNCHANGED feed_waiting
           ELSE VisitOne(q, lf, more)

-----------------------------------------------------------------------------
(* The shard loop: EgressShardRuntime::run. *)

\* process_command and apply_effect.
ProcessCommand(c) ==
    /\ IF c = FeedWake
       THEN /\ pending' = FALSE
            /\ EnqueueFeedWaiting
            /\ backlog' = Schedule(backlog)
            /\ UNCHANGED <<leaf, draining_until>>
       ELSE /\ IF c = Shutdown
               THEN /\ draining_until' = TRUE
                    /\ IF draining_until
                       THEN UNCHANGED <<leaf, ready, feed_waiting>>
                       ELSE GracefulClose(Leaves)
               ELSE /\ IF c = DrainOther
                       THEN UNCHANGED <<leaf, ready, feed_waiting>>
                       ELSE GracefulClose({c.output})
                    /\ UNCHANGED draining_until
            /\ UNCHANGED <<pending, backlog>>
    /\ UNCHANGED <<visits_until_poll, completions>>

\* process_command_batch
RecvCommand ==
    /\ pc = "commands" /\ processed < CommandBudget /\ channel # <<>>
    /\ channel' = Tail(channel)
    /\ processed' = processed + 1
    /\ ProcessCommand(Head(channel))
    /\ UNCHANGED <<full_retry, wake, head, control, peer, pc, visited, stopped_by>>

EndCommands ==
    /\ pc = "commands" /\ (processed = CommandBudget \/ channel = <<>>)
    /\ pc' = "ready"
    /\ UNCHANGED <<gateVars, channel, control, peer, processed, visited, backlog,
                   draining_until, stopped_by, backendVars>>

\* process_ready_batch, before the park ("ready") or after it ("woken").
ReadyVisit ==
    /\ pc \in {"ready", "woken"} /\ visited < ReadyBudget /\ backlog > 0
    /\ visited' = visited + 1
    /\ \E more \in BOOLEAN :
         /\ OnReady(more)
         /\ backlog' = IF more THEN Schedule(backlog - 1) ELSE backlog - 1
    /\ UNCHANGED <<gateVars, channel, control, peer, pc, processed, draining_until, stopped_by>>

ReadyDone == visited = ReadyBudget \/ backlog = 0
Nothing == processed = 0 /\ visited = 0

EndReady ==
    /\ pc = "ready" /\ ReadyDone
    /\ pc' = IF Nothing THEN "idle" ELSE "retry"
    /\ UNCHANGED <<gateVars, channel, control, peer, processed, visited, backlog,
                   draining_until, stopped_by, backendVars>>

\* wait_for_activity: a command, a completion, or the bounded wait's end.
WakeByCommand ==
    /\ pc = "idle" /\ channel # <<>>
    /\ channel' = Tail(channel)
    /\ processed' = 1
    /\ ProcessCommand(Head(channel))
    /\ pc' = "woken"
    /\ UNCHANGED <<full_retry, wake, head, control, peer, visited, stopped_by>>

WakeByCompletion ==
    /\ pc = "idle" /\ completions # <<>>
    /\ backlog' = Schedule(backlog)
    /\ pc' = "woken"
    /\ UNCHANGED <<gateVars, channel, control, peer, processed, visited, draining_until,
                   stopped_by, backendVars>>

WakeByTimeout ==
    /\ pc = "idle"
    /\ pc' = "woken"
    /\ UNCHANGED <<gateVars, channel, control, peer, processed, visited, backlog,
                   draining_until, stopped_by, backendVars>>

EndWoken ==
    /\ pc = "woken" /\ ReadyDone /\ ~Nothing
    /\ pc' = "retry"
    /\ UNCHANGED <<gateVars, channel, control, peer, processed, visited, backlog,
                   draining_until, stopped_by, backendVars>>

\* Nothing at all this iteration: one poll, and a draining shard with
\* nothing found stops after this iteration.
IdlePoll ==
    /\ pc = "woken" /\ ReadyDone /\ Nothing
    /\ \E more \in BOOLEAN :
         /\ OnReady(more)
         /\ backlog' = IF more THEN Schedule(backlog) ELSE backlog
         /\ stopped_by' = IF draining_until /\ ~more THEN "idle" ELSE stopped_by
    /\ pc' = "retry"
    /\ UNCHANGED <<gateVars, channel, control, peer, processed, visited, draining_until>>

\* Mutant: servicing the retry bit also clears a queued wake's gate.
FullDeliveryTakes ==
    /\ pc = "retry"
    /\ full_retry' = FALSE
    /\ pending' = IF full_retry THEN FALSE ELSE pending
    /\ IF full_retry
       THEN EnqueueFeedWaiting /\ backlog' = Schedule(backlog)
       ELSE UNCHANGED <<ready, feed_waiting, backlog>>
    /\ pc' = "tick"
    /\ UNCHANGED <<wake, head, channel, control, peer, processed, visited,
                   draining_until, stopped_by, leaf, visits_until_poll, completions>>

\* The end of an iteration: take_full_delivery, then on_media_tick, whose
\* stall sweep may close a leaf with bytes pending or a drained one.
FullDelivery ==
    /\ pc = "retry"
    /\ full_retry' = FALSE
    /\ IF full_retry
       THEN EnqueueFeedWaiting /\ backlog' = Schedule(backlog)
       ELSE UNCHANGED <<ready, feed_waiting, backlog>>
    /\ pc' = "tick"
    /\ UNCHANGED <<pending, wake, head, channel, control, peer, processed, visited,
                   draining_until, stopped_by, leaf, visits_until_poll, completions>>

MediaTick ==
    /\ pc = "tick"
    /\ \E gone \in SUBSET {l \in Leaves : leaf[l].live /\ (leaf[l].pending_bytes \/ leaf[l].draining)} :
         CloseLeaves(gone)
    /\ processed' = 0 /\ visited' = 0
    /\ \/ /\ pc' = IF stopped_by = "idle" THEN "stopped" ELSE "commands"
          /\ UNCHANGED stopped_by
       \/ /\ stopped_by = "none" /\ draining_until
          /\ pc' = "stopped" /\ stopped_by' = "deadline"
    /\ UNCHANGED <<gateVars, channel, control, peer, backlog, draining_until,
                   visits_until_poll, completions>>

ShardStep ==
    \/ RecvCommand \/ EndCommands \/ ReadyVisit \/ EndReady
    \/ WakeByCommand \/ WakeByCompletion \/ WakeByTimeout
    \/ EndWoken \/ IdlePoll \/ FullDelivery \/ MediaTick

Deliver(p) == Notify(p) \/ Send(p) \/ RecordFull(p)

Next ==
    \/ Publish
    \/ \E p \in Wakers : Subscribe(p) \/ Deliver(p)
    \/ \E c \in ControlCommands : Dispatch(c)
    \/ \E l \in Leaves : TransmitDone(l) \/ Received(l)
    \/ ShardStep

Spec == Init /\ [][Next]_vars

\* Fairness: the shard thread and each waker keep running, the kernel
\* completes every transmit, and a leaf that is visited again and again is
\* not stopped for ever by partial writes of one unit or by control traffic
\* alone.
Writes(l) == (ReadyVisit \/ IdlePoll) /\ leaf[l].unsent /\ ~leaf'[l].unsent
Reads(l) == (ReadyVisit \/ IdlePoll) /\ leaf'[l].cursor > leaf[l].cursor

FairSpec ==
    /\ Spec
    /\ WF_vars(ShardStep)
    /\ \A p \in Wakers : WF_vars(Deliver(p))
    /\ \A l \in Leaves : WF_vars(TransmitDone(l)) /\ SF_vars(Writes(l)) /\ SF_vars(Reads(l))
-----------------------------------------------------------------------------
(* Properties. *)

TypeOK ==
    /\ head \in 0 .. MaxHead /\ pending \in BOOLEAN /\ full_retry \in BOOLEAN
    /\ wake \in [Wakers -> {"idle", "notify", "send", "full", "retry"}]
    /\ channel \in Seq(ControlCommands \cup {FeedWake}) /\ Len(channel) <= CommandCapacity
    /\ control \in 0 .. MaxControl /\ peer \in 0 .. MaxReceived
    /\ pc \in {"commands", "ready", "idle", "woken", "retry", "tick", "stopped"}
    /\ processed \in 0 .. CommandBudget /\ visited \in 0 .. ReadyBudget
    /\ backlog \in 0 .. Capacity
    /\ draining_until \in BOOLEAN /\ stopped_by \in {"none", "idle", "deadline"}
    /\ ready \in Seq(Leaves) /\ feed_waiting \in Seq(Leaves) /\ completions \in Seq(Leaves)
    /\ visits_until_poll \in Nat
    /\ leaf \in [Leaves -> Leaf]

Queued == \E i \in DOMAIN channel : channel[i] = FeedWake

\* FeedWakeHandle::deliver: "at most one wake is in flight per shard": the
\* queued FeedWakes and the wakers about to queue one never exceed one, so
\* wakes can never crowd control commands out of the bounded channel.
OneWakeInFlight ==
    Cardinality({i \in DOMAIN channel : channel[i] = FeedWake})
      + Cardinality({p \in Wakers : wake[p] \in {"send", "full"}}) <= 1

\* A set gate always has an owner that will clear it: a queued wake or a
\* waker between its swap and its send.  An ownerless pending bit would
\* coalesce every later publication into a wake that never comes.
PendingIsOwned ==
    Running /\ pending => Queued \/ \E p \in Wakers : wake[p] \in {"send", "full"}

WakeComing == Queued \/ full_retry \/ \E p \in Wakers : wake[p] # "idle"

\* No lost wake: a leaf with media to read or bytes to write is queued for
\* a visit, has a transmit whose completion will queue it, or has a feed
\* wake on its way, whatever the interleaving of wakers, completions,
\* commands and visits.
NoStrandedLeaf ==
    \A l \in Leaves :
        Running /\ leaf[l].live /\ (leaf[l].unsent \/ leaf[l].cursor < head) =>
            \/ l \in Range(ready)
            \/ leaf[l].inflight \/ "writable" \in leaf[l].arrived
            \/ ~leaf[l].unsent /\ WakeComing

\* Staged peer bytes (or the peer's close) are never forgotten: their
\* completion is unreaped, or the leaf is queued with read readiness.
StagedIsSeen ==
    \A l \in Leaves :
        Running /\ leaf[l].live /\ leaf[l].staged =>
            \/ "readable" \in leaf[l].arrived
            \/ l \in Range(ready) /\ "readable" \in leaf[l].readiness

\* The shard parks only with an empty ready queue: every queued leaf has an
\* on_ready call owed to it.
ReadyIsBacked == Running /\ ready # <<>> => backlog > 0

\* Every published packet is eventually read by (or skipped past by) every
\* leaf that stays open on a running shard.
CatchesUp ==
    \A l \in Leaves, n \in 1 .. MaxHead :
        head >= n ~> (leaf[l].cursor >= n \/ ~leaf[l].live \/ ~Running)
=============================================================================
