-------------------------- MODULE EgressShardProofs --------------------------
(***************************************************************************)
(* The wake gate's protocol, for any number of wakers and any channel      *)
(* capacity: the pending bit is set exactly while one wake is in flight,   *)
(* and never more than one is.                                             *)
(***************************************************************************)
EXTENDS EgressShard, FiniteSetTheorems, TLAPS

\* A waker between its clear-to-set swap and the end of its send.
Sending(p) == wake[p] \in {"send", "full"}

IsWake(i) == channel[i] = FeedWake

GateTypes ==
    /\ pending \in BOOLEAN
    /\ wake \in [Wakers -> {"idle", "notify", "send", "full", "retry"}]
    /\ channel \in Seq(ControlCommands \cup {FeedWake})

\* The wakes in flight are at most one: one sender or one queued command.
Unique ==
    /\ \A p, q \in Wakers : Sending(p) /\ Sending(q) => p = q
    /\ \A i, j \in DOMAIN channel : IsWake(i) /\ IsWake(j) => i = j
    /\ \A p \in Wakers, i \in DOMAIN channel : ~(Sending(p) /\ IsWake(i))

\* The gate is set exactly while a wake is in flight.
Exact == pending <=> Queued \/ \E p \in Wakers : Sending(p)

GateInv == GateTypes /\ Unique /\ Exact
-----------------------------------------------------------------------------
\* Control commands are not feed wakes.
LEMMA ControlIsNotWake == \A c \in ControlCommands : c # FeedWake
<1>1. Shutdown # FeedWake /\ DrainOther # FeedWake
  BY DEF Shutdown, DrainOther, FeedWake
<1>2. ASSUME NEW l \in Leaves PROVE RemoveOutput(l) # FeedWake
  <2>1. RemoveOutput(l).type = "Remove" /\ FeedWake.type = "FeedWake"
    BY DEF RemoveOutput, FeedWake
  <2> QED BY <2>1
<1> QED BY <1>1, <1>2 DEF ControlCommands

LEMMA GateInit == Init => GateInv
<1> SUFFICES ASSUME Init PROVE GateInv
  OBVIOUS
<1>1. GateTypes
  <2>1. pending = FALSE /\ wake = [p \in Wakers |-> "idle"] /\ channel = <<>>
    BY DEF Init
  <2>2. channel \in Seq(ControlCommands \cup {FeedWake})
    BY <2>1
  <2>3. pending \in BOOLEAN /\ wake \in [Wakers -> {"idle", "notify", "send", "full", "retry"}]
    BY <2>1
  <2> QED BY <2>2, <2>3 DEF GateTypes
<1>2. Unique
  BY DEF Init, Unique, Sending, IsWake
<1>3. Exact
  BY DEF Init, Exact, Sending, Queued
<1> QED BY <1>1, <1>2, <1>3 DEF GateInv

\* What a step that appends command c does to the wakes in the channel.
LEMMA Appended ==
    ASSUME NEW c, channel \in Seq(ControlCommands \cup {FeedWake}),
           c \in ControlCommands \cup {FeedWake}, channel' = Append(channel, c)
    PROVE  /\ channel' \in Seq(ControlCommands \cup {FeedWake})
           /\ DOMAIN channel' = DOMAIN channel \cup {Len(channel) + 1}
           /\ Len(channel) + 1 \notin DOMAIN channel
           /\ \A i \in DOMAIN channel : channel'[i] = channel[i]
           /\ channel'[Len(channel) + 1] = c
  OBVIOUS

\* What a step that takes the oldest command does to the wakes behind it.
LEMMA Taken ==
    ASSUME channel \in Seq(ControlCommands \cup {FeedWake}), channel # <<>>,
           channel' = Tail(channel)
    PROVE  /\ channel' \in Seq(ControlCommands \cup {FeedWake})
           /\ \A i \in DOMAIN channel' : i + 1 \in DOMAIN channel /\ i \in Nat
                                         /\ channel'[i] = channel[i + 1]
           /\ \A i \in DOMAIN channel : i \in Nat /\ (i = 1 \/ (i - 1 \in DOMAIN channel'
                                                     /\ channel'[i - 1] = channel[i]))
           /\ 1 \in DOMAIN channel /\ channel[1] = Head(channel)
  OBVIOUS

\* A step that leaves the gate, the wakers' positions and the channel alone.
LEMMA Quiet == GateInv /\ UNCHANGED <<pending, wake, channel>> => GateInv'
<1> SUFFICES ASSUME GateInv, UNCHANGED <<pending, wake, channel>> PROVE GateInv'
  OBVIOUS
<1>1. pending' = pending /\ wake' = wake /\ channel' = channel
  OBVIOUS
<1> QED BY <1>1 DEF GateInv, GateTypes, Unique, Exact, Sending, IsWake, Queued

\* A waker that moves between positions outside the send window.
LEMMA MoveOutside ==
    ASSUME GateInv, NEW p \in Wakers, NEW to \in {"idle", "notify"},
           ~Sending(p), wake' = [wake EXCEPT ![p] = to],
           UNCHANGED <<pending, channel>>
    PROVE  GateInv'
<1>1. pending' = pending /\ channel' = channel
  OBVIOUS
<1>2. /\ \A q \in Wakers : Sending(q)' <=> Sending(q)
      /\ wake' \in [Wakers -> {"idle", "notify", "send", "full", "retry"}]
  BY DEF GateInv, GateTypes, Sending
<1>3. GateTypes'
  BY <1>1, <1>2 DEF GateInv, GateTypes
<1>4. Unique'
  BY <1>1, <1>2 DEF GateInv, Unique, IsWake
<1>5. Exact'
  BY <1>1, <1>2 DEF GateInv, Exact, Queued
<1> QED BY <1>3, <1>4, <1>5 DEF GateInv

LEMMA NotifyStep == ASSUME GateInv, NEW p \in Wakers, Notify(p) PROVE GateInv'
<1>1. wake[p] = "notify" /\ pending' = TRUE /\ channel' = channel
  BY DEF Notify
<1>2. ~Sending(p)
  BY <1>1 DEF Sending
<1>3. CASE pending
  <2>1. wake' = [wake EXCEPT ![p] = "idle"] /\ pending' = pending
    BY <1>1, <1>3 DEF Notify, GateInv, GateTypes
  <2> QED BY <1>1, <1>2, <2>1, MoveOutside
<1>4. CASE ~pending
  <2>1. wake' = [wake EXCEPT ![p] = "send"]
    BY <1>4 DEF Notify
  <2>2. ~Queued /\ \A q \in Wakers : ~Sending(q)
    BY <1>4 DEF GateInv, Exact
  <2>3. /\ wake' \in [Wakers -> {"idle", "notify", "send", "full", "retry"}]
        /\ \A q \in Wakers : Sending(q)' <=> q = p
    BY <2>1, <2>2 DEF GateInv, GateTypes, Sending
  <2>4. GateTypes'
    BY <1>1, <2>3 DEF GateInv, GateTypes
  <2>5. Unique'
    BY <1>1, <2>2, <2>3 DEF Unique, IsWake, Queued
  <2>6. Exact'
    BY <1>1, <2>3 DEF Exact
  <2> QED BY <2>4, <2>5, <2>6 DEF GateInv
<1> QED BY <1>3, <1>4

LEMMA SendStep == ASSUME GateInv, NEW p \in Wakers, Send(p) PROVE GateInv'
<1>1. wake[p] = "send" /\ Sending(p)
  BY DEF Send, Sending
<1>2. \A q \in Wakers : Sending(q) <=> q = p
  BY <1>1 DEF GateInv, Unique
<1>3. ~Queued
  BY <1>1 DEF GateInv, Unique, Queued, IsWake
<1>4. pending = TRUE
  BY <1>1 DEF GateInv, GateTypes, Exact
<1>5. CASE channel' = Append(channel, FeedWake) /\ wake' = [wake EXCEPT ![p] = "idle"]
           /\ pending' = pending
  <2>1. channel \in Seq(ControlCommands \cup {FeedWake})
    BY DEF GateInv, GateTypes
  <2>2. /\ channel' \in Seq(ControlCommands \cup {FeedWake})
        /\ DOMAIN channel' = DOMAIN channel \cup {Len(channel) + 1}
        /\ \A i \in DOMAIN channel : channel'[i] = channel[i]
        /\ channel'[Len(channel) + 1] = FeedWake
    BY <1>5, <2>1, Appended
  <2>3. \A i \in DOMAIN channel' : IsWake(i)' <=> i = Len(channel) + 1
    BY <1>3, <2>2 DEF IsWake, Queued
  <2>4. /\ wake' \in [Wakers -> {"idle", "notify", "send", "full", "retry"}]
        /\ \A q \in Wakers : ~Sending(q)'
    BY <1>2, <1>5 DEF GateInv, GateTypes, Sending
  <2>5. GateTypes'
    BY <1>5, <2>2, <2>4 DEF GateInv, GateTypes
  <2>6. Unique'
    BY <2>3, <2>4 DEF Unique
  <2>7. Queued'
    BY <2>2, <2>3 DEF Queued, IsWake
  <2>8. Exact'
    BY <1>4, <1>5, <2>7 DEF Exact
  <2> QED BY <2>5, <2>6, <2>8 DEF GateInv
<1>6. CASE wake' = [wake EXCEPT ![p] = "full"] /\ channel' = channel /\ pending' = pending
  <2>1. /\ wake' \in [Wakers -> {"idle", "notify", "send", "full", "retry"}]
        /\ \A q \in Wakers : Sending(q)' <=> q = p
    BY <1>2, <1>6 DEF GateInv, GateTypes, Sending
  <2>2. GateTypes'
    BY <1>6, <2>1 DEF GateInv, GateTypes
  <2>3. Unique'
    BY <1>3, <1>6, <2>1 DEF Unique, IsWake, Queued
  <2>4. Exact'
    BY <1>4, <1>6, <2>1 DEF Exact
  <2> QED BY <2>2, <2>3, <2>4 DEF GateInv
<1>7. CASE pending' = FALSE /\ wake' = [wake EXCEPT ![p] = "idle"] /\ channel' = channel
  <2>1. /\ wake' \in [Wakers -> {"idle", "notify", "send", "full", "retry"}]
        /\ \A q \in Wakers : ~Sending(q)'
    BY <1>2, <1>7 DEF GateInv, GateTypes, Sending
  <2>2. GateTypes'
    BY <1>7, <2>1 DEF GateInv, GateTypes
  <2>3. Unique'
    BY <1>7, <2>1 DEF GateInv, Unique, IsWake
  <2>4. Exact'
    BY <1>3, <1>7, <2>1 DEF Exact, Queued
  <2> QED BY <2>2, <2>3, <2>4 DEF GateInv
<1> QED BY <1>5, <1>6, <1>7 DEF Send

LEMMA RecordFullStep == ASSUME GateInv, NEW p \in Wakers, RecordFull(p) PROVE GateInv'
<1>1. channel' = channel
  BY DEF RecordFull
<1>2. CASE wake[p] = "full" /\ pending' = FALSE /\ wake' = [wake EXCEPT ![p] = "retry"]
  <2>1. Sending(p)
    BY <1>2 DEF Sending
  <2>2. (\A q \in Wakers : Sending(q) <=> q = p) /\ ~Queued
    BY <2>1 DEF GateInv, Unique, Queued, IsWake
  <2>3. /\ wake' \in [Wakers -> {"idle", "notify", "send", "full", "retry"}]
        /\ \A q \in Wakers : ~Sending(q)'
    BY <1>2, <2>2 DEF GateInv, GateTypes, Sending
  <2>4. GateTypes'
    BY <1>1, <1>2, <2>3 DEF GateInv, GateTypes
  <2>5. Unique'
    BY <1>1, <2>3 DEF GateInv, Unique, IsWake
  <2>6. Exact'
    BY <1>1, <1>2, <2>2, <2>3 DEF Exact, Queued
  <2> QED BY <2>4, <2>5, <2>6 DEF GateInv
<1>3. CASE wake[p] = "retry" /\ pending' = pending /\ wake' = [wake EXCEPT ![p] = "idle"]
  <2>1. ~Sending(p)
    BY <1>3 DEF Sending
  <2> QED BY <1>1, <1>3, <2>1, MoveOutside
<1> QED BY <1>2, <1>3 DEF RecordFull

LEMMA DispatchStep == ASSUME GateInv, NEW c \in ControlCommands, Dispatch(c) PROVE GateInv'
<1>1. pending' = pending /\ wake' = wake /\ channel' = Append(channel, c)
  BY DEF Dispatch, gateVars
<1>2. channel \in Seq(ControlCommands \cup {FeedWake})
  BY DEF GateInv, GateTypes
<1>3. /\ channel' \in Seq(ControlCommands \cup {FeedWake})
      /\ DOMAIN channel' = DOMAIN channel \cup {Len(channel) + 1}
      /\ \A i \in DOMAIN channel : channel'[i] = channel[i]
      /\ channel'[Len(channel) + 1] = c
  BY <1>1, <1>2, Appended
<1>4. c # FeedWake
  BY ControlIsNotWake
<1>5. \A i \in DOMAIN channel' : IsWake(i)' <=> i \in DOMAIN channel /\ IsWake(i)
  BY <1>3, <1>4 DEF IsWake
<1>6. GateTypes'
  BY <1>1, <1>3 DEF GateInv, GateTypes
<1>7. Unique'
  BY <1>1, <1>5 DEF GateInv, Unique, Sending
<1>8. Queued' <=> Queued
  BY <1>3, <1>5 DEF Queued, IsWake
<1>9. Exact'
  BY <1>1, <1>8 DEF GateInv, Exact, Sending
<1> QED BY <1>6, <1>7, <1>9 DEF GateInv

\* The shard takes the oldest command: a feed wake clears the gate, and was
\* the only one.
LEMMA TakeStep ==
    ASSUME GateInv, channel # <<>>, channel' = Tail(channel), wake' = wake,
           pending' = IF Head(channel) = FeedWake THEN FALSE ELSE pending
    PROVE  GateInv'
<1>1. channel \in Seq(ControlCommands \cup {FeedWake})
  BY DEF GateInv, GateTypes
<1>2. /\ channel' \in Seq(ControlCommands \cup {FeedWake})
      /\ \A i \in DOMAIN channel' : i + 1 \in DOMAIN channel /\ i \in Nat
                                    /\ channel'[i] = channel[i + 1]
      /\ \A i \in DOMAIN channel : i \in Nat /\ (i = 1 \/ (i - 1 \in DOMAIN channel'
                                                /\ channel'[i - 1] = channel[i]))
      /\ 1 \in DOMAIN channel /\ channel[1] = Head(channel)
  BY <1>1, Taken
<1>3. \A i \in DOMAIN channel' : i + 1 \in DOMAIN channel /\ i \in Nat
                                 /\ (IsWake(i)' <=> IsWake(i + 1))
  BY <1>2 DEF IsWake
<1>4. GateTypes'
  BY <1>2 DEF GateInv, GateTypes
<1>5. Unique'
  <2>1. ASSUME NEW i \in DOMAIN channel', NEW j \in DOMAIN channel', IsWake(i)', IsWake(j)'
        PROVE  i = j
    <3>1. i + 1 = j + 1 /\ i \in Nat /\ j \in Nat
      BY <1>3, <2>1 DEF GateInv, Unique
    <3> QED BY <3>1
  <2>2. ASSUME NEW q \in Wakers, NEW i \in DOMAIN channel' PROVE ~(Sending(q)' /\ IsWake(i)')
    BY <1>3 DEF GateInv, Unique, Sending
  <2>3. \A q, r \in Wakers : Sending(q)' /\ Sending(r)' => q = r
    BY DEF GateInv, Unique, Sending
  <2> QED BY <2>1, <2>2, <2>3 DEF Unique
<1>6. CASE Head(channel) = FeedWake
  <2>1. IsWake(1)
    BY <1>2, <1>6 DEF IsWake
  <2>2. \A i \in DOMAIN channel' : ~IsWake(i)'
    <3> SUFFICES ASSUME NEW i \in DOMAIN channel', IsWake(i)' PROVE FALSE
      OBVIOUS
    <3>1. i + 1 = 1
      BY <1>2, <1>3, <2>1 DEF GateInv, Unique
    <3>2. i \in Nat /\ i # 0
      BY <1>2
    <3> QED BY <3>1, <3>2
  <2>3. \A q \in Wakers : ~Sending(q)'
    BY <1>2, <2>1 DEF GateInv, Unique, Sending
  <2>4. pending' = FALSE
    BY <1>6
  <2>5. Exact'
    BY <2>2, <2>3, <2>4 DEF Exact, Queued, IsWake
  <2> QED BY <1>4, <1>5, <2>5 DEF GateInv
<1>7. CASE Head(channel) # FeedWake
  <2>1. pending' = pending
    BY <1>7
  <2>2. Queued' => Queued
    BY <1>2 DEF Queued
  <2>3. Queued => Queued'
    <3> SUFFICES ASSUME NEW i \in DOMAIN channel, channel[i] = FeedWake PROVE Queued'
      BY DEF Queued
    <3>1. i # 1
      BY <1>2, <1>7
    <3>2. i - 1 \in DOMAIN channel' /\ channel'[i - 1] = FeedWake
      BY <1>2, <3>1
    <3> QED BY <3>2 DEF Queued
  <2>4. \A q \in Wakers : Sending(q)' <=> Sending(q)
    BY DEF Sending
  <2>5. Exact
    BY DEF GateInv
  <2>6. Exact'
    BY <2>1, <2>2, <2>3, <2>4, <2>5 DEF Exact
  <2> QED BY <1>4, <1>5, <2>6 DEF GateInv
<1> QED BY <1>6, <1>7
-----------------------------------------------------------------------------
\* Every step keeps the gate's invariant.
LEMMA GateStep == GateInv /\ [Next]_vars => GateInv'
<1> SUFFICES ASSUME GateInv, [Next]_vars PROVE GateInv'
  OBVIOUS
<1>1. CASE Publish
  <2>1. ~Sending(Producer) /\ Producer \in Wakers
    BY <1>1, ShardConstants DEF Publish, Sending
  <2> QED BY <1>1, <2>1, MoveOutside DEF Publish
<1>2. ASSUME NEW p \in Wakers, Subscribe(p) PROVE GateInv'
  <2>1. ~Sending(p)
    BY <1>2 DEF Subscribe, Sending
  <2> QED BY <1>2, <2>1, MoveOutside DEF Subscribe
<1>3. ASSUME NEW p \in Wakers, Deliver(p) PROVE GateInv'
  BY <1>3, NotifyStep, SendStep, RecordFullStep DEF Deliver
<1>4. ASSUME NEW c \in ControlCommands, Dispatch(c) PROVE GateInv'
  BY <1>4, DispatchStep
<1>5. ASSUME NEW l \in Leaves, TransmitDone(l) \/ Received(l) PROVE GateInv'
  BY <1>5, Quiet DEF TransmitDone, Received, gateVars
<1>6. CASE RecvCommand \/ WakeByCommand
  <2>1. /\ channel # <<>> /\ channel' = Tail(channel) /\ wake' = wake
        /\ ProcessCommand(Head(channel))
    BY <1>6 DEF RecvCommand, WakeByCommand
  <2>2. pending' = IF Head(channel) = FeedWake THEN FALSE ELSE pending
    BY <2>1 DEF ProcessCommand
  <2> QED BY <2>1, <2>2, TakeStep
<1>7. CASE EndCommands \/ EndReady \/ EndWoken \/ WakeByCompletion \/ WakeByTimeout
  BY <1>7, Quiet DEF EndCommands, EndReady, EndWoken, WakeByCompletion, WakeByTimeout, gateVars
<1>8. CASE ReadyVisit \/ IdlePoll \/ FullDelivery \/ MediaTick
  <2>1. UNCHANGED <<pending, wake, channel>>
    BY <1>8 DEF ReadyVisit, IdlePoll, FullDelivery, MediaTick, gateVars
  <2> QED BY <2>1, Quiet
<1>9. CASE UNCHANGED vars
  BY <1>9, Quiet DEF vars, gateVars
<1> QED BY <1>1, <1>2, <1>3, <1>4, <1>5, <1>6, <1>7, <1>8, <1>9 DEF Next, ShardStep

\* FeedWakeHandle::deliver and process_command keep the gate exact: the
\* pending bit is set if and only if one wake is in flight.
THEOREM GateInvariant == Spec => []GateInv
<1>1. Init => GateInv
  BY GateInit
<1>2. GateInv /\ [Next]_vars => GateInv'
  BY GateStep
<1> QED BY <1>1, <1>2, PTL DEF Spec

\* A set gate always has a wake in flight that will clear it, however many
\* producers and subscribers race on it.
THEOREM PendingOwned == Spec => []PendingIsOwned
<1>1. GateInv => PendingIsOwned
  BY DEF GateInv, GateTypes, Exact, PendingIsOwned, Sending
<1> QED BY <1>1, GateInvariant, PTL

\* Wakes never crowd the command channel: at most one is queued or about to
\* be, for any number of wakers and any capacity.
THEOREM AtMostOneWake == Spec => []OneWakeInFlight
<1>1. GateInv => OneWakeInFlight
  <2> SUFFICES ASSUME GateInv PROVE OneWakeInFlight
    OBVIOUS
  <2> DEFINE Q == {i \in DOMAIN channel : channel[i] = FeedWake}
             S == {p \in Wakers : wake[p] \in {"send", "full"}}
  <2>1. (Q = {} \/ \E i : Q = {i}) /\ (S = {} \/ \E p : S = {p}) /\ (Q = {} \/ S = {})
    BY DEF GateInv, Unique, Sending, IsWake
  <2>2. Cardinality({}) = 0
    BY FS_EmptySet
  <2>3. \A x : Cardinality({x}) = 1
    BY FS_Singleton
  <2>4. /\ Cardinality(Q) \in {0, 1} /\ Cardinality(S) \in {0, 1}
        /\ (Cardinality(Q) = 0 \/ Cardinality(S) = 0)
    BY <2>1, <2>2, <2>3
  <2>5. Cardinality(Q) + Cardinality(S) <= 1
    BY <2>4
  <2> QED BY <2>5 DEF OneWakeInFlight
<1> QED BY <1>1, GateInvariant, PTL
=============================================================================
