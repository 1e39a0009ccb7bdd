---------------------------- MODULE InputSelection ----------------------------
(***************************************************************************)
(* The inputs of one pipeline and the gate in front of its source ring     *)
(* (engine_ingest.rs, input_gate.rs, standby_gop.rs and the publication     *)
(* loops of the ingest protocols).  Registrations, selections and releases  *)
(* run one at a time under `selection_lock` and wait inside it for packet   *)
(* leases to drain; publishers run on their own threads and only touch      *)
(* their gate, the shared DTS and the ring.                                 *)
(*                                                                          *)
(* An attempt is one registration of an input.  A gate is the packed atomic *)
(* word: its state here, its lease count as Leased(a) (a publisher is one    *)
(* thread).  RTMP's promotion sequence headers, which repeat the     *)
(* last forwarded DTS, and the preview ring are left out.                   *)
(***************************************************************************)
EXTENDS Integers, Sequences, FiniteSets, SequencesExt

CONSTANTS
    Inputs,       \* input ids of the pipeline
    NoInput,      \* no selection
    Protocols,    \* the assignments of publisher kinds to inputs that are explored
    MaxAttempts,  \* bound: registrations
    MaxStale,     \* bound: attempts cancelled or released under their publisher
    MaxRings,     \* bound: ring replacements
    MaxDts,       \* bound: packets per attempt; 0 leaves timestamps out
    MaxBatch,     \* bound: packets per batch
    MaxGop        \* packets StandbyGopCache retains

\* MoQ publishes as SRT does.
Kinds == {"srt", "rtmp", "pipeline", "hls"}

ASSUME SelectionConstants ==
    /\ Inputs # {} /\ NoInput \notin Inputs
    /\ Protocols # {} /\ Protocols \subseteq [Inputs -> Kinds]
    /\ MaxAttempts \in Nat \ {0} /\ MaxBatch \in Nat \ {0} /\ MaxGop \in Nat \ {0}
    /\ MaxStale \in Nat /\ MaxRings \in Nat /\ MaxDts \in Nat

Attempts == 1 .. MaxAttempts

VARIABLES
    sessions,    \* sessions: input -> attempt, 0 when absent
    tokens,      \* cancel_tokens: input -> attempt owning the token, 0 when absent
    cancelled,   \* attempts whose token is cancelled
    selected,    \* selected_inputs of the pipeline
    active,      \* active: the attempt the pipeline reads from, 0 when absent
    op,          \* the operation holding selection_lock
    next_attempt_id,
    input,       \* the input of each registered attempt
    gate,        \* InputPacketGate of each attempt
    pc,          \* its publisher: off, idle, enter, promote, push, replay or ended
    batch,       \* the packets in its hands
    remap,       \* which of them map_packet remaps: none, first or each
    gop,         \* its StandbyGopCache
    clock,       \* its last source timestamp
    offset,      \* its InputTimestampMapper
    held,        \* the ring it publishes to
    ring,        \* the pipeline's current ring
    protocol,    \* publisher kind of each input
    last_dts,    \* last_forwarded_dts; 0 for i64::MIN
    pushed       \* the last batch pushed to a source ring, when timestamps are kept

lockVars == <<sessions, tokens, selected, active, op, next_attempt_id, input>>
publisherVars == <<pc, batch, remap, gop, clock, offset, held>>
mediaVars == <<protocol, last_dts, pushed>>
vars == <<lockVars, cancelled, gate, publisherVars, ring, mediaVars>>

Unlocked == [type |-> "none"]
NothingPushed == [by |-> 0, ring |-> 0, replay |-> FALSE, first |-> 0, last |-> 0]

Init ==
    /\ sessions = [i \in Inputs |-> 0] /\ tokens = [i \in Inputs |-> 0]
    /\ cancelled = {} /\ selected = NoInput /\ active = 0 /\ op = Unlocked
    /\ next_attempt_id = 1
    /\ input = [a \in Attempts |-> NoInput]
    /\ gate = [a \in Attempts |-> "standby"]
    /\ pc = [a \in Attempts |-> "off"]
    /\ batch = [a \in Attempts |-> <<>>] /\ remap = [a \in Attempts |-> "none"]
    /\ gop = [a \in Attempts |-> <<>>]
    /\ clock = [a \in Attempts |-> 0] /\ offset = [a \in Attempts |-> 0]
    /\ held = [a \in Attempts |-> 0]
    /\ ring = 0 /\ protocol \in Protocols /\ last_dts = 0 /\ pushed = NothingPushed

\* The attempt's publisher holds a packet lease.
Leased(a) == pc[a] \in {"push", "replay"}

Current(a) == input[a] # NoInput /\ sessions[input[a]] = a
-----------------------------------------------------------------------------
(* Operations under selection_lock. *)

\* try_register_pipeline_input_attempt: refused while the input's token is
\* live.  The caller's own belief counts only when nothing is selected.  A
\* selected input would take over from an active attempt of another input;
\* ActiveIsCurrent says there is none, so that path is a second defence.
RegisterStart(i, believed) ==
    LET chosen == IF selected = NoInput THEN believed ELSE selected = i
        previous == IF chosen /\ active # 0 /\ input[active] # i THEN active ELSE 0
    IN  /\ op = Unlocked /\ next_attempt_id <= MaxAttempts
        /\ tokens[i] = 0 \/ tokens[i] \in cancelled
        /\ op' = [type |-> "register", input |-> i, selected |-> chosen, previous |-> previous,
                  was |-> IF previous = 0 THEN "standby" ELSE gate[previous],
                  phase |-> IF previous = 0 THEN "insert" ELSE "demote"]
        /\ UNCHANGED <<sessions, tokens, selected, active, next_attempt_id, input,
                       cancelled, gate, publisherVars, ring, mediaVars>>

\* Mutant: the lock holder waits without closing the gate.
DemoteSkipped ==
    /\ op # Unlocked /\ op.phase = "demote"
    /\ op' = [op EXCEPT !.phase = "drain"]
    /\ UNCHANGED <<sessions, tokens, selected, active, next_attempt_id, input,
                   cancelled, gate, publisherVars, ring, mediaVars>>

\* demote, then wait_until_idle; also the first half of a selection.
Demote ==
    /\ op # Unlocked /\ op.phase = "demote"
    /\ gate' = [gate EXCEPT ![op.previous] = "standby"]
    /\ op' = [op EXCEPT !.phase = "drain"]
    /\ UNCHANGED <<sessions, tokens, selected, active, next_attempt_id, input,
                   cancelled, publisherVars, ring, mediaVars>>

\* Mutant: the demoted gate's lease is not waited for.
WaitSkipped ==
    /\ op # Unlocked /\ op.phase = "drain"
    /\ op' = [op EXCEPT !.phase = "insert"]
    /\ UNCHANGED <<sessions, tokens, selected, active, next_attempt_id, input,
                   cancelled, gate, publisherVars, ring, mediaVars>>

WaitUntilIdle ==
    /\ op # Unlocked /\ op.phase = "drain" /\ ~Leased(op.previous)
    /\ op' = [op EXCEPT !.phase = "insert"]
    /\ UNCHANGED <<sessions, tokens, selected, active, next_attempt_id, input,
                   cancelled, gate, publisherVars, ring, mediaVars>>

\* Every map is written in one step: the guards are all held before the
\* first insert.  The publisher then takes the pipeline's ring.
RegisterInsert ==
    /\ op # Unlocked /\ op.type = "register" /\ op.phase = "insert"
    /\ LET a == next_attempt_id
           i == op.input
       IN  /\ gate' = [gate EXCEPT ![a] = CASE ~op.selected -> "standby"
                                            [] op.selected /\ last_dts = 0 -> "active"
                                            [] OTHER -> "awaiting"]
           /\ tokens' = [tokens EXCEPT ![i] = a]
           /\ sessions' = [sessions EXCEPT ![i] = a]
           /\ selected' = IF op.selected THEN i ELSE selected
           /\ active' = IF op.selected THEN a ELSE active
           /\ input' = [input EXCEPT ![a] = i]
           /\ next_attempt_id' = a + 1
           /\ pc' = [pc EXCEPT ![a] = "idle"]
           /\ held' = [held EXCEPT ![a] = ring]
    /\ op' = Unlocked
    /\ UNCHANGED <<cancelled, batch, remap, gop, clock, offset, ring, mediaVars>>

\* The caller's future is dropped at one of the awaits: DemotedGate restores
\* the gate it demoted.
RegisterDropped ==
    /\ op # Unlocked /\ op.type = "register"
    /\ gate' = IF op.previous = 0 THEN gate ELSE [gate EXCEPT ![op.previous] = op.was]
    /\ op' = Unlocked
    /\ UNCHANGED <<sessions, tokens, selected, active, next_attempt_id, input,
                   cancelled, publisherVars, ring, mediaVars>>

\* Mutant: the input that loses the selection keeps its gate open.
SelectStartBeside(i) ==
    /\ op = Unlocked
    /\ op' = [type |-> "select", input |-> i, previous |-> active, phase |-> "insert"]
    /\ UNCHANGED <<sessions, tokens, selected, active, next_attempt_id, input,
                   cancelled, gate, publisherVars, ring, mediaVars>>

\* select_pipeline_input, called by the reconciler.
SelectStart(i) ==
    /\ op = Unlocked
    /\ IF active # 0 /\ input[active] = i
       THEN selected' = i /\ UNCHANGED op
       ELSE /\ op' = [type |-> "select", input |-> i, previous |-> active,
                      phase |-> IF active = 0 THEN "insert" ELSE "demote"]
            /\ UNCHANGED selected
    /\ UNCHANGED <<sessions, tokens, active, next_attempt_id, input,
                   cancelled, gate, publisherVars, ring, mediaVars>>

SelectInsert ==
    /\ op # Unlocked /\ op.type = "select" /\ op.phase = "insert"
    /\ selected' = op.input
    /\ active' = sessions[op.input]
    /\ gate' = IF sessions[op.input] = 0 THEN gate
               ELSE [gate EXCEPT ![sessions[op.input]] = "awaiting"]
    /\ op' = Unlocked
    /\ UNCHANGED <<sessions, tokens, next_attempt_id, input,
                   cancelled, publisherVars, ring, mediaVars>>

\* Mutant: the pipeline still reads from the session that left.
UnregisterKeepsActive(a) ==
    /\ op = Unlocked /\ pc[a] = "ended" /\ Current(a)
    /\ sessions' = [sessions EXCEPT ![input[a]] = 0]
    /\ tokens' = [tokens EXCEPT ![input[a]] = 0]
    /\ UNCHANGED <<active, cancelled, selected, op, next_attempt_id, input,
                   gate, publisherVars, ring, mediaVars>>

\* unregister_ingest_if_current, by the owner of a publisher that finished;
\* its token goes with it.
UnregisterIfCurrent(a) ==
    /\ op = Unlocked /\ pc[a] = "ended" /\ Current(a)
    /\ sessions' = [sessions EXCEPT ![input[a]] = 0]
    /\ tokens' = [tokens EXCEPT ![input[a]] = 0]
    /\ active' = IF active = a THEN 0 ELSE active
    /\ UNCHANGED <<cancelled, selected, op, next_attempt_id, input, gate, publisherVars, ring, mediaVars>>

\* release_ingest_sessions: a set of sessions goes, whether or not their
\* publishers have stopped: all of them, and the selection with them
\* (unregister_ingest), or the file sources (unregister_file_ingest).
Release(released, forget) ==
    LET owners == {tokens[input[a]] : a \in released} \ {0}
    IN  /\ op = Unlocked
        /\ released # {} /\ \A a \in released : Current(a)
        /\ Cardinality(cancelled \cup owners) <= MaxStale
        /\ sessions' = [i \in Inputs |-> IF sessions[i] \in released THEN 0 ELSE sessions[i]]
        /\ tokens' = [i \in Inputs |-> IF sessions[i] \in released THEN 0 ELSE tokens[i]]
        /\ cancelled' = cancelled \cup owners
        /\ active' = IF active \in released THEN 0 ELSE active
        /\ selected' = IF forget THEN NoInput ELSE selected
        /\ UNCHANGED <<op, next_attempt_id, input, gate, publisherVars, ring, mediaVars>>

\* replace_ingest_session_tracks of an SRT or MoQ publisher: the selected
\* one may replace the ring; either takes the current one.  The publisher
\* holds its media until the answer (RingMigration).
Adapt(a) ==
    /\ op = Unlocked /\ Current(a) /\ a \notin cancelled
    /\ protocol[input[a]] = "srt" /\ pc[a] = "idle" /\ ring < MaxRings
    /\ ring' = IF active = a THEN ring + 1 ELSE ring
    /\ held' = [held EXCEPT ![a] = ring']
    /\ UNCHANGED <<lockVars, cancelled, gate, pc, batch, remap, gop, clock, offset, mediaVars>>

\* cancel_pipeline_input: an input was disabled, deleted or changed kind.
Cancel(i) ==
    /\ tokens[i] # 0 /\ Cardinality(cancelled) < MaxStale
    /\ cancelled' = cancelled \cup {tokens[i]}
    /\ UNCHANGED <<lockVars, gate, publisherVars, ring, mediaVars>>
-----------------------------------------------------------------------------
(* Publishers. *)

\* Mutant: a keyframe does not start the cache.
CachePushNeverStarts(cache, packet) ==
    IF cache = <<>> \/ Len(cache) >= MaxGop THEN <<>> ELSE Append(cache, packet)

\* StandbyGopCache::push
CachePush(cache, packet) ==
    CASE packet.key -> <<packet>>
      [] ~packet.key /\ (cache = <<>> \/ Len(cache) >= MaxGop) -> <<>>
      [] OTHER -> Append(cache, packet)

Timed == MaxDts > 0

\* Packets of one batch, any of them a keyframe, on the source's clock.
Batches(a) ==
    LET sizes == {n \in 1 .. MaxBatch : Timed => clock[a] + n <= MaxDts}
        raw(k) == IF Timed THEN clock[a] + k ELSE 0
    IN  UNION {{[k \in 1 .. n |-> [key |-> k \in keys, raw |-> raw(k)]] : keys \in SUBSET (1 .. n)} :
               n \in sizes}

HasKeyframe(b) == \E k \in DOMAIN b : b[k].key

\* A batch arrives and the publisher looks at its gate: an active one is
\* entered, otherwise the batch goes to the standby cache.  HLS has no cache
\* and always tries to enter.
Receive(a, b) ==
    LET toGate == protocol[input[a]] = "hls" \/ gate[a] = "active"
    IN  /\ pc[a] = "idle"
        /\ clock' = [clock EXCEPT ![a] = IF Timed THEN @ + Len(b) ELSE 0]
        /\ pc' = [pc EXCEPT ![a] = IF toGate THEN "enter" ELSE "promote"]
        /\ batch' = [batch EXCEPT ![a] = IF toGate THEN b ELSE <<>>]
        /\ gop' = [gop EXCEPT ![a] = IF toGate THEN @ ELSE FoldLeft(CachePush, @, b)]
        /\ UNCHANGED <<lockVars, cancelled, gate, remap, offset, held, ring, mediaVars>>

\* try_enter
Admits(a, boundary) == gate[a] = "active" \/ (gate[a] = "awaiting" /\ boundary)
Activates(a) == gate[a] = "awaiting"

\* The lease is taken; which packets map_packet will remap depends on the
\* protocol: RTMP passes `false` here, HLS its lease's flag for every packet.
Enter(a) ==
    LET b == batch[a]
        kind == protocol[input[a]]
        start == IF kind = "hls" /\ Activates(a) THEN SelectInSeq(b, LAMBDA p : p.key) ELSE 1
    IN  /\ pc[a] = "enter"
        /\ IF Admits(a, HasKeyframe(b))
           THEN /\ gate' = [gate EXCEPT ![a] = "active"]
                /\ pc' = [pc EXCEPT ![a] = "push"]
                /\ batch' = [batch EXCEPT ![a] = SubSeq(b, start, Len(b))]
                /\ remap' = [remap EXCEPT ![a] =
                                CASE ~Activates(a) \/ kind = "rtmp" -> "none"
                                  [] Activates(a) /\ kind = "hls" -> "each"
                                  [] OTHER -> "first"]
           ELSE /\ pc' = [pc EXCEPT ![a] = "idle"]
                /\ batch' = [batch EXCEPT ![a] = <<>>]
                /\ UNCHANGED <<gate, remap>>
        /\ UNCHANGED <<lockVars, cancelled, gop, clock, offset, held, ring, mediaVars>>


\* The cached GOP is replayed once the gate waits for it.  SRT and MoQ first
\* follow the ring's handoffs.
Promote(a) ==
    LET ready == gop[a] # <<>>
        kind == protocol[input[a]]
        admitted == IF kind = "rtmp" THEN ready /\ gate[a] = "awaiting" ELSE Admits(a, ready)
    IN  /\ pc[a] = "promote"
        /\ IF admitted
           THEN /\ gate' = [gate EXCEPT ![a] = "active"]
                /\ pc' = [pc EXCEPT ![a] = "replay"]
                /\ batch' = [batch EXCEPT ![a] = gop[a]]
                /\ gop' = [gop EXCEPT ![a] = <<>>]
                /\ remap' = [remap EXCEPT ![a] = IF Activates(a) THEN "first" ELSE "none"]
                /\ held' = [held EXCEPT ![a] = IF kind = "srt" THEN ring ELSE @]
           ELSE /\ pc' = [pc EXCEPT ![a] = "idle"]
                /\ UNCHANGED <<gate, batch, gop, remap, held>>
        /\ UNCHANGED <<lockVars, cancelled, clock, offset, ring, mediaVars>>

\* InputTimestampMapper: a remapped packet follows the last forwarded DTS.
Remapped(a, k) == remap[a] = "each" \/ (remap[a] = "first" /\ k = 1)
\* Mutant: the first packet repeats the last forwarded DTS.
NewOffsetRepeats(a, k) == IF last_dts = 0 THEN 0 ELSE last_dts - batch[a][k].raw

NewOffset(a, k) == IF last_dts = 0 THEN 0 ELSE last_dts + 1 - batch[a][k].raw
OffsetOf(a, k) ==
    CASE Remapped(a, k) -> NewOffset(a, k)
      [] ~Remapped(a, k) /\ remap[a] = "first" -> NewOffset(a, 1)
      [] OTHER -> offset[a]
Dts(a, k) == IF Timed THEN batch[a][k].raw + OffsetOf(a, k) ELSE 1

\* map_packet, record_forwarded, the ring push and the end of the lease.
Push(a) ==
    LET n == Len(batch[a])
    IN  /\ Leased(a)
        /\ IF n = 0 THEN UNCHANGED <<offset, last_dts, pushed>>
           ELSE /\ offset' = [offset EXCEPT ![a] = IF Timed THEN OffsetOf(a, n) ELSE 0]
                /\ last_dts' = Max({last_dts} \cup {Dts(a, k) : k \in 1 .. n})
                /\ pushed' = IF ~Timed THEN pushed
                             ELSE [by |-> a, ring |-> held[a], replay |-> pc[a] = "replay",
                                   first |-> Dts(a, 1), last |-> Dts(a, n)]
        /\ pc' = [pc EXCEPT ![a] = "idle"]
        /\ batch' = [batch EXCEPT ![a] = <<>>]
        /\ remap' = [remap EXCEPT ![a] = "none"]
        /\ UNCHANGED <<lockVars, cancelled, gate, gop, clock, held, ring, protocol>>

\* The peer leaves, or an HLS session sees its token cancelled.
Stop(a) ==
    /\ pc[a] = "idle"
    /\ pc' = [pc EXCEPT ![a] = "ended"]
    /\ gop' = [gop EXCEPT ![a] = <<>>]
    /\ UNCHANGED <<lockVars, cancelled, gate, batch, remap, clock, offset, held, ring, mediaVars>>
-----------------------------------------------------------------------------
Publish(a) == (\E b \in Batches(a) : Receive(a, b)) \/ Enter(a) \/ Promote(a) \/ Push(a)

Locked == Demote \/ WaitUntilIdle \/ RegisterInsert \/ SelectInsert

Next ==
    \/ \E i \in Inputs : (\E believed \in BOOLEAN : RegisterStart(i, believed))
                        \/ SelectStart(i) \/ Cancel(i)
    \/ Locked \/ RegisterDropped
    \/ \E a \in Attempts : Publish(a) \/ Stop(a) \/ UnregisterIfCurrent(a) \/ Adapt(a)
    \/ Release({a \in Attempts : Current(a)}, TRUE)
    \/ \E files \in SUBSET {a \in Attempts : Current(a)} : Release(files, FALSE)

Spec == Init /\ [][Next]_vars

\* Publishers that stay connected keep sending, keyframes included; the lock
\* holder is scheduled.
FairSpec ==
    /\ Spec /\ WF_vars(Locked)
    /\ \A a \in Attempts :
         /\ WF_vars(Enter(a) \/ Promote(a) \/ Push(a))
         /\ SF_vars(\E b \in Batches(a) : HasKeyframe(b) /\ Receive(a, b))
-----------------------------------------------------------------------------
(* Properties. *)

TypeOK ==
    /\ sessions \in [Inputs -> 0 .. MaxAttempts] /\ tokens \in [Inputs -> 0 .. MaxAttempts]
    /\ cancelled \subseteq Attempts
    /\ selected \in Inputs \cup {NoInput} /\ active \in 0 .. MaxAttempts
    /\ op.type \in {"none", "register", "select"}
    /\ next_attempt_id \in 1 .. MaxAttempts + 1
    /\ input \in [Attempts -> Inputs \cup {NoInput}]
    /\ gate \in [Attempts -> {"standby", "awaiting", "active"}]
    /\ pc \in [Attempts -> {"off", "idle", "enter", "promote", "push", "replay", "ended"}]
    /\ \A a \in Attempts : Len(batch[a]) <= Max({MaxBatch, MaxGop}) /\ Len(gop[a]) <= MaxGop
    /\ remap \in [Attempts -> {"none", "first", "each"}]
    /\ clock \in [Attempts -> 0 .. MaxDts] /\ offset \in [Attempts -> Int]
    /\ held \in [Attempts -> 0 .. MaxRings] /\ ring \in 0 .. MaxRings
    /\ last_dts \in Nat /\ protocol \in Protocols

\* The pipeline reads from a session that exists and is the selected input's:
\* the three maps agree whenever the lock is free.
ActiveIsCurrent ==
    op = Unlocked /\ active # 0 => Current(active) /\ selected = input[active]

\* Only the selected input reaches the ring: no other session's gate is open,
\* through selections, reconnects and registrations dropped half-way.
OpenGateIsActive ==
    op = Unlocked =>
        \A a \in Attempts : Current(a) /\ gate[a] # "standby" => active = a

\* Two connected inputs never write to the ring at once.
SessionsTakeTurns ==
    \A a, b \in Attempts :
        Current(a) /\ Current(b) /\ Leased(a) /\ Leased(b) => a = b

\* The ring stays single-writer.
SingleWriter ==
    \A a, b \in Attempts : Leased(a) /\ Leased(b) => a = b

\* Timestamps never go backwards across handoffs.
NeverBackwards ==
    [][pushed' # pushed => pushed'.first > pushed.last]_vars


\* Every operation gives the lock back: a demoted gate drains.
LockIsReleased == op # Unlocked ~> op = Unlocked

\* A promoted input that keeps sending goes live, or is deselected or leaves.
PromotionCompletes ==
    \A a \in Attempts :
        active = a /\ gate[a] = "awaiting" ~> gate[a] # "awaiting" \/ active # a \/ pc[a] = "ended"
=============================================================================
