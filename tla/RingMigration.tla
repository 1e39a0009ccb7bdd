--------------------------- MODULE RingMigration ----------------------------
(***************************************************************************)
(* Growing a pipeline's source ring under its readers: adapt_pipeline_ring *)
(* (engine_pipeline.rs), seed_readable_tail_from and seal_and_forward      *)
(* (ring_buffer.rs), the probe hold of the SRT and MoQ publishers          *)
(* (srt/ingress_media.rs, moq/ingest/publisher.rs), and a reader's         *)
(* wait_for_data / migrate_to (reader.rs) with the end of stream.          *)
(*                                                                         *)
(* Three threads interleave: the Owner (the publisher's media thread), the *)
(* Tokio task that applies probes, and a reader task.  RingBuffer and      *)
(* RingReader cover the races inside one ring, so here a push is one step  *)
(* and a pull takes one packet in one step.  A packet is its number in the *)
(* order of publication.                                                   *)
(***************************************************************************)
EXTENDS Integers, Sequences

CONSTANTS
    OldCapacity, NewCapacity,   \* slots of the ring and of its replacement
    Preroll,        \* migration_preroll_packets of the reader
    MaxPackets,     \* bound: packets the publisher sends
    MaxProbes       \* bound: probes and topology updates of the session

ASSUME MigrationAssumption ==
    /\ OldCapacity \in Nat \ {0}
    /\ NewCapacity \in Nat /\ NewCapacity > OldCapacity
    /\ Preroll \in Nat
    /\ MaxPackets \in Nat
    /\ MaxProbes \in Nat

VARIABLES
    slots,      \* ring -> slot -> [seq, packet, key]
    write_idx,  \* ring -> write index
    last_key,   \* ring -> last_keyframe_idx, or None
    next,       \* ring -> forwarding pointer, or None
    current,    \* the ring of the pipelines map
    eos,        \* end_of_stream of the ring
    protocol,   \* "srt" or "moq": whose publisher and probe hold this is
    \* the Owner thread
    ring,       \* the publisher's ring
    sent,       \* packets published or held
    held,       \* packets held, in order
    pending,    \* probe_pending / ProbeHold::Pending
    revision,   \* probes sent
    answers,    \* ProbeApplied commands on their way to the Owner
    \* the Tokio task
    probes,     \* probes on their way to it
    tpc,        \* where adapt_pipeline_ring is
    tail,       \* old write index the seed loaded
    copy,       \* sequence the seed copies next
    \* the reader
    rpc, rring, read_idx,
    armed,      \* its Notified future exists (and on which ring)
    woken,      \* ... and was notified
    overflowed, \* history: it resynchronised
    delivered,  \* history: packets it returned
    stranded,   \* history: packets published to the old ring once it is seeded
    expired     \* history: a hold reached its byte or time bound

ringState == <<slots, write_idx, last_key, next, current, eos>>
ownerState == <<ring, sent, held, pending, revision, answers>>
tokioState == <<probes, tpc, tail, copy>>
readerState == <<rpc, rring, read_idx, armed, woken, overflowed, delivered>>
history == <<protocol, stranded, expired>>
vars == <<ringState, ownerState, tokioState, readerState, history>>

None == -1
Empty == [seq |-> None, packet |-> 0, key |-> FALSE]
Rings == {1, 2}
Capacity(r) == IF r = 1 THEN OldCapacity ELSE NewCapacity
SatSub(a, b) == IF a >= b THEN a - b ELSE 0
Larger(a, b) == IF a >= b THEN a ELSE b
Smaller(a, b) == IF a <= b THEN a ELSE b

Init ==
    /\ slots = [r \in Rings |-> [s \in 0 .. Capacity(r) - 1 |-> Empty]]
    /\ write_idx = [r \in Rings |-> 0]
    /\ last_key = [r \in Rings |-> None]
    /\ next = [r \in Rings |-> None]
    /\ current = 1
    /\ eos = FALSE
    /\ ring = 1 /\ sent = 0 /\ held = 0 /\ pending = FALSE /\ revision = 0
    /\ answers = <<>>
    /\ probes = <<>> /\ tpc = "idle" /\ tail = 0 /\ copy = 0
    /\ rpc = "new" /\ rring = 1 /\ read_idx = 0 /\ armed = FALSE /\ woken = FALSE
    /\ overflowed = FALSE
    /\ delivered = <<>>
    /\ protocol \in {"srt", "moq"} /\ stranded = {} /\ expired = FALSE

\* notify_waiters of ring r: wakes a reader whose Notified future exists.
Notify(r) == woken' = (woken \/ (armed /\ rring = r))

\* read_at: slot of q still holds q.
Holds(r, q) == slots[r][q % Capacity(r)].seq = q

-----------------------------------------------------------------------------
(* The Owner thread.                                                       *)

\* Publish packet number p into the publisher's ring.
Push(p) ==
    LET q == write_idx[ring] IN
    /\ \E key \in BOOLEAN :
          /\ slots' = [slots EXCEPT ![ring][q % Capacity(ring)] =
                          [seq |-> q, packet |-> p, key |-> key]]
          /\ last_key' = [last_key EXCEPT ![ring] = IF key THEN q ELSE @]
    /\ write_idx' = [write_idx EXCEPT ![ring] = q + 1]
    /\ Notify(ring)
    /\ stranded' = IF ring = 1 /\ (tpc # "idle" \/ next[1] # None)
                   THEN stranded \cup {p} ELSE stranded
    /\ UNCHANGED <<next, current, eos, rpc, rring, read_idx, armed, overflowed,
                   delivered, protocol, expired>>

\* A packet arrives with no probe pending: straight to the ring.
Forward ==
    /\ ~pending /\ held = 0 /\ ~eos
    /\ sent < MaxPackets
    /\ sent' = sent + 1
    /\ Push(sent + 1)
    /\ UNCHANGED <<ring, held, pending, revision, answers, tokioState>>

\* A packet arrives while Tokio applies a probe: it is held.
Hold ==
    /\ pending
    /\ sent < MaxPackets
    /\ sent' = sent + 1
    /\ held' = held + 1
    /\ UNCHANGED <<ring, pending, revision, answers, ringState, tokioState,
                   readerState,
                   history>>

\* Mutant of SendProbe: packets are not held while Tokio applies the probe.
SendProbeNoHold ==
    /\ held = 0 /\ ~eos
    /\ revision < (IF protocol = "moq" THEN 1 ELSE MaxProbes)
    /\ revision' = revision + 1
    /\ probes' = Append(probes, revision + 1)
    /\ UNCHANGED <<ring, sent, held, pending, answers, ringState, tpc, tail, copy,
                   readerState, history>>

\* The demuxer completes a probe, or (SRT) a topology update.
SendProbe ==
    /\ held = 0 \/ pending
    /\ ~eos
    /\ revision < (IF protocol = "moq" THEN 1 ELSE MaxProbes)
    /\ revision' = revision + 1
    /\ pending' = TRUE
    /\ probes' = Append(probes, revision + 1)
    /\ UNCHANGED <<ring, sent, held, answers, ringState, tpc, tail, copy, readerState,
                   history>>

\* SRT's release_held first follows the rings that replaced this one.
Successor(r) == IF protocol = "srt" /\ next[r] # None THEN next[r] ELSE r

\* The hold reaches its byte or time bound before the answer.
HoldOverflow ==
    /\ pending
    /\ pending' = FALSE
    /\ ring' = Successor(ring)
    /\ expired' = TRUE
    /\ UNCHANGED <<sent, held, revision, answers, ringState, tokioState, readerState,
                   protocol, stranded>>

\* Tokio's answer: SRT drops the answer to a superseded probe.
ProbeApplied ==
    /\ held = 0 \/ pending
    /\ answers # <<>>
    /\ answers' = Tail(answers)
    /\ LET answer == Head(answers)
           new == IF answer.ring # None THEN answer.ring ELSE ring
       IN  IF protocol = "srt" /\ answer.revision # revision
           THEN UNCHANGED <<ring, pending>>
           ELSE /\ ring' = Successor(new)
                /\ pending' = FALSE
    /\ UNCHANGED <<sent, held, revision, ringState, tokioState, readerState,
                   history>>

\* Held packets flow in order before anything else the Owner does.
ReleaseHeld ==
    /\ ~pending /\ held > 0
    /\ held' = held - 1
    /\ Push(sent - held + 1)
    /\ UNCHANGED <<ring, sent, pending, revision, answers, tokioState>>

\* Mutant of MarkEndOfStream: the flag without the notification.
MarkEndOfStreamQuietly ==
    /\ revision = 0 /\ ~eos
    /\ eos' = TRUE
    /\ UNCHANGED <<slots, write_idx, last_key, next, current, ownerState,
                   tokioState, readerState, history>>

\* A stage's output ring (never probed, never resized) ends.
MarkEndOfStream ==
    /\ revision = 0 /\ ~eos
    /\ eos' = TRUE
    /\ Notify(ring)
    /\ UNCHANGED <<slots, write_idx, last_key, next, current, ownerState,
                   tokioState, rpc, rring, read_idx, armed, overflowed, delivered,
                   history>>

Owner ==
    \/ Forward
    \/ Hold
    \/ SendProbe
    \/ HoldOverflow
    \/ ProbeApplied
    \/ ReleaseHeld
    \/ MarkEndOfStream

-----------------------------------------------------------------------------
(* The Tokio task: one probe at a time.                                    *)

\* What the Owner is told when ring r is the outcome of adapt_pipeline_ring.
Answer(r) == Append(answers, [revision |-> Head(probes), ring |-> r])

\* The ring is large enough already: MoQ answers with no ring, SRT with the
\* current one.
KeepRing ==
    /\ tpc = "idle" /\ probes # <<>>
    /\ answers' = Answer(IF protocol = "moq" THEN None ELSE current)
    /\ probes' = Tail(probes)
    /\ UNCHANGED <<ring, sent, held, pending, revision, ringState, tpc, tail, copy,
                   readerState, history>>

\* new_continuing, and the seed loads the old write index.
BeginAdapt ==
    /\ tpc = "idle" /\ probes # <<>>
    /\ current = 1
    /\ tail' = write_idx[1]
    /\ copy' = SatSub(write_idx[1], Smaller(OldCapacity, NewCapacity) - 1)
    /\ tpc' = "seed"
    /\ UNCHANGED <<probes, ringState, ownerState, readerState,
                   history>>

\* Copy one packet of the readable tail, if its slot still holds it.
SeedSlot ==
    /\ tpc = "seed" /\ copy < tail
    /\ copy' = copy + 1
    /\ IF Holds(1, copy)
       THEN /\ slots' = [slots EXCEPT ![2][copy % NewCapacity] =
                            slots[1][copy % OldCapacity]]
            /\ last_key' = [last_key EXCEPT ![2] =
                               IF slots[1][copy % OldCapacity].key THEN copy ELSE @]
       ELSE UNCHANGED <<slots, last_key>>
    /\ UNCHANGED <<probes, tpc, tail, write_idx, next, current, eos, ownerState,
                   readerState,
                   history>>

\* The seeded ring takes the pipeline's place.
InsertRing ==
    /\ tpc = "seed" /\ copy = tail
    /\ write_idx' = [write_idx EXCEPT ![2] = tail]
    /\ current' = 2
    /\ tpc' = "seal"
    /\ UNCHANGED <<probes, tail, copy, slots, last_key, next, eos, ownerState,
                   readerState,
                   history>>

\* Mutant of SealAndForward: the sleeping readers are not notified.
SealQuietly ==
    /\ tpc = "seal"
    /\ next' = [next EXCEPT ![1] = 2]
    /\ answers' = Answer(2)
    /\ probes' = Tail(probes)
    /\ tpc' = "idle" /\ tail' = 0 /\ copy' = 0
    /\ UNCHANGED <<slots, write_idx, last_key, current, eos, ring, sent, held,
                   pending, revision, readerState, history>>

SealAndForward ==
    /\ tpc = "seal"
    /\ next' = [next EXCEPT ![1] = 2]
    /\ Notify(1)
    /\ answers' = Answer(2)
    /\ probes' = Tail(probes)
    /\ tpc' = "idle" /\ tail' = 0 /\ copy' = 0
    /\ UNCHANGED <<slots, write_idx, last_key, current, eos, ring, sent, held,
                   pending, revision, rpc, rring, read_idx, armed, overflowed,
                   delivered, history>>

Tokio ==
    \/ KeepRing
    \/ BeginAdapt
    \/ SeedSlot
    \/ InsertRing
    \/ SealAndForward

-----------------------------------------------------------------------------
(* The reader.                                                             *)

FastForward(r) ==
    IF last_key[r] # None /\ SatSub(write_idx[r], last_key[r]) < Capacity(r)
    THEN last_key[r] ELSE write_idx[r]

\* The last keyframe and its preroll, if there is a keyframe to go back to.
Rewind(r, otherwise) ==
    IF FastForward(r) < write_idx[r]
    THEN Larger(SatSub(FastForward(r), Preroll),
                SatSub(write_idx[r], Capacity(r) - 1))
    ELSE otherwise

Attach ==
    /\ rpc = "new"
    /\ rring' = current
    /\ read_idx' = Rewind(current, FastForward(current))
    /\ rpc' = "wait"
    /\ UNCHANGED <<armed, woken, overflowed, delivered, ringState, ownerState,
                   tokioState, history>>

\* pull_burst of one packet.
Pull ==
    /\ rpc = "pull"
    /\ rpc' = "wait"
    /\ LET w == write_idx[rring] IN
       \/ /\ read_idx >= w
          /\ UNCHANGED <<read_idx, overflowed, delivered>>
       \/ /\ read_idx < w
          /\ w - read_idx < Capacity(rring) /\ Holds(rring, read_idx)
          /\ delivered' = Append(delivered,
                                 slots[rring][read_idx % Capacity(rring)].packet)
          /\ read_idx' = read_idx + 1
          /\ UNCHANGED overflowed
       \/ /\ read_idx < w
          /\ w - read_idx >= Capacity(rring) \/ ~Holds(rring, read_idx)
          /\ read_idx' = FastForward(rring)
          /\ overflowed' = TRUE
          /\ UNCHANGED delivered
    /\ UNCHANGED <<rring, armed, woken, ringState, ownerState, tokioState,
                   history>>

\* wait_for_data, first look: unread packets of this ring.
CheckData ==
    /\ rpc = "wait"
    /\ rpc' = IF write_idx[rring] > read_idx THEN "pull" ELSE "next"
    /\ armed' = FALSE /\ woken' = FALSE
    /\ UNCHANGED <<rring, read_idx, overflowed, delivered, ringState, ownerState,
                   tokioState, history>>

\* Mutant of CheckNext: the reader continues at the replacement's live edge.
CheckNextLiveEdge ==
    /\ rpc = "next"
    /\ \/ next[rring] = None /\ rpc' = "arm" /\ UNCHANGED <<rring, read_idx>>
       \/ /\ next[rring] # None
          /\ rring' = next[rring]
          /\ read_idx' = write_idx[next[rring]]
          /\ rpc' = "wait"
    /\ UNCHANGED <<armed, woken, overflowed, delivered, ringState, ownerState,
                   tokioState, history>>

\* Then the replacement: migrate_to, which takes a stage input that had read
\* everything back to the keyframe.
CheckNext ==
    /\ rpc = "next"
    /\ \/ /\ next[rring] = None
          /\ rpc' = "arm"
          /\ UNCHANGED <<rring, read_idx>>
       \/ /\ next[rring] # None
          /\ rring' = next[rring]
          /\ read_idx' = IF Preroll > 0 /\ read_idx = write_idx[next[rring]]
                         THEN Rewind(next[rring], read_idx)
                         ELSE read_idx
          /\ rpc' = "wait"
    /\ UNCHANGED <<armed, woken, overflowed, delivered, ringState, ownerState,
                   tokioState, history>>

\* Create the Notified future, then look again.
Arm ==
    /\ rpc = "arm"
    /\ armed' = TRUE
    /\ rpc' = "data again"
    /\ UNCHANGED <<rring, read_idx, woken, overflowed, delivered, ringState,
                   ownerState, tokioState, history>>

\* Mutant of LookAgain: the reader sleeps without looking again.
SleepAtOnce ==
    /\ rpc \in {"data again", "next again", "eos"}
    /\ rpc' = "await"
    /\ UNCHANGED <<rring, read_idx, armed, woken, overflowed, delivered, ringState,
                   ownerState, tokioState, history>>

LookAgain ==
    /\ \/ /\ rpc = "data again"
          /\ rpc' = IF write_idx[rring] > read_idx THEN "pull" ELSE "next again"
       \/ /\ rpc = "next again"
          /\ rpc' = IF next[rring] # None THEN "wait" ELSE "eos"
       \/ /\ rpc = "eos"
          /\ rpc' = IF eos THEN "ended?" ELSE "await"
    /\ UNCHANGED <<rring, read_idx, armed, woken, overflowed, delivered, ringState,
                   ownerState, tokioState, history>>

Await ==
    /\ rpc = "await"
    /\ woken
    /\ rpc' = "wait"
    /\ UNCHANGED <<rring, read_idx, armed, woken, overflowed, delivered, ringState,
                   ownerState, tokioState, history>>

\* The stage's loop: is_caught_up_to_end_of_stream ends it.
CheckEnd ==
    /\ rpc = "ended?"
    /\ rpc' = IF eos /\ write_idx[rring] = read_idx THEN "ended" ELSE "pull"
    /\ UNCHANGED <<rring, read_idx, armed, woken, overflowed, delivered, ringState,
                   ownerState, tokioState, history>>

Reader ==
    \/ Attach
    \/ Pull
    \/ CheckData
    \/ CheckNext
    \/ Arm
    \/ LookAgain
    \/ Await
    \/ CheckEnd

Next == Owner \/ Tokio \/ Reader

Spec == Init /\ [][Next]_vars

\* The Owner drains what it released, Tokio answers, and the reader's task is
\* polled when it is runnable; the publisher may stop sending at any time.
FairSpec ==
    /\ Spec
    /\ WF_vars(ProbeApplied) /\ WF_vars(ReleaseHeld)
    /\ WF_vars(Tokio) /\ WF_vars(Reader)

-----------------------------------------------------------------------------
(* Properties                                                              *)

TypeOK ==
    /\ \A r \in Rings :
          /\ slots[r] \in [0 .. Capacity(r) - 1 ->
                 [seq : Nat \cup {None}, packet : 0 .. MaxPackets, key : BOOLEAN]]
          /\ write_idx[r] \in Nat
          /\ last_key[r] \in Nat \cup {None}
          /\ next[r] \in Rings \cup {None}
    /\ {current, ring, rring} \subseteq Rings
    /\ {sent, held, revision, tail, copy, read_idx} \subseteq Nat
    /\ {eos, pending, armed, woken, overflowed} \subseteq BOOLEAN
    /\ delivered \in Seq(1 .. MaxPackets)

\* "Reader instances ... can transparently migrate and resume without a gap"
\* (new_continuing): while no packet is stranded by an expired hold, a reader
\* that never overflowed gets every packet, and gets one again only where a
\* stage input goes back to the seeded keyframe.
ResumesWithoutGap ==
    ~overflowed /\ stranded = {} =>
        \A i \in 2 .. Len(delivered) :
            /\ delivered[i] <= delivered[i - 1] + 1
            /\ Preroll = 0 => delivered[i] = delivered[i - 1] + 1

\* "After this call, self receives no new data" (seal_and_forward): only a hold
\* that expired lets the publisher go on writing to a sealed ring.
SealedIsQuiet ==
    [][\A r \in Rings : next[r] # None /\ ~expired => write_idx'[r] = write_idx[r]]_vars

\* No wakeup is lost: a reader that sleeps on a ring has read it all, and the
\* ring has neither been replaced nor ended, or its wake is on the way.
SleepsOnlyWhenDrained ==
    rpc = "await" /\ ~woken =>
        /\ read_idx >= write_idx[rring]
        /\ ~eos
        /\ next[rring] = None

\* Unless packets were stranded, every reader that was attached ends up on the
\* producer's ring with nothing left to read, or ended with its stage's stream.
CatchesUp ==
    <>[](stranded = {} =>
            /\ rpc \in {"await", "ended"} => read_idx = write_idx[ring] /\ rring = ring
            /\ eos /\ rpc = "await" => woken)

\* The end of a stage's stream ends its readers.
EndReaches == eos ~> rpc = "ended"

=============================================================================
