----------------------------- MODULE RingBuffer -----------------------------
(***************************************************************************)
(* The single-producer side of restream's media ring                       *)
(* (crates/restream-sync/src/ring_buffer.rs).                              *)
(*                                                                         *)
(* A packet is identified with the sequence the producer publishes it at;  *)
(* kind[q + 1] is the kind of the packet of sequence q.  Every atomic or   *)
(* slot-locked access of push / push_batch is one action, so a reader can  *)
(* observe the ring between any two of them.  push is the batch of one.    *)
(***************************************************************************)
EXTENDS Integers, Sequences

CONSTANTS
    Capacity,   \* slots of the ring
    MaxBatch,   \* packets of one push_batch (MEDIA_PRODUCER_BATCH_PACKETS)
    MaxSeq      \* bound: packets the producer ever publishes

ASSUME CapacityAssumption == Capacity \in Nat \ {0}
ASSUME MaxBatchAssumption == MaxBatch \in Nat \ {0}
ASSUME MaxSeqAssumption == MaxSeq \in Nat

VARIABLES
    data,               \* slot -> sequence of the packet it holds, or None
    unit,               \* slot -> sequence its unit word is tagged with, or None
    write_idx,          \* one past the last published sequence
    write_begin,        \* one past the last sequence a write has begun for
    last_keyframe_idx,  \* sequence of the last keyframe stored, or None
    kind,               \* kinds of the packets the producer has begun to write
    count,              \* packets of the current batch already stored
    wpc                 \* next store of the producer

ringVars == <<data, unit, write_idx, write_begin, last_keyframe_idx, kind,
              count, wpc>>

None == -1
Kinds == {"key", "inter", "audio"}
Slots == 0 .. Capacity - 1

\* The slot of a sequence.
Slot(q) == q % Capacity

Kind(q) == kind[q + 1]

\* Mutant of SatSub: a subtraction that does not saturate.
PlainSub(a, b) == a - b

\* usize::saturating_sub
SatSub(a, b) == IF a >= b THEN a - b ELSE 0

\* The sequence the producer is writing, or writes next.
idx == write_idx + count

RingInit ==
    /\ data = [s \in Slots |-> None]
    /\ unit = [s \in Slots |-> None]
    /\ write_idx = 0
    /\ write_begin = 0
    /\ last_keyframe_idx = None
    /\ kind = <<>>
    /\ count = 0
    /\ wpc = "begin"

-----------------------------------------------------------------------------
(* The producer: push and push_batch.                                      *)

\* Take the next packet of the batch and raise write_begin over it.
BeginWrite(k) ==
    /\ wpc = "begin"
    /\ count < MaxBatch
    /\ idx < MaxSeq
    /\ write_begin' = idx + 1
    /\ kind' = Append(kind, k)
    /\ wpc' = "unit"
    /\ UNCHANGED <<data, unit, write_idx, last_keyframe_idx, count>>

\* Tag the slot with the sequence before the packet goes in.
StoreUnit ==
    /\ wpc = "unit"
    /\ unit' = [unit EXCEPT ![Slot(idx)] = idx]
    /\ wpc' = "slot"
    /\ UNCHANGED <<data, write_idx, write_begin, last_keyframe_idx, kind, count>>

\* Replace the packet of the slot.
StoreSlot ==
    /\ wpc = "slot"
    /\ data' = [data EXCEPT ![Slot(idx)] = idx]
    /\ \/ Kind(idx) = "key" /\ wpc' = "keyframe" /\ count' = count
       \/ Kind(idx) # "key" /\ wpc' = "begin" /\ count' = count + 1
    /\ UNCHANGED <<unit, write_idx, write_begin, last_keyframe_idx, kind>>

\* Remember a video keyframe as the place an overflowed reader resumes at.
StoreKeyframe ==
    /\ wpc = "keyframe"
    /\ last_keyframe_idx' = idx
    /\ wpc' = "begin"
    /\ count' = count + 1
    /\ UNCHANGED <<data, unit, write_idx, write_begin, kind>>

\* Make the whole batch visible with one release store.
Publish ==
    /\ wpc = "begin"
    /\ count > 0
    /\ write_idx' = idx
    /\ count' = 0
    /\ UNCHANGED <<data, unit, write_begin, last_keyframe_idx, kind, wpc>>

Produce ==
    \/ \E k \in Kinds : BeginWrite(k)
    \/ StoreUnit
    \/ StoreSlot
    \/ StoreKeyframe
    \/ Publish

-----------------------------------------------------------------------------
(* What readers ask of the ring.                                           *)

\* Mutant of FastForward: any keyframe ever seen, lapped or not.
FastForwardAnyKeyframe(w) ==
    IF last_keyframe_idx # None THEN last_keyframe_idx ELSE w

\* Where a reader that saw write index w resumes: the last keyframe while it
\* is within a lap of w (or past w, in a batch not yet published), else w.
FastForward(w) ==
    IF last_keyframe_idx # None /\ SatSub(w, last_keyframe_idx) < Capacity
    THEN last_keyframe_idx
    ELSE w

=============================================================================
