----------------------------- MODULE RingReader -----------------------------
(***************************************************************************)
(* One ring Reader (crates/restream-sync/src/reader.rs) against the        *)
(* producer of RingBuffer: the constructors, pull_burst, and the overflow  *)
(* resynchronisation.  Readers write nothing another reader or the         *)
(* producer looks at, so one reader stands for any number of them.         *)
(*                                                                         *)
(* Every access to the shared ring is an action of its own.  delivered,    *)
(* start and lost are history variables: the code does not keep them.      *)
(***************************************************************************)
EXTENDS RingBuffer

CONSTANTS
    MaxBurst,   \* largest max_packets of a pull_burst
    Preroll     \* preroll_packets of a keyframe-preroll or stage-input reader

ASSUME MaxBurstAssumption == MaxBurst \in Nat \ {0}
ASSUME PrerollAssumption == Preroll \in Nat

VARIABLES
    rpc,                \* where the reader is in its operation
    read_idx,           \* sequence of the next packet to pull
    awaiting_keyframe,  \* an overflow's interframes are being skipped
    head,               \* write index the operation loaded
    limit,              \* max_packets of this pull_burst
    seq,                \* sequence the load loop is at
    got,                \* packet loaded from seq's slot, not yet verified
    out,                \* packets pushed onto the caller's output
    delivered,          \* history: every packet returned to the caller
    start,              \* history: read_idx the constructor chose
    lost                \* history: overflowed since the last keyframe returned

readerVars == <<rpc, read_idx, awaiting_keyframe, head, limit, seq, got, out,
                delivered, start, lost>>
vars == <<ringVars, readerVars>>

ReaderInit ==
    /\ rpc = "new"
    /\ read_idx = 0
    /\ awaiting_keyframe = FALSE
    /\ head = 0
    /\ limit = 0
    /\ seq = 0
    /\ got = None
    /\ out = <<>>
    /\ delivered = <<>>
    /\ start = 0
    /\ lost = FALSE

Init == RingInit /\ ReaderInit

\* The operation returns: its locals are gone.
Done ==
    /\ rpc' = "idle"
    /\ head' = 0
    /\ limit' = 0
    /\ seq' = 0
    /\ got' = None

-----------------------------------------------------------------------------
(* Constructors: load the write index, then the last keyframe.             *)

Attach ==
    /\ rpc = "new"
    /\ head' = write_idx
    /\ rpc' = "attach"
    /\ UNCHANGED <<read_idx, awaiting_keyframe, limit, seq, got, out, delivered,
                   start, lost, ringVars>>

\* Where new_with_keyframe_preroll and new_stage_input start.
PrerollStart(w) ==
    LET keyframe_start == FastForward(w)
        oldest_available == SatSub(w, Capacity - 1)
        back == SatSub(keyframe_start, Preroll)
    IN  IF keyframe_start < w
        THEN IF back >= oldest_available THEN back ELSE oldest_available
        ELSE keyframe_start

\* new, new_with_keyframe_preroll / new_stage_input, and new_live.
Register ==
    /\ rpc = "attach"
    /\ \E s \in {FastForward(head), PrerollStart(head), head} :
          read_idx' = s /\ start' = s
    /\ Done
    /\ UNCHANGED <<awaiting_keyframe, out, delivered, lost, ringVars>>

-----------------------------------------------------------------------------
(* pull_burst                                                              *)

LagsALap(w) == w > read_idx /\ w - read_idx >= Capacity

\* Mutant of PullBurst: the head is what was begun, not what was published.
PullBurstBegun(max_packets) ==
    /\ rpc = "idle"
    /\ head' = write_begin
    /\ limit' = max_packets
    /\ seq' = read_idx
    /\ rpc' = IF LagsALap(write_begin) THEN "resync" ELSE "load"
    /\ UNCHANGED <<read_idx, awaiting_keyframe, got, out, delivered, start, lost,
                   ringVars>>

PullBurst(max_packets) ==
    /\ rpc = "idle"
    /\ head' = write_idx
    /\ limit' = max_packets
    /\ seq' = read_idx
    /\ rpc' = IF LagsALap(write_idx) THEN "resync" ELSE "load"
    /\ UNCHANGED <<read_idx, awaiting_keyframe, got, out, delivered, start, lost,
                   ringVars>>

InRun == seq < head /\ Len(out) < limit

\* read_at, first half: clone the packet in the slot.
LoadSlot ==
    /\ rpc = "load"
    /\ InRun
    /\ got' = data[Slot(seq)]
    /\ rpc' = IF got' = None THEN "resync" ELSE "check"
    /\ UNCHANGED <<read_idx, awaiting_keyframe, head, limit, seq, out, delivered,
                   start, lost, ringVars>>

\* Mutant of Take: any packet that is not an interframe ends the wait.
TakeEndsWait ==
    \/ /\ awaiting_keyframe /\ Kind(got) = "inter" /\ out = <<>>
       /\ seq' = seq + 1 /\ rpc' = "load"
       /\ UNCHANGED <<awaiting_keyframe, out>>
    \/ /\ awaiting_keyframe => Kind(got) # "inter"
       /\ awaiting_keyframe' = FALSE
       /\ out' = Append(out, got)
       /\ seq' = seq + 1 /\ rpc' = "load"

\* A verified packet goes to the output, or is skipped or ends the run while
\* a keyframe is awaited (load, load_after_resync).
Take ==
    \/ /\ awaiting_keyframe
       /\ Kind(got) = "inter"
       /\ out = <<>>
       /\ seq' = seq + 1
       /\ rpc' = "load"
       /\ UNCHANGED <<awaiting_keyframe, out>>
    \/ /\ awaiting_keyframe
       /\ Kind(got) = "inter"
       /\ out # <<>>
       /\ rpc' = "return"
       /\ UNCHANGED <<awaiting_keyframe, out, seq>>
    \/ /\ awaiting_keyframe => Kind(got) # "inter"
       /\ awaiting_keyframe' = (awaiting_keyframe /\ Kind(got) # "key")
       /\ out' = Append(out, got)
       /\ seq' = seq + 1
       /\ rpc' = "load"

\* Mutant of CheckUnit: the packet is taken whatever lap its slot is on.
CheckUnitAnyLap ==
    /\ rpc = "check"
    /\ Take
    /\ UNCHANGED <<read_idx, head, limit, got, delivered, start, lost, ringVars>>

\* read_at, second half: the unit word's tag tells whether the slot had been
\* written over by a later lap when the packet was loaded.
CheckUnit ==
    /\ rpc = "check"
    /\ \/ unit[Slot(seq)] = seq /\ Take
       \/ /\ unit[Slot(seq)] # seq
          /\ rpc' = "resync"
          /\ UNCHANGED <<awaiting_keyframe, out, seq>>
    /\ UNCHANGED <<read_idx, head, limit, got, delivered, start, lost, ringVars>>

\* Mutant of Return: read_idx advances by what is returned, not over what was
\* skipped before it.
ReturnShort ==
    /\ \/ rpc = "load" /\ ~InRun
       \/ rpc = "return"
    /\ read_idx' = read_idx + Len(out)
    /\ delivered' = delivered \o out
    /\ lost' = (lost /\ \A i \in 1 .. Len(out) : Kind(out[i]) # "key")
    /\ out' = <<>>
    /\ Done
    /\ UNCHANGED <<awaiting_keyframe, start, ringVars>>

\* The run is complete: advance and hand it to the caller.
Return ==
    /\ \/ rpc = "load" /\ ~InRun
       \/ rpc = "return"
    /\ read_idx' = seq
    /\ delivered' = delivered \o out
    /\ lost' = (lost /\ \A i \in 1 .. Len(out) : Kind(out[i]) # "key")
    /\ out' = <<>>
    /\ Done
    /\ UNCHANGED <<awaiting_keyframe, start, ringVars>>

\* Mutant of Resync: the keyframe wait is not armed.
ResyncNoWait ==
    /\ rpc = "resync"
    /\ read_idx' = FastForward(head)
    /\ out' = <<>>
    /\ lost' = TRUE
    /\ Done
    /\ UNCHANGED <<awaiting_keyframe, delivered, start, ringVars>>

\* OVERFLOW: drop the run and resume where fast_forward says, from the write
\* index loaded when the pull began and the last keyframe as it is now.
Resync ==
    /\ rpc = "resync"
    /\ read_idx' = FastForward(head)
    /\ awaiting_keyframe' = TRUE
    /\ out' = <<>>
    /\ lost' = TRUE
    /\ Done
    /\ UNCHANGED <<delivered, start, ringVars>>

Read ==
    \/ Attach
    \/ Register
    \/ \E m \in 1 .. MaxBurst : PullBurst(m)
    \/ LoadSlot
    \/ CheckUnit
    \/ Return
    \/ Resync

Next ==
    \/ Produce /\ UNCHANGED readerVars
    \/ Read

Spec == Init /\ [][Next]_vars

\* The producer finishes a batch it began (nothing in push_batch waits) and
\* the consumer keeps pulling (its task loops on wait_for_data).
FairSpec == Spec /\ WF_vars(Produce /\ UNCHANGED readerVars) /\ WF_vars(Read)

-----------------------------------------------------------------------------
(* Properties                                                              *)

TypeOK ==
    /\ data \in [Slots -> Nat \cup {None}]
    /\ unit \in [Slots -> Nat \cup {None}]
    /\ write_idx \in Nat
    /\ write_begin \in Nat
    /\ last_keyframe_idx \in Nat \cup {None}
    /\ kind \in Seq(Kinds)
    /\ count \in Nat
    /\ wpc \in {"begin", "unit", "slot", "keyframe"}
    /\ rpc \in {"new", "attach", "idle", "load", "check", "return", "resync"}
    /\ read_idx \in Nat
    /\ awaiting_keyframe \in BOOLEAN
    /\ head \in Nat
    /\ limit \in Nat
    /\ seq \in Nat
    /\ got \in Nat \cup {None}
    /\ out \in Seq(Nat)
    /\ delivered \in Seq(Nat)
    /\ start \in Nat
    /\ lost \in BOOLEAN

\* "a successful pull_burst returns a contiguous run of packets ending just
\* before the new next_sequence()" (reader.rs, next_sequence): no packet of
\* another lap ever gets into the output, however the producer's stores fall
\* between the reader's loads.
ContiguousRun ==
    rpc \in {"load", "check", "return"} =>
        \A i \in 1 .. Len(out) : out[i] = seq - Len(out) + i - 1

\* No packet is returned twice or out of order, although an overflow may move
\* read_idx backwards, to a keyframe the reader has already delivered.
InOrder ==
    \A i, j \in 1 .. Len(delivered) : i < j => delivered[i] < delivered[j]

\* A batch becomes visible only with its final release store of write_idx.
OnlyPublished ==
    \A i \in 1 .. Len(delivered) : delivered[i] < write_idx

\* Every interframe returned can be decoded: the reader returned everything
\* from the keyframe before it on, or everything since it attached.  After an
\* overflow video resumes at a keyframe.
DecodableVideo ==
    LET got_all(a, b) == \A q \in a .. b : \E i \in 1 .. Len(delivered) : delivered[i] = q
    IN  \A i \in 1 .. Len(delivered) :
            Kind(delivered[i]) = "inter" =>
                \/ got_all(start, delivered[i])
                \/ \E k \in 0 .. delivered[i] :
                      Kind(k) = "key" /\ got_all(k, delivered[i])

\* Once the producer stops, a reader that keeps pulling reaches the live edge:
\* overflow recovery never loops on a keyframe that is already overwritten.
CatchesUp == <>[](rpc = "idle" => read_idx = write_idx)

\* The reader implements the stream: what is published is the ring up to its
\* write index, and every step of the producer and the reader is a publication,
\* a delivery or a loss of place, or changes none of them.
Stream == INSTANCE MediaStream WITH published <- SubSeq(kind, 1, write_idx)
ImplementsStream == Stream!StreamSpec

=============================================================================
