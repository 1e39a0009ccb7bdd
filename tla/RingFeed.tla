------------------------------ MODULE RingFeed ------------------------------
(***************************************************************************)
(* One egress leaf reading a ring through its feed                         *)
(* (crates/restream-engine/src/egress/journal.rs, visit.rs): priming and   *)
(* resynchronising its cursor (live_start_cursor, latest_sync_point) and   *)
(* the feed read (read_ring), which loads a run of slots unchecked and     *)
(* then checks the whole run once (RingBuffer::run_intact).                *)
(*                                                                         *)
(* Every shared access is an action.  write_begin is loaded Relaxed: the   *)
(* load may return any value the loads before it do not rule out.  The     *)
(* feed epoch never advances outside tests and is left out.  delivered and *)
(* lost are history variables.                                             *)
(***************************************************************************)
EXTENDS RingBuffer

CONSTANT MaxUnits       \* largest number of units a read's budget admits

ASSUME MaxUnitsAssumption == MaxUnits \in Nat \ {0}

VARIABLES
    fpc,         \* where the leaf is in its visit
    cursor,      \* FeedCursor: next_sequence ...
    awaiting,    \* ... and awaiting_keyframe
    reading,     \* the engine is past its handshake and reads the feed
    edge,        \* live edge loaded by live_start_cursor
    head,        \* write index loaded by this read or sync-point query
    sync,        \* keyframe candidate of the sync-point query
    limit,       \* units this read's budget admits
    next,        \* the read's cursor: next_sequence ...
    nawait,      \* ... and awaiting_keyframe
    got,         \* packet loaded in the keyframe wait, not yet verified
    units,       \* units the read has collected
    run_start,   \* first sequence of the unchecked run
    tag,         \* sequence whose unit tag is checked next
    delivered,   \* history: units handed to the engine
    lost         \* history: no valid position since the last keyframe delivered

feedVars == <<fpc, cursor, awaiting, reading, edge, head, sync, limit, next,
              nawait, got, units, run_start, tag, delivered, lost>>
vars == <<ringVars, feedVars>>

Init ==
    /\ RingInit
    /\ fpc = "edge"
    /\ cursor = 0
    /\ awaiting = FALSE
    /\ reading = FALSE
    /\ edge = 0
    /\ head = 0
    /\ sync = 0
    /\ limit = 0
    /\ next = 0
    /\ nawait = FALSE
    /\ got = None
    /\ units = <<>>
    /\ run_start = 0
    /\ tag = 0
    /\ delivered = <<>>
    /\ lost = TRUE

position == <<cursor, awaiting, reading>>
query == <<edge, sync>>
read == <<limit, next, nawait, got, units, run_start, tag>>
history == <<delivered, lost>>

\* The locals of a finished read, and of a finished query, are gone.
ForgetRead ==
    /\ limit' = 0 /\ next' = 0 /\ nawait' = FALSE /\ got' = None
    /\ units' = <<>> /\ run_start' = 0 /\ tag' = 0
ForgetQuery == edge' = 0 /\ sync' = 0 /\ head' = 0

-----------------------------------------------------------------------------
(* live_start_cursor: the live edge first, then the latest sync point.     *)

LoadEdge ==
    /\ fpc = "edge"
    /\ edge' = write_idx
    /\ fpc' = "sync"
    /\ UNCHANGED <<position, head, sync, read, history, ringVars>>

\* latest_sync_point: no query at all while the feed is empty.
LoadSyncHead ==
    /\ fpc = "sync"
    /\ head' = write_idx
    /\ sync' = write_idx
    /\ fpc' = IF write_idx = 0 THEN "anchor" ELSE "keyframe"
    /\ UNCHANGED <<position, edge, read, history, ringVars>>

LoadSyncKeyframe ==
    /\ fpc = "keyframe"
    /\ sync' = FastForward(head)
    /\ fpc' = "anchor"
    /\ UNCHANGED <<position, edge, head, read, history, ringVars>>

\* Mutants of Anchor: no keyframe wait at the live edge, a sync point that may
\* be the head itself, and the live edge loaded after the sync point.
AnchorNoWait ==
    /\ fpc = "anchor"
    /\ IF sync >= SatSub(write_idx, Capacity) /\ sync < head
       THEN cursor' = sync ELSE cursor' = edge
    /\ awaiting' = FALSE
    /\ fpc' = "idle"
    /\ ForgetQuery
    /\ UNCHANGED <<reading, read, history, ringVars>>
AnchorAtHead ==
    /\ fpc = "anchor"
    /\ IF sync >= SatSub(write_idx, Capacity) /\ sync <= head
       THEN cursor' = sync /\ awaiting' = FALSE
       ELSE cursor' = edge /\ awaiting' = TRUE
    /\ fpc' = "idle"
    /\ ForgetQuery
    /\ UNCHANGED <<reading, read, history, ringVars>>
AnchorLateEdge ==
    /\ fpc = "anchor"
    /\ IF sync >= SatSub(write_idx, Capacity) /\ sync < head
       THEN cursor' = sync /\ awaiting' = FALSE
       ELSE cursor' = write_idx /\ awaiting' = TRUE
    /\ fpc' = "idle"
    /\ ForgetQuery
    /\ UNCHANGED <<reading, read, history, ringVars>>

\* The retained keyframe below the head, or the live edge awaiting one.
Anchor ==
    /\ fpc = "anchor"
    /\ IF sync >= SatSub(write_idx, Capacity) /\ sync < head
       THEN cursor' = sync /\ awaiting' = FALSE
       ELSE cursor' = edge /\ awaiting' = TRUE
    /\ fpc' = "idle"
    /\ ForgetQuery
    /\ UNCHANGED <<reading, read, history, ringVars>>

\* The protocol handshake ends: the anchor has aged, take a new one.
HandshakeComplete ==
    /\ fpc = "idle"
    /\ ~reading
    /\ reading' = TRUE
    /\ fpc' = "edge"
    /\ UNCHANGED <<cursor, awaiting, query, head, read, history, ringVars>>

-----------------------------------------------------------------------------
(* read_ring                                                               *)

LoadHead(max_units) ==
    /\ fpc = "idle"
    /\ head' = write_idx
    /\ limit' = max_units
    /\ next' = cursor
    /\ nawait' = awaiting
    /\ reading' = TRUE
    /\ fpc' = "oldest"
    /\ UNCHANGED <<cursor, awaiting, query, got, units, run_start, tag, history,
                   ringVars>>

\* Mutant of Overrun: the cursor is read again as it is.
OverrunInPlace(kept) ==
    /\ delivered' = delivered \o kept
    /\ lost' = TRUE
    /\ fpc' = "idle"
    /\ head' = 0
    /\ ForgetRead
    /\ UNCHANGED <<position, query, ringVars>>

\* A slot no longer holds its sequence: the engine reports FeedOverrun and the
\* visit re-anchors the cursor.
Overrun(kept) ==
    /\ delivered' = delivered \o kept
    /\ lost' = TRUE
    /\ fpc' = "edge"
    /\ head' = 0
    /\ ForgetRead
    /\ UNCHANGED <<position, query, ringVars>>

\* refresh_oldest loads the write index a second time.
CheckRetained ==
    /\ fpc = "oldest"
    /\ \/ cursor < SatSub(write_idx, Capacity) /\ Overrun(<<>>)
       \/ /\ cursor >= SatSub(write_idx, Capacity)
          /\ fpc' = "await"
          /\ UNCHANGED <<position, query, head, read, history, ringVars>>

InBudget == next < head /\ Len(units) < limit

\* The keyframe wait reads with read_at: the packet, then its tag.
AwaitLoad ==
    /\ fpc = "await"
    /\ nawait
    /\ InBudget
    /\ got' = data[Slot(next)]
    /\ fpc' = "verify"
    /\ UNCHANGED <<position, query, head, limit, next, nawait, units, run_start,
                   tag, history, ringVars>>

\* An overrun here leaves the units already collected in the engine's buffer:
\* the RTMP and SRT engines still send them, the others drop them.
AwaitVerify ==
    /\ fpc = "verify"
    /\ \/ /\ got = None \/ unit[Slot(next)] # next
          /\ \E kept \in {<<>>, units} : Overrun(kept)
       \/ /\ got # None /\ unit[Slot(next)] = next
          /\ \/ /\ Kind(got) = "inter" /\ units = <<>>
                /\ next' = next + 1 /\ fpc' = "await"
                /\ UNCHANGED <<nawait, units, run_start>>
             \/ /\ Kind(got) = "inter" /\ units # <<>>
                /\ run_start' = next /\ fpc' = "run"
                /\ UNCHANGED <<next, nawait, units>>
             \/ /\ Kind(got) # "inter"
                /\ nawait' = (Kind(got) # "key")
                /\ units' = Append(units, got)
                /\ next' = next + 1 /\ fpc' = "await"
                /\ UNCHANGED run_start
          /\ got' = None
          /\ UNCHANGED <<position, query, head, limit, tag, history, ringVars>>

AwaitDone ==
    /\ fpc = "await"
    /\ ~(nawait /\ InBudget)
    /\ run_start' = next
    /\ fpc' = "run"
    /\ UNCHANGED <<position, query, head, limit, next, nawait, got, units, tag,
                   history, ringVars>>

\* The common run: whatever the slot holds, unchecked.
RunLoad ==
    /\ fpc = "run"
    /\ ~nawait
    /\ InBudget
    /\ LET packet == data[Slot(next)] IN
       \/ packet = None /\ Overrun(<<>>)
       \/ /\ packet # None
          /\ units' = Append(units, packet)
          /\ next' = next + 1
          /\ UNCHANGED <<fpc, position, query, head, limit, nawait, got,
                         run_start, tag, history, ringVars>>

RunDone ==
    /\ fpc = "run"
    /\ nawait \/ ~InBudget
    /\ fpc' = IF next > run_start THEN "intact" ELSE "return"
    /\ UNCHANGED <<position, query, head, read, history, ringVars>>

\* The oldest write_begin a Relaxed load can return here: the one released by
\* the write index this read loaded, or by any packet it loaded.
SeenWriteBegin ==
    CHOOSE w \in {head} \cup {units[i] + 1 : i \in 1 .. Len(units)} :
        w >= head /\ \A i \in 1 .. Len(units) : w >= units[i] + 1

\* Mutant of CheckRun: off by one, a write has begun over the first slot.
CheckRunLoose ==
    /\ fpc = "intact"
    /\ \E w \in SeenWriteBegin .. write_begin :
          fpc' = IF w <= run_start + Capacity + 1 THEN "return" ELSE "tags"
    /\ tag' = run_start
    /\ UNCHANGED <<position, query, head, limit, next, nawait, got, units,
                   run_start, history, ringVars>>

\* run_intact, first check: no write has begun a lap over the run.
CheckRun ==
    /\ fpc = "intact"
    /\ \E w \in SeenWriteBegin .. write_begin :
          fpc' = IF w <= run_start + Capacity THEN "return" ELSE "tags"
    /\ tag' = run_start
    /\ UNCHANGED <<position, query, head, limit, next, nawait, got, units,
                   run_start, history, ringVars>>

\* run_intact, second check: every slot of the run still has its tag.
CheckTag ==
    /\ fpc = "tags"
    /\ \/ tag = next /\ fpc' = "return"
          /\ UNCHANGED <<position, query, head, read, history, ringVars>>
       \/ /\ tag < next /\ unit[Slot(tag)] = tag
          /\ tag' = tag + 1
          /\ UNCHANGED <<fpc, position, query, head, limit, next, nawait, got,
                         units, run_start, history, ringVars>>
       \/ tag < next /\ unit[Slot(tag)] # tag /\ Overrun(<<>>)

\* Units or Empty: the engine advances its cursor and sends the units.
Return ==
    /\ fpc = "return"
    /\ cursor' = next
    /\ awaiting' = nawait
    /\ delivered' = delivered \o units
    /\ lost' = (lost /\ \A i \in 1 .. Len(units) : Kind(units[i]) # "key")
    /\ fpc' = "idle"
    /\ head' = 0
    /\ ForgetRead
    /\ UNCHANGED <<reading, query, ringVars>>

Visit ==
    \/ LoadEdge
    \/ LoadSyncHead
    \/ LoadSyncKeyframe
    \/ Anchor
    \/ HandshakeComplete
    \/ \E m \in 1 .. MaxUnits : LoadHead(m)
    \/ CheckRetained
    \/ AwaitLoad
    \/ AwaitVerify
    \/ AwaitDone
    \/ RunLoad
    \/ RunDone
    \/ CheckRun
    \/ CheckTag
    \/ Return

Next ==
    \/ Produce /\ UNCHANGED feedVars
    \/ Visit

Spec == Init /\ [][Next]_vars

\* The producer finishes a batch it began, and the shard keeps visiting a leaf
\* that has units to read (the wake protocol is a module of its own).
FairSpec == Spec /\ WF_vars(Produce /\ UNCHANGED feedVars) /\ WF_vars(Visit)

-----------------------------------------------------------------------------
(* Properties                                                              *)

TypeOK ==
    /\ fpc \in {"edge", "sync", "keyframe", "anchor", "idle", "oldest", "await",
               "verify", "run", "intact", "tags", "return"}
    /\ {cursor, edge, head, sync, limit, next, run_start, tag} \subseteq Nat
    /\ {awaiting, reading, nawait, lost} \subseteq BOOLEAN
    /\ got \in Nat \cup {None}
    /\ units \in Seq(Nat)
    /\ delivered \in Seq(Nat)

\* "a contiguous run of sequences ending just before next_cursor" (FeedRead):
\* a run the single write_begin check accepts holds no packet of another lap.
RunIsOwn ==
    fpc = "return" =>
        \A i \in 1 .. Len(units) : units[i] = next - Len(units) + i - 1

\* An interframe is sent only after its keyframe and everything since: a leaf
\* that joins or resynchronises starts video at a keyframe.
DecodableVideo ==
    LET sent(q) == \E i \in 1 .. Len(delivered) : delivered[i] = q
    IN  \A i \in 1 .. Len(delivered) :
            Kind(delivered[i]) = "inter" =>
                \E k \in 0 .. delivered[i] :
                    Kind(k) = "key" /\ \A q \in k .. delivered[i] : sent(q)

\* "the fallback edge is at or before any keyframe the sync-point query did not
\* see" (live_start_cursor): a leaf that falls back to the live edge skips a
\* retained keyframe only when a newer one is still ahead of it.
FallbackMeetsKeyframe ==
    fpc = "idle" /\ awaiting =>
        \A k \in 0 .. Len(kind) - 1 :
            Kind(k) = "key" /\ k < cursor =>
                \/ k + Capacity <= write_idx
                \/ \E k2 \in cursor .. Len(kind) - 1 : Kind(k2) = "key"

\* A leaf that keeps being visited reaches the live edge once the producer
\* stops: resynchronisation does not loop on a lapped keyframe.
CatchesUp == <>[](fpc = "idle" => cursor = write_idx)

\* The feed implements the stream of MediaStream: every step is a publication,
\* a delivery, a loss of place, or none of them.
Stream == INSTANCE MediaStream WITH published <- SubSeq(kind, 1, write_idx)
ImplementsStream == Stream!StreamSpec

=============================================================================
