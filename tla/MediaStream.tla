---------------------------- MODULE MediaStream -----------------------------
(***************************************************************************)
(* What the media ring promises one consumer, with no ring in it: packets  *)
(* are published in batches, the consumer is given runs of them in order,  *)
(* each at most once, and when it loses its place it is told so by never   *)
(* seeing an interframe before the next keyframe.  RingReader (Reader::    *)
(* pull_burst) and RingFeed (the egress feeds) implement it.               *)
(***************************************************************************)
EXTENDS Integers, Sequences

VARIABLES
    published,  \* kinds of the packets published; packet q is published[q + 1]
    delivered,  \* sequences of the packets given to the consumer
    lost        \* the consumer lost its place and has seen no keyframe since

streamVars == <<published, delivered, lost>>

PacketKinds == {"key", "inter", "audio"}

KindOf(q) == published[q + 1]

\* The run of sequences from a to b.
Run(a, b) == [i \in 1 .. b - a + 1 |-> a + i - 1]

StreamInit ==
    /\ published = <<>>
    /\ delivered = <<>>
    /\ lost \in BOOLEAN

\* A batch becomes visible as a whole.
PublishBatch ==
    /\ published' \in Seq(PacketKinds)
    /\ Len(published') > Len(published)
    /\ SubSeq(published', 1, Len(published)) = published
    /\ UNCHANGED <<delivered, lost>>

\* The consumer loses its place: it fell a lap behind the producer.
Lose ==
    /\ lost' = TRUE
    /\ UNCHANGED <<published, delivered>>

\* The run a .. b of published packets.  With its place kept the consumer goes
\* on right after the last packet (or starts anywhere, on its first run); once
\* it lost its place it may skip ahead, but takes no interframe before a
\* keyframe.
Deliver(a, b) ==
    /\ a <= b
    /\ delivered # <<>> =>
          IF lost THEN a > delivered[Len(delivered)]
                  ELSE a = delivered[Len(delivered)] + 1
    /\ lost => \A q \in a .. b :
                  KindOf(q) = "inter" => \E k \in a .. q : KindOf(k) = "key"
    /\ delivered' = delivered \o Run(a, b)
    /\ lost' = (lost /\ \A q \in a .. b : KindOf(q) # "key")
    /\ UNCHANGED published

StreamNext ==
    \/ PublishBatch
    \/ Lose
    \/ \E a, b \in 0 .. Len(published) - 1 : Deliver(a, b)

StreamSpec == StreamInit /\ [][StreamNext]_streamVars

=============================================================================
