--------------------------- MODULE MCInputSelection ---------------------------
(* Small instances of InputSelection: two inputs, by publisher kind.        *)
EXTENDS InputSelection, TLC

CONSTANTS in1, in2

Assign(first, second) == (in1 :> first) @@ (in2 :> second)

BothRtmp == {Assign("rtmp", "rtmp")}

\* A network publisher beside one that has no standby cache, or that does not
\* follow ring handoffs.
MixedKinds == {Assign("srt", "rtmp"), Assign("rtmp", "hls")}

\* The kinds whose promotions keep the timestamps in order, both ways round.
RemappedKinds ==
    {Assign("srt", "srt"), Assign("pipeline", "hls"), Assign("hls", "pipeline")}

\* Sound where the assignments are closed under exchanging the inputs.
InputSymmetry == Permutations({in1, in2})
=============================================================================
