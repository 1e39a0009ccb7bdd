SPECIFICATION Spec
CONSTANTS
    in1 = in1
    in2 = in2
    Inputs = {in1, in2}
    NoInput = NoInput
    Protocols <- BothRtmp
    MaxAttempts = 2
    MaxStale = 1
    MaxRings = 0
    MaxDts = 0
    MaxBatch = 1
    MaxGop = 1
INVARIANT SingleWriter

