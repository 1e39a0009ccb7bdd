SPECIFICATION Spec
CONSTANTS
    in1 = in1
    in2 = in2
    Inputs = {in1, in2}
    NoInput = NoInput
    Protocols <- RemappedKinds
    MaxAttempts = 2
    MaxStale = 0
    MaxRings = 1
    MaxDts = 3
    MaxBatch = 2
    MaxGop = 2
SYMMETRY InputSymmetry
CHECK_DEADLOCK FALSE
PROPERTIES
    NeverBackwards
    
