-------------------------- MODULE RingReaderProofs --------------------------
(***************************************************************************)
(* What a ring Reader returns, proved for every capacity, batch, burst and *)
(* preroll, from the producer's invariant (RingBufferProofs) and an        *)
(* inductive invariant of the reader.                                      *)
(***************************************************************************)
EXTENDS RingReader, RingBufferProofs

\* One past the last packet returned.
Mark == IF delivered = <<>> THEN 0 ELSE delivered[Len(delivered)] + 1

Busy == rpc \in {"load", "check", "return"}

ReaderTypeOK ==
    /\ rpc \in {"new", "attach", "idle", "load", "check", "return", "resync"}
    /\ read_idx \in Nat
    /\ awaiting_keyframe \in BOOLEAN
    /\ head \in Nat
    /\ limit \in Nat
    /\ seq \in Nat
    /\ got \in Nat \cup {None}
    /\ out \in Seq(Nat)
    /\ delivered \in Seq(Nat)
    /\ start \in Nat
    /\ lost \in BOOLEAN

\* A pull works below the write index it loaded, on a contiguous run.
RunInv ==
    /\ head <= write_idx
    /\ Busy => /\ seq >= read_idx + Len(out)
               /\ seq > read_idx => seq <= head
               /\ \A i \in 1 .. Len(out) : out[i] = seq - Len(out) + i - 1
    /\ rpc \in {"new", "attach", "idle"} => out = <<>>

\* A packet loaded but not verified is seq's or a later lap's, and the tag the
\* reader is about to load is at least as new.
CheckInv ==
    rpc = "check" =>
        got \in Nat /\ seq < head /\ seq <= got /\ got <= unit[Slot(seq)]

\* read_idx is behind what was returned only when every returned packet's slot
\* is already written over: the next pull can only overflow again.
OrderInv ==
    /\ InOrder
    /\ rpc \in {"new", "attach"} => delivered = <<>>
    /\ Mark <= write_idx
    /\ read_idx < Mark => Mark + Capacity <= Units
    /\ Busy /\ read_idx < Mark => seq = read_idx /\ out = <<>>

\* A reader resynchronises because it is a lap behind the write index, or
\* because the tags already stored are a lap past it.
ResyncInv ==
    rpc = "resync" =>
        head >= read_idx + Capacity \/ read_idx + Capacity < Units

ReaderInv ==
    RingInv /\ ReaderTypeOK /\ RunInv /\ CheckInv /\ OrderInv /\ ResyncInv

-----------------------------------------------------------------------------
\* Appending the next sequence to a contiguous run.
LEMMA ExtendRun ==
    ASSUME NEW o \in Seq(Nat), NEW q \in Nat,
           \A i \in 1 .. Len(o) : o[i] = q - Len(o) + i - 1
    PROVE  /\ Append(o, q) \in Seq(Nat) /\ Len(Append(o, q)) = Len(o) + 1
           /\ \A i \in 1 .. Len(o) + 1 :
                 Append(o, q)[i] = (q + 1) - (Len(o) + 1) + i - 1
<1>1. Append(o, q) \in Seq(Nat) /\ Len(Append(o, q)) = Len(o) + 1
  OBVIOUS
<1>2. \A i \in 1 .. Len(o) : Append(o, q)[i] = o[i]
  OBVIOUS
<1>3. Append(o, q)[Len(o) + 1] = q
  OBVIOUS
<1>4. Len(o) \in Nat
  OBVIOUS
<1>5. ASSUME NEW i \in 1 .. Len(o) + 1
      PROVE  Append(o, q)[i] = (q + 1) - (Len(o) + 1) + i - 1
  <2>1. CASE i = Len(o) + 1
    BY <1>3, <1>4, <2>1
  <2>2. CASE i \in 1 .. Len(o)
    BY <1>2, <1>4, <2>2
  <2> QED BY <1>4, <2>1, <2>2
<1> QED BY <1>1, <1>5

\* A new reader satisfies the invariant.
LEMMA ReaderInitInv == Init => ReaderInv
<1> SUFFICES ASSUME Init PROVE ReaderInv
  OBVIOUS
<1>1. RingInv
  BY RingInitInv DEF Init
<1>2. ReaderTypeOK
  <2>1. awaiting_keyframe \in BOOLEAN /\ lost \in BOOLEAN
    BY DEF Init, ReaderInit
  <2> QED BY <2>1 DEF Init, ReaderInit, ReaderTypeOK
<1>3. RunInv /\ CheckInv /\ ResyncInv
  BY DEF Init, RingInit, ReaderInit, RunInv, Busy, CheckInv, ResyncInv
<1>4. OrderInv
  BY DEF Init, RingInit, ReaderInit, OrderInv, InOrder, Mark, Busy
<1> QED BY <1>1, <1>2, <1>3, <1>4 DEF ReaderInv

\* The invariant and the position it keeps, unpacked for the steps below.
LEMMA ReaderFacts ==
    ASSUME ReaderInv
    PROVE  /\ write_idx \in Nat /\ Units \in Nat /\ Mark \in Nat
           /\ write_idx <= Units /\ write_idx <= Stored
<1> USE DEF ReaderInv, RingInv, RingTypeOK, ReaderTypeOK
<1>1. write_idx \in Nat /\ Units \in Nat /\ write_idx <= Units /\ write_idx <= Stored
  BY DEF Units, Stored, idx
<1>2. Mark \in Nat
  BY DEF Mark
<1> QED BY <1>1, <1>2

\* Everything returned is below the mark.
LEMMA BelowMark ==
    ASSUME ReaderInv, NEW i \in 1 .. Len(delivered)
    PROVE  delivered[i] < Mark
<1>1. delivered \in Seq(Nat) /\ InOrder
  BY DEF ReaderInv, ReaderTypeOK, OrderInv
<1>2. delivered # <<>> /\ Len(delivered) \in 1 .. Len(delivered)
  BY <1>1
<1>3. delivered[i] <= delivered[Len(delivered)]
  BY <1>1, <1>2 DEF InOrder
<1> QED BY <1>1, <1>2, <1>3 DEF Mark

\* Where fast_forward points: a sequence, less than a lap behind w.
LEMMA FastForwardBound ==
    ASSUME RingInv, NEW w \in Nat
    PROVE  FastForward(w) \in Nat /\ FastForward(w) + Capacity > w
  BY CapacityAssumption
  DEF RingInv, RingTypeOK, FastForward, SatSub, None

\* No store of the producer disturbs the reader's invariant.
LEMMA ProducePreserves ==
    ASSUME ReaderInv, Produce, UNCHANGED readerVars
    PROVE  ReaderInv'
<1> USE CapacityAssumption DEF readerVars
<1>1. RingInv'
  BY ProduceInv DEF ReaderInv
<1>2. /\ write_idx' >= write_idx /\ Units' >= Units
      /\ \A s \in Slots : unit'[s] >= unit[s]
  BY ProduceMonotone DEF ReaderInv
<1>3. write_idx \in Nat /\ Units \in Nat /\ Mark \in Nat
  BY ReaderFacts
<1>4. write_idx' \in Nat /\ Units' \in Nat
  <2>1. write_idx' \in Nat /\ count' \in Nat
    BY <1>1 DEF RingInv, RingTypeOK
  <2>2. Units' = idx' \/ Units' = idx' + 1
    BY DEF Units
  <2> QED BY <2>1, <2>2 DEF idx
<1>5. ReaderTypeOK'
  BY DEF ReaderInv, ReaderTypeOK
<1>6. RunInv'
  BY <1>2, <1>3, <1>4 DEF ReaderInv, ReaderTypeOK, RunInv, Busy
<1>7. CheckInv'
  <2>1. Slot(seq) \in Slots
    BY DivMod DEF ReaderInv, ReaderTypeOK
  <2>2. unit[Slot(seq)] \in Int /\ unit'[Slot(seq)] \in Int
    BY <1>1, <2>1 DEF ReaderInv, RingInv, RingTypeOK, None
  <2> QED BY <1>2, <2>1, <2>2 DEF ReaderInv, ReaderTypeOK, CheckInv
<1>8. OrderInv'
  <2>1. Mark' = Mark
    BY DEF Mark
  <2> QED BY <1>2, <1>3, <1>4, <2>1 DEF ReaderInv, OrderInv, InOrder, Busy
<1>9. ResyncInv'
  BY <1>2, <1>3, <1>4 DEF ReaderInv, ReaderTypeOK, ResyncInv
<1> QED BY <1>1, <1>5, <1>6, <1>7, <1>8, <1>9 DEF ReaderInv

\* Facts every step of the reader starts from.
LEMMA ReadFrame ==
    ASSUME ReaderInv, UNCHANGED ringVars
    PROVE  /\ RingInv' /\ Units' = Units /\ write_idx' = write_idx
           /\ unit' = unit
<1> USE DEF ringVars
<1>1. RingInv'
  BY DEF ReaderInv, RingInv, RingTypeOK, BeginInv, OwnSlotInv, FreshInv,
         KeyframeInv, Units, Stored, idx, Kind
<1> QED BY <1>1 DEF Units, idx

\* Attaching and returning from an operation.
LEMMA AttachPreserves ==
    ASSUME ReaderInv, Attach \/ Register
    PROVE  ReaderInv'
<1> USE CapacityAssumption
<1>1. UNCHANGED ringVars
  BY DEF Attach, Register
<1>2. RingInv' /\ Units' = Units /\ write_idx' = write_idx
  BY <1>1, ReadFrame
<1>3. write_idx \in Nat /\ Units \in Nat /\ Mark \in Nat
  BY ReaderFacts
<1>4. CASE Attach
  <2>1. ReaderTypeOK'
    BY <1>3, <1>4 DEF ReaderInv, ReaderTypeOK, Attach
  <2>2. RunInv' /\ CheckInv' /\ ResyncInv'
    BY <1>2, <1>3, <1>4 DEF ReaderInv, RunInv, Busy, CheckInv, ResyncInv, Attach
  <2>3. OrderInv'
    BY <1>2, <1>3, <1>4 DEF ReaderInv, OrderInv, InOrder, Mark, Busy, Attach
  <2> QED BY <1>2, <2>1, <2>2, <2>3 DEF ReaderInv
<1>5. CASE Register
  <2>1. read_idx' \in Nat /\ start' \in Nat
    <3>1. head \in Nat
      BY DEF ReaderInv, ReaderTypeOK
    <3>2. FastForward(head) \in Nat
      BY <3>1, FastForwardBound DEF ReaderInv
    <3>3. PrerollStart(head) \in Nat
      BY <3>1, <3>2, PrerollAssumption DEF PrerollStart, SatSub
    <3> QED BY <1>5, <3>1, <3>2, <3>3 DEF Register
  <2>2. ReaderTypeOK'
    BY <1>5, <2>1 DEF ReaderInv, ReaderTypeOK, Register, Done
  <2>3. RunInv' /\ CheckInv' /\ ResyncInv'
    BY <1>2, <1>3, <1>5
    DEF ReaderInv, RunInv, Busy, CheckInv, ResyncInv, Register, Done
  <2>4. OrderInv'
    BY <1>2, <1>3, <1>5, <2>1
    DEF ReaderInv, OrderInv, InOrder, Mark, Busy, Register, Done
  <2> QED BY <1>2, <2>2, <2>3, <2>4 DEF ReaderInv
<1> QED BY <1>4, <1>5

\* Starting a pull and loading a slot.
LEMMA LoadPreserves ==
    ASSUME ReaderInv, LoadSlot \/ \E m \in 1 .. MaxBurst : PullBurst(m)
    PROVE  ReaderInv'
<1> USE CapacityAssumption, MaxBurstAssumption
<1>1. UNCHANGED ringVars
  BY DEF LoadSlot, PullBurst
<1>2. RingInv' /\ Units' = Units /\ write_idx' = write_idx /\ unit' = unit
  BY <1>1, ReadFrame
<1>3. /\ write_idx \in Nat /\ Units \in Nat /\ Mark \in Nat
      /\ write_idx <= Units /\ write_idx <= Stored
  BY ReaderFacts
<1>4. ASSUME NEW m \in 1 .. MaxBurst, PullBurst(m) PROVE ReaderInv'
  <2>1. ReaderTypeOK'
    BY <1>3, <1>4 DEF ReaderInv, ReaderTypeOK, PullBurst
  <2>2. RunInv' /\ CheckInv' /\ ResyncInv'
    BY <1>2, <1>3, <1>4
    DEF ReaderInv, ReaderTypeOK, RunInv, Busy, CheckInv, ResyncInv, PullBurst,
        LagsALap
  <2>3. OrderInv'
    BY <1>2, <1>3, <1>4
    DEF ReaderInv, RunInv, OrderInv, InOrder, Mark, Busy, PullBurst
  <2> QED BY <1>2, <2>1, <2>2, <2>3 DEF ReaderInv
<1>5. CASE LoadSlot
  <2>1. Slot(seq) \in Slots /\ seq \in 0 .. Stored - 1
    <3>1. seq \in Nat /\ seq < head /\ head <= write_idx /\ head \in Nat
      BY <1>5 DEF LoadSlot, InRun, ReaderInv, ReaderTypeOK, RunInv
    <3>2. Stored \in Nat
      BY DEF ReaderInv, RingInv, RingTypeOK, Stored, idx
    <3> QED BY <1>3, <3>1, <3>2, DivMod
  <2>2. /\ data[Slot(seq)] >= seq /\ data[Slot(seq)] \in Nat
        /\ unit[Slot(seq)] >= data[Slot(seq)]
    BY <2>1 DEF ReaderInv, RingInv, RingTypeOK, FreshInv, None
  <2>3. got' = data[Slot(seq)] /\ rpc' = "check"
    BY <1>5, <2>2 DEF LoadSlot, None
  <2>4. ReaderTypeOK'
    BY <1>5, <2>2, <2>3 DEF ReaderInv, ReaderTypeOK, LoadSlot
  <2>5. RunInv' /\ CheckInv' /\ ResyncInv'
    BY <1>2, <1>5, <2>2, <2>3
    DEF ReaderInv, ReaderTypeOK, RunInv, Busy, CheckInv, ResyncInv, LoadSlot, InRun
  <2>6. OrderInv'
    BY <1>2, <1>5, <2>3 DEF ReaderInv, OrderInv, InOrder, Mark, Busy, LoadSlot
  <2> QED BY <1>2, <2>4, <2>5, <2>6 DEF ReaderInv
<1> QED BY <1>4, <1>5

\* Verifying the loaded packet: a matching tag proves it is seq's own.
LEMMA CheckPreserves ==
    ASSUME ReaderInv, CheckUnit
    PROVE  ReaderInv'
<1> USE CapacityAssumption
<1>1. UNCHANGED ringVars
  BY DEF CheckUnit
<1>2. RingInv' /\ Units' = Units /\ write_idx' = write_idx /\ unit' = unit
  BY <1>1, ReadFrame
<1>3. /\ write_idx \in Nat /\ Units \in Nat /\ Mark \in Nat
      /\ write_idx <= Units
  BY ReaderFacts
<1>4. /\ rpc = "check" /\ seq \in Nat /\ seq < head /\ head \in Nat
      /\ head <= write_idx /\ got \in Nat /\ seq <= got
      /\ got <= unit[Slot(seq)] /\ read_idx \in Nat
      /\ out \in Seq(Nat) /\ seq >= read_idx + Len(out)
  BY DEF CheckUnit, ReaderInv, ReaderTypeOK, RunInv, Busy, CheckInv
<1>5. CASE unit[Slot(seq)] # seq
  <2>1. rpc' = "resync" /\ UNCHANGED <<awaiting_keyframe, out, seq>>
    BY <1>5 DEF CheckUnit, Take
  <2>2. seq + Capacity < Units
    BY <1>3, <1>4, <1>5, TagLapped DEF ReaderInv
  <2>3. ReaderTypeOK'
    BY <2>1 DEF ReaderInv, ReaderTypeOK, CheckUnit
  <2>4. RunInv' /\ CheckInv' /\ ResyncInv'
    BY <1>2, <1>3, <1>4, <2>1, <2>2
    DEF ReaderInv, RunInv, Busy, CheckInv, ResyncInv, CheckUnit
  <2>5. OrderInv'
    BY <1>2, <2>1 DEF ReaderInv, OrderInv, InOrder, Mark, Busy, CheckUnit
  <2> QED BY <1>2, <2>3, <2>4, <2>5 DEF ReaderInv
<1>6. CASE unit[Slot(seq)] = seq
  <2>1. got = seq
    BY <1>4, <1>6
  <2>2. read_idx >= Mark
    <3> SUFFICES ASSUME read_idx < Mark PROVE FALSE
      BY <1>3, <1>4
    <3>1. seq = read_idx /\ Mark + Capacity <= Units
      BY <1>4 DEF ReaderInv, OrderInv, Busy
    <3>2. seq + Capacity < Units
      BY <1>3, <1>4, <3>1
    <3> QED BY <1>4, <1>6, <3>2, LappedTag DEF ReaderInv
  <2>3. Take
    BY <1>6 DEF CheckUnit
  <2>4. /\ rpc' \in {"load", "return"} /\ awaiting_keyframe' \in BOOLEAN
        /\ \/ out' = out /\ seq' = seq
           \/ out' = out /\ out = <<>> /\ seq' = seq + 1
           \/ out' = Append(out, seq) /\ seq' = seq + 1
    BY <2>1, <2>3 DEF Take, ReaderInv, ReaderTypeOK
  <2>5. PICK o \in Seq(Nat), p \in Nat :
           /\ out' = o /\ seq' = p
           /\ p >= read_idx + Len(o) /\ p <= head
           /\ \A i \in 1 .. Len(o) : o[i] = p - Len(o) + i - 1
    <3>1. \A i \in 1 .. Len(out) : out[i] = seq - Len(out) + i - 1
      BY <1>4 DEF ReaderInv, RunInv, Busy
    <3>2. CASE out' = out /\ seq' = seq
      BY <1>4, <3>1, <3>2
    <3>3. CASE out' = out /\ out = <<>> /\ seq' = seq + 1
      <4>1. seq + 1 \in Nat /\ seq + 1 >= read_idx + Len(out) /\ seq + 1 <= head
        BY <1>4, <3>3
      <4>2. \A i \in 1 .. Len(out) : out[i] = (seq + 1) - Len(out) + i - 1
        BY <3>3
      <4> QED BY <1>4, <3>3, <4>1, <4>2
    <3>4. CASE out' = Append(out, seq) /\ seq' = seq + 1
      <4>1. /\ Append(out, seq) \in Seq(Nat)
            /\ Len(Append(out, seq)) = Len(out) + 1
            /\ \A i \in 1 .. Len(out) + 1 :
                  Append(out, seq)[i] = (seq + 1) - (Len(out) + 1) + i - 1
        BY <1>4, <3>1, ExtendRun
      <4>2. seq + 1 \in Nat /\ seq + 1 >= read_idx + (Len(out) + 1) /\ seq + 1 <= head
        BY <1>4
      <4> QED BY <3>4, <4>1, <4>2
    <3> QED BY <2>4, <3>2, <3>3, <3>4
  <2>6. ReaderTypeOK' /\ RunInv'
    <3>1. ReaderTypeOK'
      BY <2>4, <2>5 DEF ReaderInv, ReaderTypeOK, CheckUnit
    <3>2. RunInv'
      BY <1>2, <2>4, <2>5 DEF ReaderInv, RunInv, Busy, CheckUnit
    <3> QED BY <3>1, <3>2
  <2>7. CheckInv' /\ ResyncInv'
    BY <2>4 DEF CheckInv, ResyncInv
  <2>8. OrderInv'
    BY <1>2, <1>3, <1>4, <2>2, <2>4
    DEF ReaderInv, OrderInv, InOrder, Mark, Busy, CheckUnit
  <2> QED BY <1>2, <2>6, <2>7, <2>8 DEF ReaderInv
<1> QED BY <1>5, <1>6

\* Returning a run: it starts at or past everything returned before.
LEMMA ReturnPreserves ==
    ASSUME ReaderInv, Return
    PROVE  ReaderInv'
<1> USE CapacityAssumption
<1>1. UNCHANGED ringVars
  BY DEF Return
<1>2. RingInv' /\ Units' = Units /\ write_idx' = write_idx /\ unit' = unit
  BY <1>1, ReadFrame
<1>3. write_idx \in Nat /\ Units \in Nat /\ Mark \in Nat
  BY ReaderFacts
<1>4. /\ rpc \in {"load", "return"} /\ seq \in Nat /\ head \in Nat
      /\ read_idx \in Nat /\ out \in Seq(Nat) /\ delivered \in Seq(Nat)
      /\ seq >= read_idx + Len(out) /\ (seq > read_idx => seq <= head)
      /\ head <= write_idx
      /\ \A i \in 1 .. Len(out) : out[i] = seq - Len(out) + i - 1
  BY DEF Return, ReaderInv, ReaderTypeOK, RunInv, Busy
<1>5. /\ delivered' = delivered \o out /\ read_idx' = seq /\ rpc' = "idle"
      /\ out' = <<>>
  BY DEF Return, Done
<1>6. ReaderTypeOK'
  <2>1. lost' \in BOOLEAN
    BY DEF Return
  <2>2. delivered' \in Seq(Nat)
    BY <1>4, <1>5
  <2> QED BY <1>4, <1>5, <2>1, <2>2 DEF Return, Done, ReaderInv, ReaderTypeOK
<1>7. RunInv' /\ CheckInv' /\ ResyncInv'
  BY <1>2, <1>3, <1>5 DEF Return, Done, RunInv, Busy, CheckInv, ResyncInv
<1>8. CASE out = <<>>
  <2>1. delivered' = delivered
    BY <1>4, <1>5, <1>8
  <2>2. OrderInv'
    BY <1>2, <1>3, <1>4, <1>5, <2>1
    DEF ReaderInv, OrderInv, InOrder, Mark, Busy
  <2> QED BY <1>2, <1>6, <1>7, <2>2 DEF ReaderInv
<1>9. CASE out # <<>>
  <2>1. Len(out) \in Nat /\ Len(out) > 0 /\ Len(delivered) \in Nat
    BY <1>4, <1>9
  <2>2. read_idx >= Mark
    BY <1>3, <1>4, <1>9 DEF ReaderInv, OrderInv, Busy
  <2>3. \A i \in 1 .. Len(delivered) : delivered[i] < Mark
    BY BelowMark
  <2>4. /\ Len(delivered') = Len(delivered) + Len(out)
        /\ \A i \in 1 .. Len(delivered) : delivered'[i] = delivered[i]
        /\ \A i \in Len(delivered) + 1 .. Len(delivered) + Len(out) :
              delivered'[i] = seq - Len(out) + (i - Len(delivered)) - 1
    BY <1>4, <1>5, <2>1
  <2> DEFINE m == Len(delivered)
             n == Len(out)
  <2>5. Mark' = seq
    <3>1. delivered'[m + n] = seq - 1
      <4>1. m + n \in m + 1 .. m + n
        BY <2>1
      <4>2. delivered'[m + n] = seq - n + ((m + n) - m) - 1
        BY <2>4, <4>1
      <4> QED BY <1>4, <2>1, <4>2
    <3>2. delivered' # <<>>
      BY <1>6, <2>1, <2>4 DEF ReaderTypeOK
    <3> QED BY <1>4, <2>4, <3>1, <3>2 DEF Mark
  <2>6. InOrder'
    <3> SUFFICES ASSUME NEW i \in 1 .. m + n, NEW j \in 1 .. m + n, i < j
                 PROVE  delivered'[i] < delivered'[j]
      BY <2>4 DEF InOrder
    <3>1. CASE j <= m
      <4>1. i \in 1 .. m /\ j \in 1 .. m
        BY <2>1, <3>1
      <4> QED BY <2>4, <4>1 DEF ReaderInv, OrderInv, InOrder
    <3>2. CASE i <= m /\ j > m
      <4>1. i \in 1 .. m /\ j \in m + 1 .. m + n
        BY <2>1, <3>2
      <4>2. delivered'[i] < Mark /\ delivered'[i] \in Nat
        <5>1. delivered'[i] = delivered[i] /\ delivered[i] \in Nat
          BY <1>4, <2>4, <4>1
        <5> QED BY <2>3, <4>1, <5>1
      <4>3. delivered'[j] = seq - n + (j - m) - 1
        BY <2>4, <4>1
      <4> QED BY <1>3, <1>4, <2>1, <2>2, <4>1, <4>2, <4>3
    <3>3. CASE i > m
      <4>1. i \in m + 1 .. m + n /\ j \in m + 1 .. m + n
        BY <2>1, <3>3
      <4> QED BY <1>4, <2>1, <2>4, <4>1
    <3> QED BY <2>1, <3>1, <3>2, <3>3
  <2>7. OrderInv'
    BY <1>2, <1>3, <1>4, <1>5, <2>1, <2>5, <2>6 DEF OrderInv, Busy
  <2> QED BY <1>2, <1>6, <1>7, <2>7 DEF ReaderInv
<1> QED BY <1>8, <1>9

\* Resynchronising: the new position is past everything returned, or in slots
\* that are already written over.
LEMMA ResyncPreserves ==
    ASSUME ReaderInv, Resync
    PROVE  ReaderInv'
<1> USE CapacityAssumption
<1>1. UNCHANGED ringVars
  BY DEF Resync
<1>2. RingInv' /\ Units' = Units /\ write_idx' = write_idx /\ unit' = unit
  BY <1>1, ReadFrame
<1>3. write_idx \in Nat /\ Units \in Nat /\ Mark \in Nat
  BY ReaderFacts
<1>4. /\ head \in Nat /\ read_idx \in Nat
      /\ head >= read_idx + Capacity \/ read_idx + Capacity < Units
  BY DEF Resync, ReaderInv, ReaderTypeOK, ResyncInv
<1>5. PICK r \in Nat : r = read_idx' /\ r + Capacity > head
  BY <1>4, FastForwardBound DEF Resync, ReaderInv
<1>6. ReaderTypeOK'
  BY <1>5 DEF Resync, Done, ReaderInv, ReaderTypeOK
<1>7. RunInv' /\ CheckInv' /\ ResyncInv'
  BY <1>2, <1>3 DEF Resync, Done, RunInv, Busy, CheckInv, ResyncInv
<1>8. OrderInv'
  <2>1. read_idx < Mark => Mark + Capacity <= Units
    BY DEF ReaderInv, OrderInv
  <2>2. r < Mark => Mark + Capacity <= Units
    <3>1. PICK m \in Nat, u \in Nat : m = Mark /\ u = Units
      BY <1>3
    <3>2. /\ head \in Nat /\ read_idx \in Nat
          /\ head >= read_idx + Capacity \/ read_idx + Capacity < u
          /\ read_idx < m => m + Capacity <= u
          /\ r + Capacity > head
      BY <1>4, <1>5, <2>1, <3>1
    <3>3. r < m => m + Capacity <= u
      BY <3>2
    <3> QED BY <3>1, <3>3
  <2> QED BY <1>2, <1>5, <2>2
          DEF Resync, Done, ReaderInv, OrderInv, InOrder, Mark, Busy
<1> QED BY <1>2, <1>6, <1>7, <1>8 DEF ReaderInv

-----------------------------------------------------------------------------
\* The invariant holds of every reachable state.
THEOREM ReaderInvariant == Spec => []ReaderInv
<1>1. Init => ReaderInv
  BY ReaderInitInv
<1>2. ReaderInv /\ [Next]_vars => ReaderInv'
  <2> SUFFICES ASSUME ReaderInv, [Next]_vars PROVE ReaderInv'
    OBVIOUS
  <2>1. CASE Produce /\ UNCHANGED readerVars
    BY <2>1, ProducePreserves
  <2>2. CASE Read
    BY <2>2, AttachPreserves, LoadPreserves, CheckPreserves, ReturnPreserves,
       ResyncPreserves
    DEF Read
  <2>3. CASE UNCHANGED vars
    <3>1. UNCHANGED ringVars /\ UNCHANGED readerVars
      BY <2>3 DEF vars
    <3>2. RingInv' /\ Units' = Units /\ write_idx' = write_idx /\ unit' = unit
      BY <3>1, ReadFrame
    <3> QED BY <3>1, <3>2
            DEF readerVars, ReaderInv, ReaderTypeOK, RunInv, Busy, CheckInv,
                OrderInv, InOrder, Mark, ResyncInv
  <2> QED BY <2>1, <2>2, <2>3 DEF Next
<1> QED BY <1>1, <1>2, PTL DEF Spec

\* Type correctness of the ring and its reader.
THEOREM TypeCorrect == Spec => []TypeOK
<1>1. ReaderInv => TypeOK
  BY DEF ReaderInv, RingInv, RingTypeOK, ReaderTypeOK, TypeOK
<1> QED BY <1>1, ReaderInvariant, PTL

\* pull_burst returns a contiguous run ending at the new next_sequence: the
\* sequence tag keeps every other lap's packet out, for every capacity and
\* batch size.
THEOREM RunsAreContiguous == Spec => []ContiguousRun
<1>1. ReaderInv => ContiguousRun
  BY DEF ReaderInv, RunInv, Busy, ContiguousRun
<1> QED BY <1>1, ReaderInvariant, PTL

\* A reader never returns a packet twice or out of order, overflow included.
THEOREM DeliveryInOrder == Spec => []InOrder
<1>1. ReaderInv => InOrder
  BY DEF ReaderInv, OrderInv
<1> QED BY <1>1, ReaderInvariant, PTL

\* A reader never returns a packet of a batch that is not published yet.
THEOREM DeliveryPublished == Spec => []OnlyPublished
<1>1. ReaderInv => OnlyPublished
  <2> SUFFICES ASSUME ReaderInv, NEW i \in 1 .. Len(delivered)
               PROVE  delivered[i] < write_idx
    BY DEF OnlyPublished
  <2>1. delivered[i] \in Nat /\ Mark <= write_idx
    BY DEF ReaderInv, ReaderTypeOK, OrderInv
  <2> QED BY <2>1, BelowMark, ReaderFacts
<1> QED BY <1>1, ReaderInvariant, PTL

=============================================================================
