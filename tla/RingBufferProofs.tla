-------------------------- MODULE RingBufferProofs --------------------------
(***************************************************************************)
(* Facts about the slots of RingBuffer and the inductive invariant of its  *)
(* producer, for every capacity, batch size and number of packets.         *)
(***************************************************************************)
EXTENDS RingBuffer, TLAPS

-----------------------------------------------------------------------------
(* Slot arithmetic                                                         *)

\* Division with remainder by the capacity.
LEMMA DivMod ==
    ASSUME NEW p \in Nat
    PROVE  /\ p = Capacity * (p \div Capacity) + Slot(p)
           /\ p \div Capacity \in Nat
           /\ Slot(p) \in Slots
  BY CapacityAssumption DEF Slot, Slots

\* Two sequences that share a slot are at least a lap apart.
LEMMA LapApart ==
    ASSUME NEW p \in Nat, NEW q \in Nat, Slot(p) = Slot(q), p < q
    PROVE  p + Capacity <= q
<1> DEFINE a == p \div Capacity
           b == q \div Capacity
<1>1. /\ p = Capacity * a + Slot(p)
      /\ q = Capacity * b + Slot(p)
      /\ a \in Nat /\ b \in Nat /\ Slot(p) \in Nat
  <2>1. p = Capacity * a + Slot(p) /\ a \in Nat /\ Slot(p) \in Slots
    BY DivMod
  <2>2. q = Capacity * b + Slot(q) /\ b \in Nat
    BY DivMod
  <2> QED BY <2>1, <2>2, CapacityAssumption DEF Slots
<1> HIDE DEF a, b
<1>2. Capacity * a < Capacity * b
  BY <1>1, CapacityAssumption
<1>3. a < b
  BY <1>1, <1>2, CapacityAssumption
<1>4. PICK d \in Nat : b = a + 1 + d
  <2>1. b = a + 1 + (b - a - 1) /\ b - a - 1 \in Nat
    BY <1>1, <1>3
  <2> QED BY <2>1
<1>5. Capacity * b = Capacity * a + Capacity + Capacity * d
  BY <1>1, <1>4, CapacityAssumption
<1>6. Capacity * d \in Nat
  BY <1>4, CapacityAssumption
<1> QED BY <1>1, <1>5, <1>6, CapacityAssumption

\* A lap later the producer is back at the same slot.
LEMMA NextLap ==
    ASSUME NEW p \in Nat
    PROVE  Slot(p + Capacity) = Slot(p)
<1> DEFINE a == p \div Capacity
           b == (p + Capacity) \div Capacity
           r == Slot(p)
           s == Slot(p + Capacity)
<1>1. /\ p = Capacity * a + r
      /\ p + Capacity = Capacity * b + s
      /\ a \in Nat /\ b \in Nat /\ r \in Slots /\ s \in Slots
  BY DivMod, CapacityAssumption
<1> HIDE DEF a, b, r, s
<1>2. Capacity * (b - a - 1) = r - s
  BY <1>1, CapacityAssumption DEF Slots
<1>3. b - a - 1 = 0
  <2>1. CASE b - a - 1 >= 1
    <3>1. Capacity * (b - a - 1) >= Capacity
      BY <1>1, <2>1, CapacityAssumption
    <3> QED BY <1>1, <1>2, <3>1, CapacityAssumption DEF Slots
  <2>2. CASE b - a - 1 <= -1
    <3>1. Capacity * (b - a - 1) <= -Capacity
      BY <1>1, <2>2, CapacityAssumption
    <3> QED BY <1>1, <1>2, <3>1, CapacityAssumption DEF Slots
  <2> QED BY <1>1, <2>1, <2>2
<1> QED BY <1>1, <1>2, <1>3, CapacityAssumption DEF Slots, r, s

-----------------------------------------------------------------------------
(* The producer's inductive invariant                                      *)

\* One past the last sequence whose unit word, resp. packet, is stored.
Units == IF wpc \in {"slot", "keyframe"} THEN idx + 1 ELSE idx
Stored == IF wpc = "keyframe" THEN idx + 1 ELSE idx

RingTypeOK ==
    /\ data \in [Slots -> Nat \cup {None}]
    /\ unit \in [Slots -> Nat \cup {None}]
    /\ write_idx \in Nat
    /\ write_begin \in Nat
    /\ last_keyframe_idx \in Nat \cup {None}
    /\ kind \in Seq(Kinds)
    /\ count \in Nat
    /\ wpc \in {"begin", "unit", "slot", "keyframe"}

\* write_begin, and the packets begun, are exactly one ahead inside a packet.
BeginInv ==
    /\ write_begin = IF wpc = "begin" THEN idx ELSE idx + 1
    /\ Len(kind) = write_begin

\* A slot holds, and is tagged with, a sequence of its own already written.
OwnSlotInv ==
    \A s \in Slots :
        /\ data[s] # None => data[s] < Stored /\ Slot(data[s]) = s
        /\ unit[s] # None => unit[s] < Units /\ Slot(unit[s]) = s

\* A written sequence's slot holds it or a later lap, and the tag never lags
\* behind the packet.
FreshInv ==
    /\ \A q \in 0 .. Stored - 1 : data[Slot(q)] >= q
    /\ \A q \in 0 .. Units - 1 : unit[Slot(q)] >= q
    /\ \A s \in Slots : unit[s] >= data[s]

\* The remembered keyframe is a stored video keyframe.
KeyframeInv ==
    /\ last_keyframe_idx # None =>
           last_keyframe_idx < Stored /\ Kind(last_keyframe_idx) = "key"
    /\ wpc = "keyframe" => Kind(idx) = "key"

RingInv == RingTypeOK /\ BeginInv /\ OwnSlotInv /\ FreshInv /\ KeyframeInv

\* The empty ring satisfies the invariant.
LEMMA RingInitInv == RingInit => RingInv
  BY CapacityAssumption
  DEF RingInit, RingInv, RingTypeOK, BeginInv, OwnSlotInv, FreshInv,
      KeyframeInv, Units, Stored, idx, None, Slots, Kinds

\* Every store of the producer preserves it.
LEMMA ProduceInv == RingInv /\ Produce => RingInv'
<1> SUFFICES ASSUME RingInv, Produce PROVE RingInv'
  OBVIOUS
<1> USE CapacityAssumption DEF RingInv, RingTypeOK, BeginInv, None
<1>1. idx \in Nat /\ Slot(idx) \in Slots
  BY DivMod DEF idx
<1>2. ASSUME NEW k \in Kinds, BeginWrite(k) PROVE RingInv'
  <2>1. RingTypeOK' /\ BeginInv'
    BY <1>1, <1>2 DEF BeginWrite, idx
  <2>2. Units' = Units /\ Stored' = Stored
    BY <1>2 DEF BeginWrite, Units, Stored, idx
  <2>3. OwnSlotInv' /\ FreshInv'
    BY <1>2, <2>2 DEF BeginWrite, OwnSlotInv, FreshInv
  <2>4. KeyframeInv'
    BY <1>1, <1>2, <2>2 DEF BeginWrite, KeyframeInv, Kind, Stored, idx
  <2> QED BY <2>1, <2>3, <2>4
<1>3. CASE StoreUnit
  <2>1. RingTypeOK' /\ BeginInv'
    BY <1>1, <1>3 DEF StoreUnit, idx
  <2>2. Units = idx /\ Units' = idx + 1 /\ Stored = idx /\ Stored' = idx
    BY <1>3 DEF StoreUnit, Units, Stored, idx
  <2>3. OwnSlotInv'
    BY <1>1, <1>3, <2>2 DEF StoreUnit, OwnSlotInv
  <2>4. FreshInv'
    <3>1. \A q \in 0 .. Units' - 1 : unit'[Slot(q)] >= q
      <4> TAKE q \in 0 .. Units' - 1
      <4>1. q \in Nat /\ Slot(q) \in Slots
        BY <1>1, <2>2, DivMod
      <4>2. CASE Slot(q) = Slot(idx)
        BY <1>1, <1>3, <2>2, <4>1, <4>2 DEF StoreUnit
      <4>3. CASE Slot(q) # Slot(idx)
        <5>1. q \in 0 .. Units - 1
          BY <1>1, <2>2, <4>1, <4>3
        <5> QED BY <1>1, <1>3, <4>1, <4>3, <5>1 DEF StoreUnit, FreshInv
      <4> QED BY <4>2, <4>3
    <3>2. \A s \in Slots : unit'[s] >= data'[s]
      BY <1>1, <1>3, <2>2 DEF StoreUnit, FreshInv, OwnSlotInv
    <3> QED BY <1>3, <2>2, <3>1, <3>2 DEF StoreUnit, FreshInv
  <2>5. KeyframeInv'
    BY <1>3, <2>2 DEF StoreUnit, KeyframeInv, Kind, idx
  <2> QED BY <2>1, <2>3, <2>4, <2>5
<1>4. CASE StoreSlot
  <2>1. RingTypeOK' /\ BeginInv'
    BY <1>1, <1>4 DEF StoreSlot, idx
  <2>2. Units = idx + 1 /\ Units' = idx + 1 /\ Stored = idx /\ Stored' = idx + 1
    BY <1>1, <1>4 DEF StoreSlot, Units, Stored, idx
  <2>3. OwnSlotInv'
    BY <1>1, <1>4, <2>2 DEF StoreSlot, OwnSlotInv
  <2>4. FreshInv'
    <3>1. \A q \in 0 .. Stored' - 1 : data'[Slot(q)] >= q
      <4> TAKE q \in 0 .. Stored' - 1
      <4>1. q \in Nat /\ Slot(q) \in Slots
        BY <1>1, <2>2, DivMod
      <4>2. CASE Slot(q) = Slot(idx)
        BY <1>1, <1>4, <2>2, <4>1, <4>2 DEF StoreSlot
      <4>3. CASE Slot(q) # Slot(idx)
        <5>1. q \in 0 .. Stored - 1
          BY <1>1, <2>2, <4>1, <4>3
        <5> QED BY <1>1, <1>4, <4>1, <4>3, <5>1 DEF StoreSlot, FreshInv
      <4> QED BY <4>2, <4>3
    <3>2. \A s \in Slots : unit'[s] >= data'[s]
      <4>1. unit[Slot(idx)] >= idx
        BY <1>1, <2>2 DEF FreshInv
      <4> QED BY <1>1, <1>4, <4>1 DEF StoreSlot, FreshInv
    <3> QED BY <1>4, <2>2, <3>1, <3>2 DEF StoreSlot, FreshInv
  <2>5. KeyframeInv'
    BY <1>1, <1>4, <2>2 DEF StoreSlot, KeyframeInv, Kind, idx
  <2> QED BY <2>1, <2>3, <2>4, <2>5
<1>5. CASE StoreKeyframe
  <2>1. RingTypeOK' /\ BeginInv'
    BY <1>1, <1>5 DEF StoreKeyframe, idx
  <2>2. Units = idx + 1 /\ Units' = idx + 1 /\ Stored = idx + 1 /\ Stored' = idx + 1
    BY <1>1, <1>5 DEF StoreKeyframe, Units, Stored, idx
  <2>3. OwnSlotInv' /\ FreshInv'
    BY <1>5, <2>2 DEF StoreKeyframe, OwnSlotInv, FreshInv
  <2>4. KeyframeInv'
    BY <1>1, <1>5, <2>2 DEF StoreKeyframe, KeyframeInv, Kind
  <2> QED BY <2>1, <2>3, <2>4
<1>6. CASE Publish
  <2>1. RingTypeOK' /\ BeginInv'
    BY <1>1, <1>6 DEF Publish, idx
  <2>2. Units' = Units /\ Stored' = Stored
    BY <1>1, <1>6 DEF Publish, Units, Stored, idx
  <2>3. OwnSlotInv' /\ FreshInv' /\ KeyframeInv'
    BY <1>6, <2>2 DEF Publish, OwnSlotInv, FreshInv, KeyframeInv, Kind
  <2> QED BY <2>1, <2>3
<1> QED BY <1>2, <1>3, <1>4, <1>5, <1>6 DEF Produce

\* The producer only moves forward: its indices and tags grow, and the packets
\* begun keep their kind.
LEMMA ProduceMonotone ==
    ASSUME RingInv, Produce
    PROVE  /\ write_idx' >= write_idx
           /\ Units' >= Units
           /\ \A s \in Slots : unit'[s] >= unit[s]
           /\ Len(kind') >= Len(kind)
           /\ \A q \in 0 .. Len(kind) - 1 : Kind(q)' = Kind(q)
<1> USE CapacityAssumption DEF RingInv, RingTypeOK, BeginInv, None
<1>1. idx \in Nat /\ Slot(idx) \in Slots
  BY DivMod DEF idx
<1>2. ASSUME NEW k \in Kinds, BeginWrite(k)
      PROVE  /\ Len(kind') = Len(kind) + 1
             /\ \A q \in 0 .. Len(kind) - 1 : Kind(q)' = Kind(q)
  BY <1>2 DEF BeginWrite, Kind
<1>3. CASE \E k \in Kinds : BeginWrite(k)
  BY <1>1, <1>2, <1>3 DEF BeginWrite, Units, idx
<1>4. CASE StoreUnit
  <2>1. \A s \in Slots : unit'[s] >= unit[s]
    BY <1>1, <1>4 DEF StoreUnit, OwnSlotInv, Units
  <2> QED BY <1>1, <1>4, <2>1 DEF StoreUnit, Units, idx, Kind
<1>5. CASE StoreSlot
  BY <1>1, <1>5 DEF StoreSlot, Units, idx, Kind
<1>6. CASE StoreKeyframe
  BY <1>1, <1>6 DEF StoreKeyframe, Units, idx, Kind
<1>7. CASE Publish
  BY <1>1, <1>7 DEF Publish, Units, idx, Kind
<1> QED BY <1>3, <1>4, <1>5, <1>6, <1>7 DEF Produce

\* A slot tagged with anything but the written sequence q has been written over
\* a lap later.
LEMMA TagLapped ==
    ASSUME RingInv, NEW q \in Nat, q < Units, unit[Slot(q)] # q
    PROVE  q + Capacity < Units
<1>1. Slot(q) \in Slots
  BY DivMod
<1>2. unit[Slot(q)] \in Nat /\ unit[Slot(q)] > q
  BY <1>1 DEF RingInv, RingTypeOK, FreshInv, None, Units, idx
<1>3. Slot(unit[Slot(q)]) = Slot(q) /\ unit[Slot(q)] < Units
  BY <1>1, <1>2 DEF RingInv, OwnSlotInv, None
<1>4. q + Capacity <= unit[Slot(q)]
  BY <1>2, <1>3, LapApart
<1> QED BY <1>2, <1>3, <1>4, CapacityAssumption DEF RingInv, RingTypeOK, Units, idx

\* Conversely a sequence a lap behind the stored tags has lost its slot.
LEMMA LappedTag ==
    ASSUME RingInv, NEW q \in Nat, q + Capacity < Units
    PROVE  unit[Slot(q)] > q
<1>1. Slot(q + Capacity) = Slot(q) /\ Slot(q) \in Slots
  BY NextLap, DivMod
<1>2. unit[Slot(q + Capacity)] >= q + Capacity
  BY CapacityAssumption DEF RingInv, RingTypeOK, FreshInv, Units, idx
<1> QED BY <1>1, <1>2, CapacityAssumption DEF RingInv, RingTypeOK, None

=============================================================================
