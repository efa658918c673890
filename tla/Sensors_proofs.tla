--------------------------- MODULE Sensors_proofs ---------------------------
(***************************************************************************)
(* The sensors.  The read-modify-write setters of their drivers keep each  *)
(* other's fields.  A reading comes to the sketch as it was measured.  The *)
(* motion sensor runs at the rate and with the full scale it was asked     *)
(* for, and its detections are routed as they were enabled; the humidity   *)
(* sensor is on when it was asked to be.                                   *)
(***************************************************************************)
EXTENDS MC_Sensors, WellFoundedInduction, NaturalsInduction, TLAPS

\* Reading back what was merged into a byte gives the new value of the field.
LEMMA MergeReadsBack ==
    ASSUME NEW byte, NEW mask, NEW new, new \subseteq mask
    PROVE  Masked(Merge(byte, mask, new), mask) = new
  BY DEF Masked, Merge

\* Merging into one field leaves a field without a common bit as it was.
LEMMA MergeElsewhere ==
    ASSUME NEW byte, NEW mask, NEW new, NEW other,
           new \subseteq mask, mask \cap other = {}
    PROVE  Masked(Merge(byte, mask, new), other) = Masked(byte, other)
  BY DEF Masked, Merge

\* Merging keeps a byte a byte.
LEMMA MergeType ==
    ASSUME NEW byte \in SUBSET Bit, NEW mask, NEW new \in SUBSET Bit
    PROVE  Merge(byte, mask, new) \in SUBSET Bit
  BY DEF Merge

\* A field overlaps itself: its mask has a bit in its first register.
LEMMA OverlapsItself ==
    ASSUME NEW f \in Accessors
    PROVE  Overlaps(f, f)
  <1>1. f.order[1] \in DOMAIN f.mask
    BY FieldsFit
  <1>2. f.mask[f.order[1]] # {}
    BY <1>1, FieldsFit
  <1>3. QED
    BY <1>1, <1>2 DEF Overlaps

\* What a write of one register does, and what it leaves alone.
LEMMA WrittenFacts ==
    ASSUME RegistersInv, call # NoCall
    PROVE  /\ call.field \in Accessors /\ call.value \in call.field.values
           /\ call.part \in 1 .. Len(call.field.order)
           /\ call = [field |-> call.field, value |-> call.value, part |-> call.part]
           /\ Target \in Registers /\ Target \in DOMAIN call.field.mask
           /\ Written \in [Registers -> SUBSET Bit]
           /\ Written[Target] = Merge(regs[Target], call.field.mask[Target], call.value[Target])
           /\ \A r \in Registers \ {Target} : Written[r] = regs[r]
           /\ call.value[Target] \subseteq call.field.mask[Target]
  <1>a. PICK f \in Accessors : \E v \in f.values, k \in 1 .. Len(f.order) :
            call = [field |-> f, value |-> v, part |-> k]
    BY DEF RegistersInv, SetterKnown
  <1>1. PICK v \in f.values, k \in 1 .. Len(f.order) :
            call = [field |-> f, value |-> v, part |-> k]
    BY <1>a
  <1>2. call.field = f /\ call.value = v /\ call.part = k
    BY <1>1
  <1>3. f.order \in Seq(Registers) /\ DOMAIN f.mask = { f.order[i] : i \in 1 .. Len(f.order) }
    BY FieldsFit
  <1>4. v \in [DOMAIN f.mask -> SUBSET Bit] /\ \A r \in DOMAIN f.mask : v[r] \subseteq f.mask[r]
    BY FieldsFit
  <1>5. Target = f.order[k]
    BY <1>2 DEF Target
  <1>6. Target \in Registers /\ Target \in DOMAIN f.mask
    BY <1>3, <1>5
  <1>7. v[Target] \in SUBSET Bit /\ v[Target] \subseteq f.mask[Target]
    BY <1>4, <1>6
  <1>8. regs \in [Registers -> SUBSET Bit]
    BY DEF RegistersInv, RegistersTypeOK
  <1>9. Merge(regs[Target], f.mask[Target], v[Target]) \in SUBSET Bit
    BY <1>6, <1>7, <1>8, MergeType
  <1>10. Written = [regs EXCEPT ![Target] = Merge(regs[Target], f.mask[Target], v[Target])]
    BY <1>2 DEF Written
  <1>11. /\ Written \in [Registers -> SUBSET Bit]
         /\ Written[Target] = Merge(regs[Target], f.mask[Target], v[Target])
         /\ \A r \in Registers \ {Target} : Written[r] = regs[r]
    BY <1>6, <1>8, <1>9, <1>10
  <1>12. QED
    BY <1>1, <1>2, <1>6, <1>7, <1>11

\* A write by a setter that shares no bit with the watched field leaves what its
\* getter reads.
LEMMA WriteElsewhere ==
    ASSUME RegistersInv, call # NoCall, ~Overlaps(call.field, watched)
    PROVE  \A r \in DOMAIN watched.mask :
              Masked(Written[r], watched.mask[r]) = Masked(regs[r], watched.mask[r])
  <1> SUFFICES ASSUME NEW r \in DOMAIN watched.mask
               PROVE  Masked(Written[r], watched.mask[r]) = Masked(regs[r], watched.mask[r])
    OBVIOUS
  <1>1. watched \in Accessors
    BY DEF RegistersInv, RegistersTypeOK
  <1>2. r \in Registers
    BY <1>1, FieldsFit
  <1>3. CASE r # Target
    BY <1>2, <1>3, WrittenFacts
  <1>4. CASE r = Target
    <2>1. call.field.mask[r] \cap watched.mask[r] = {}
      BY <1>4, WrittenFacts DEF Overlaps
    <2>2. QED
      BY <1>4, <2>1, WrittenFacts, MergeElsewhere
  <1>5. QED
    BY <1>3, <1>4

\* A write by the watched field's own setter puts the part it is at in place and
\* keeps the parts already there.
LEMMA WriteOwnPart ==
    ASSUME RegistersInv, call # NoCall, call.field = watched
    PROVE  \A k \in 1 .. call.part :
              Masked(Written[watched.order[k]], watched.mask[watched.order[k]])
                  = call.value[watched.order[k]]
  <1> SUFFICES ASSUME NEW k \in 1 .. call.part
               PROVE  Masked(Written[watched.order[k]], watched.mask[watched.order[k]])
                          = call.value[watched.order[k]]
    OBVIOUS
  <1>1. /\ watched \in Accessors /\ call.part \in 1 .. Len(watched.order)
        /\ Len(watched.order) \in Nat
    BY WrittenFacts, FieldsFit
  <1>2. watched.order[k] \in Registers /\ k \in 1 .. Len(watched.order)
    BY <1>1, FieldsFit
  <1>3. CASE watched.order[k] = Target
    BY <1>3, WrittenFacts, MergeReadsBack
  <1>4. CASE watched.order[k] # Target
    <2>1. k # call.part
      BY <1>4 DEF Target
    <2>2. k \in 1 .. call.part - 1
      BY <1>1, <2>1
    <2>3. QED
      BY <1>2, <1>4, <2>2, WrittenFacts DEF RegistersInv, PartsDone
  <1>5. QED
    BY <1>3, <1>4

\* After the last part the getter reads the value.
LEMMA AllPartsRead ==
    ASSUME RegistersInv, call # NoCall, call.field = watched,
           call.part = Len(call.field.order)
    PROVE  [r \in DOMAIN watched.mask |-> Masked(Written[r], watched.mask[r])] = call.value
  <1>1. watched \in Accessors /\ call.value \in watched.values
    BY WrittenFacts
  <1>2. /\ DOMAIN watched.mask = { watched.order[i] : i \in 1 .. Len(watched.order) }
        /\ call.value \in [DOMAIN watched.mask -> SUBSET Bit]
    BY <1>1, FieldsFit
  <1>3. \A r \in DOMAIN watched.mask : Masked(Written[r], watched.mask[r]) = call.value[r]
    BY <1>2, WriteOwnPart
  <1>4. QED
    BY <1>2, <1>3

\* A register of a setter that stops there leaves the claim about the watched
\* field true: either there is none, or the setter's bits are others.
LEMMA ClaimSurvives ==
    ASSUME RegistersInv, call # NoCall, stored # NoValue
    PROVE  [r \in DOMAIN watched.mask |-> Masked(Written[r], watched.mask[r])] = stored
  <1>1. ~Overlaps(call.field, watched)
    BY DEF RegistersInv, ClaimSuspended
  <1>2. R(watched) = stored
    BY DEF RegistersInv, FieldReadsBack
  <1>3. [r \in DOMAIN watched.mask |-> Masked(Written[r], watched.mask[r])] = R(watched)
    BY <1>1, WriteElsewhere DEF R
  <1>4. QED
    BY <1>2, <1>3

\* A call of a setter keeps the invariant: a claim about bits it is going to
\* change is withdrawn.
LEMMA CallKeeps ==
    ASSUME RegistersInv, NEW f \in Accessors, NEW v \in f.values, W(f, v)
    PROVE  RegistersInv'
  <1>1. /\ call' = [field |-> f, value |-> v, part |-> 1]
        /\ stored' = IF Overlaps(f, watched) THEN NoValue ELSE stored
        /\ sets < MaxSets /\ sets' = sets + 1 /\ regs' = regs /\ watched' = watched
    BY DEF W
  <1>2. 1 \in 1 .. Len(f.order)
    BY FieldsFit
  <1>3. call'.field = f /\ call'.value = v /\ call'.part = 1
    BY <1>1
  <1>4. RegistersTypeOK'
    BY <1>1, <1>2, <1>3, MaxSetsIsNat DEF RegistersInv, RegistersTypeOK
  <1>5. SetterKnown'
    BY <1>1, <1>2 DEF SetterKnown
  <1>6. ClaimSuspended'
    BY <1>1, <1>3 DEF ClaimSuspended, Overlaps
  <1>7. PartsDone'
    BY <1>3 DEF PartsDone
  <1>8. FieldReadsBack'
    BY <1>1 DEF RegistersInv, FieldReadsBack, R
  <1>9. QED
    BY <1>4, <1>5, <1>6, <1>7, <1>8 DEF RegistersInv

\* A failure of the bus keeps the invariant, whether or not the byte arrived.
LEMMA BusErrorKeeps ==
    ASSUME RegistersInv, BusError
    PROVE  RegistersInv'
  <1>1. /\ call # NoCall /\ call' = NoCall /\ regs' \in {regs, Written}
        /\ watched' = watched /\ stored' = stored /\ sets' = sets
    BY DEF BusError
  <1>2. Written \in [Registers -> SUBSET Bit]
    BY <1>1, WrittenFacts
  <1>3. RegistersTypeOK'
    BY <1>1, <1>2 DEF RegistersInv, RegistersTypeOK
  <1>4. SetterKnown' /\ ClaimSuspended' /\ PartsDone'
    BY <1>1 DEF SetterKnown, ClaimSuspended, PartsDone
  <1>5. FieldReadsBack'
    <2>1. CASE regs' = regs
      BY <1>1, <2>1 DEF RegistersInv, FieldReadsBack, R
    <2>2. CASE regs' = Written
      BY <1>1, <2>2, ClaimSurvives DEF FieldReadsBack, R
    <2>3. QED
      BY <1>1, <2>1, <2>2
  <1>6. QED
    BY <1>3, <1>4, <1>5 DEF RegistersInv

\* A register written keeps the invariant, the last one of a setter included.
LEMMA WritePartKeeps ==
    ASSUME RegistersInv, WritePart
    PROVE  RegistersInv'
  <1>1. /\ call # NoCall /\ regs' = Written /\ watched' = watched /\ sets' = sets
        /\ \/ /\ call.part < Len(call.field.order)
              /\ call' = [call EXCEPT !.part = @ + 1] /\ stored' = stored
           \/ /\ call.part = Len(call.field.order) /\ call' = NoCall
              /\ stored' = IF call.field = watched THEN call.value ELSE stored
    BY DEF WritePart
  <1>2. /\ Written \in [Registers -> SUBSET Bit]
        /\ call.field \in Accessors /\ call.value \in call.field.values
        /\ call.part \in 1 .. Len(call.field.order)
        /\ call = [field |-> call.field, value |-> call.value, part |-> call.part]
        /\ Len(call.field.order) \in Nat
    BY <1>1, WrittenFacts, FieldsFit
  <1>3. CASE call.part < Len(call.field.order)
    <2>1. /\ call' = [field |-> call.field, value |-> call.value, part |-> call.part + 1]
          /\ stored' = stored
      BY <1>1, <1>2, <1>3
    <2>2. /\ call'.field = call.field /\ call'.value = call.value
          /\ call'.part = call.part + 1 /\ call.part + 1 \in 1 .. Len(call.field.order)
      BY <1>2, <1>3, <2>1
    <2>3. RegistersTypeOK'
      BY <1>1, <1>2, <2>1, <2>2 DEF RegistersInv, RegistersTypeOK
    <2>4. SetterKnown'
      BY <1>2, <2>1, <2>2 DEF SetterKnown
    <2>5. ClaimSuspended'
      BY <1>1, <2>1, <2>2 DEF RegistersInv, ClaimSuspended, Overlaps
    <2>6. PartsDone'
      <3>1. call'.part - 1 = call.part
        BY <1>2, <2>2
      <3>2. QED
        BY <1>1, <2>2, <3>1, WriteOwnPart DEF PartsDone
    <2>7. FieldReadsBack'
      BY <1>1, <2>1, ClaimSurvives DEF FieldReadsBack, R
    <2>8. QED
      BY <2>3, <2>4, <2>5, <2>6, <2>7 DEF RegistersInv
  <1>4. CASE call.part = Len(call.field.order)
    <2>1. /\ call' = NoCall
          /\ stored' = IF call.field = watched THEN call.value ELSE stored
      BY <1>1, <1>2, <1>4
    <2>2. RegistersTypeOK'
      BY <1>1, <1>2, <2>1 DEF RegistersInv, RegistersTypeOK
    <2>3. SetterKnown' /\ ClaimSuspended' /\ PartsDone'
      BY <2>1 DEF SetterKnown, ClaimSuspended, PartsDone
    <2>4. FieldReadsBack'
      <3>1. CASE call.field = watched
        BY <1>1, <1>4, <2>1, <3>1, AllPartsRead DEF FieldReadsBack, R
      <3>2. CASE call.field # watched
        BY <1>1, <2>1, <3>2, ClaimSurvives DEF FieldReadsBack, R
      <3>3. QED
        BY <3>1, <3>2
    <2>5. QED
      BY <2>2, <2>3, <2>4 DEF RegistersInv
  <1>5. QED
    BY <1>1, <1>3, <1>4

\* The invariant of the register file and its setters, for every chip, field,
\* value and failure of the bus.
THEOREM RegistersInvariant == RegistersSpec => []RegistersInv
  <1>1. RegistersInit => RegistersInv
    <2> SUFFICES ASSUME RegistersInit PROVE RegistersInv
      OBVIOUS
    <2>1. RegistersTypeOK
      BY PowerOnIsBytes, MaxSetsIsNat DEF RegistersInit, RegistersTypeOK
    <2>2. SetterKnown /\ ClaimSuspended /\ PartsDone /\ FieldReadsBack
      BY DEF RegistersInit, SetterKnown, ClaimSuspended, PartsDone, FieldReadsBack
    <2>3. QED
      BY <2>1, <2>2 DEF RegistersInv
  <1>2. RegistersInv /\ [RegistersNext]_registerVars => RegistersInv'
    <2> SUFFICES ASSUME RegistersInv, [RegistersNext]_registerVars PROVE RegistersInv'
      OBVIOUS
    <2>1. CASE RegistersNext
      BY <2>1, CallKeeps, BusErrorKeeps, WritePartKeeps DEF RegistersNext
    <2>2. CASE UNCHANGED registerVars
      BY <2>2 DEF registerVars, RegistersInv, RegistersTypeOK, SetterKnown, ClaimSuspended,
                  PartsDone, FieldReadsBack, R, Overlaps
    <2>3. QED
      BY <2>1, <2>2
  <1>3. QED
    BY <1>1, <1>2, PTL DEF RegistersSpec

\* What a W_ function of a sensor driver reported stored is what its R_ function
\* reads, until a field sharing a bit with it is set again: the setters of other
\* fields in the same registers, finished or cut short by the bus between two
\* bytes, leave it alone.
THEOREM FieldsReadBack == RegistersSpec => []FieldReadsBack
  <1>1. RegistersInv => FieldReadsBack
    BY DEF RegistersInv
  <1>2. QED
    BY <1>1, RegistersInvariant, PTL

-----------------------------------------------------------------------------

(* Reading a measurement.                                                  *)

\* The calls by what they read.
Kinds ==
    {GetRawAccData, GetRawGyroData, LIS2MDL_M_GetAxesRaw, Get_HumidityRaw, Get_TemperatureRaw,
     Get_Measurement, Get_RawMeasurement, ReadRawPressure, ReadRawTemperature, R_D6D}

\* Every call is of one of the kinds, and has a name that no one else has.
LEMMA CallsAreOfKinds ==
    /\ \A o \in DOMAIN Ops : Ops[o] \in Kinds
    /\ Idle_ \notin DOMAIN Ops
  BY SMT DEF Ops, Kinds, Idle_

\* Every kind reads one to six outputs of one to three bytes.
LEMMA KindsRead ==
    ASSUME NEW k \in Kinds
    PROVE  /\ k.width \in 1 .. 3 /\ Len(k.parts) \in Nat \ {0} /\ DOMAIN k.parts = 1 .. Len(k.parts)
           /\ k.width = 3 => Len(k.parts) = 1
           /\ k.chip \in {"XL", "G"} => Len(k.parts) = 3
  <1>1. k \in {GetRawAccData, GetRawGyroData, LIS2MDL_M_GetAxesRaw}
        => k.parts = XYZ /\ k.width = 2
    BY SMT DEF GetRawAccData, GetRawGyroData, LIS2MDL_M_GetAxesRaw, Op
  <1>2. k = R_D6D => k.parts = Faces /\ k.width = 1 /\ k.chip = "D6D"
    BY SMT DEF R_D6D, Op
  <1>3. k = Get_HumidityRaw => k.parts = <<"H">> /\ k.width = 2 /\ k.chip = "HTS221"
    BY SMT DEF Get_HumidityRaw, Op
  <1>4. k = Get_TemperatureRaw => k.parts = <<"T">> /\ k.width = 2 /\ k.chip = "HTS221"
    BY SMT DEF Get_TemperatureRaw, Op
  <1>5. k = Get_Measurement => k.parts = <<"T", "H">> /\ k.width = 2 /\ k.chip = "HTS221"
    BY SMT DEF Get_Measurement, Op
  <1>6. k = Get_RawMeasurement => k.parts = <<"H", "T">> /\ k.width = 2 /\ k.chip = "HTS221"
    BY SMT DEF Get_RawMeasurement, Op
  <1>7. k = ReadRawPressure => k.parts = <<"P">> /\ k.width = 3 /\ k.chip = "LPS22HB"
    BY SMT DEF ReadRawPressure, Op
  <1>8. k = ReadRawTemperature => k.parts = <<"T">> /\ k.width = 2 /\ k.chip = "LPS22HB"
    BY SMT DEF ReadRawTemperature, Op
  <1>9. /\ Len(XYZ) = 3 /\ DOMAIN XYZ = 1 .. 3 /\ Len(Faces) = 6 /\ DOMAIN Faces = 1 .. 6
    BY SMT DEF XYZ, Faces
  <1>10. CASE k \in {GetRawAccData, GetRawGyroData, LIS2MDL_M_GetAxesRaw}
    BY <1>1, <1>9, <1>10
  <1>11. CASE k = R_D6D
    BY <1>2, <1>9, <1>11, SMT
  <1>12. CASE k \in {Get_HumidityRaw, Get_TemperatureRaw, ReadRawTemperature}
    BY <1>3, <1>4, <1>8, <1>12, SMT
  <1>13. CASE k \in {Get_Measurement, Get_RawMeasurement}
    BY <1>5, <1>6, <1>13, SMTT(60)
  <1>14. CASE k = ReadRawPressure
    <2>1. k.parts = <<"P">> /\ k.width = 3 /\ k.chip = "LPS22HB"
      BY <1>7, <1>14
    <2>2. Len(k.parts) = 1 /\ DOMAIN k.parts = 1 .. 1
      BY <2>1
    <2>3. QED
      BY <2>1, <2>2
  <1>15. QED
    BY <1>10, <1>11, <1>12, <1>13, <1>14 DEF Kinds

\* Every output a call reads is one of the outputs.
LEMMA PartsAreChannels ==
    ASSUME NEW o \in DOMAIN Ops, NEW i \in DOMAIN Ops[o].parts
    PROVE  Ops[o].parts[i] \in Channels
  <1>1. PICK C : C = { Ops[o].parts[j] : j \in DOMAIN Ops[o].parts }
    OBVIOUS
  <1>2. C \in { { Ops[x].parts[j] : j \in DOMAIN Ops[x].parts } : x \in DOMAIN Ops }
    BY <1>1
  <1>3. Ops[o].parts[i] \in C
    BY <1>1
  <1>4. QED
    BY <1>2, <1>3 DEF Channels

\* The place of a byte in its output, and that of the next one.
LEMMA NextByte ==
    ASSUME NEW w \in 1 .. 3, NEW n \in Nat
    PROVE  /\ n \div w \in Nat /\ n % w \in 0 .. w - 1 /\ n = (n \div w) * w + (n % w)
           /\ (n % w) + 1 < w => (n + 1) \div w = n \div w /\ (n + 1) % w = (n % w) + 1
           /\ (n % w) + 1 = w => (n + 1) \div w = (n \div w) + 1 /\ (n + 1) % w = 0
  <1>1. CASE w = 1
    BY <1>1, SMT
  <1>2. CASE w = 2
    BY <1>2, SMT
  <1>3. CASE w = 3
    BY <1>3, SMT
  <1>4. QED
    BY <1>1, <1>2, <1>3

\* The samples of an output of w bytes fit these.
Fits(w, v) ==
    /\ v \in Int
    /\ w = 1 => 0 <= v /\ v <= 255
    /\ w = 2 => -32768 <= v /\ v <= 32767
    /\ w = 3 => 0 <= v /\ v <= 8388607

\* A sample fits its output.
LEMMA SamplesFit ==
    ASSUME NEW w \in 1 .. 3, NEW k \in Nat, phase \in 0 .. 2
    PROVE  Fits(w, Sample(w, k))
  <1>1. PICK wave : wave = Wave[w]
    OBVIOUS
  <1>2. wave \in Seq(Int) /\ wave # <<>> /\ \A i \in DOMAIN wave : Fits(w, wave[i])
    <2>1. CASE w = 1
      BY <2>1, <1>1, WavesFit, SMT DEF InRange, Fits
    <2>2. CASE w = 2
      BY <2>2, <1>1, WavesFit, SMT DEF InRange, Fits
    <2>3. CASE w = 3
      BY <2>3, <1>1, WavesFit, SMT DEF InRange, Fits
    <2>4. QED
      BY <2>1, <2>2, <2>3
  <1>3. Len(wave) \in Nat \ {0} /\ DOMAIN wave = 1 .. Len(wave)
    BY <1>2
  <1>4. ((k + phase) % Len(wave)) + 1 \in DOMAIN wave
    BY <1>3
  <1>5. Sample(w, k) = wave[((k + phase) % Len(wave)) + 1]
    BY <1>1 DEF Sample
  <1>6. QED
    BY <1>2, <1>4, <1>5

\* The bytes of a sample of two bytes, put together, are the sample.
LEMMA TwoBytes ==
    ASSUME NEW v \in Int, -32768 <= v, v <= 32767,
           NEW s, s = (v % 256) + 256 * ((v \div 256) % 256)
    PROVE  v = IF s < 32768 THEN s ELSE s - 65536
  BY SMT

\* So are those of a sample of three.
LEMMA ThreeBytes ==
    ASSUME NEW v \in Int, 0 <= v, v <= 8388607,
           NEW s, s = (v % 256) + 256 * ((v \div 256) % 256) + 65536 * ((v \div 65536) % 256)
    PROVE  s = v
  <1>1. PICK q, r, t : q = v \div 256 /\ r = v % 256 /\ t = v \div 65536
    OBVIOUS
  <1>2. q \in Int /\ 0 <= q /\ q < 32768 /\ v = 256 * q + r /\ r \in Int /\ 0 <= r /\ r < 256
    BY <1>1, SMT
  <1>3. t = q \div 256 /\ t \in Int /\ 0 <= t /\ t < 128
    BY <1>1, <1>2, SMT
  <1>4. q = 256 * t + (q % 256) /\ t % 256 = t
    BY <1>2, <1>3, SMT
  <1>5. QED
    BY <1>1, <1>2, <1>3, <1>4, SMT

\* Build undoes Byte.
LEMMA BuildsBack ==
    ASSUME NEW w \in 1 .. 3, NEW v, Fits(w, v), NEW b, Len(b) = w,
           \A j \in 1 .. w : b[j] = Byte(v, j)
    PROVE  Build(b) = v
  <1>1. /\ Byte(v, 1) = (v \div 1) % 256 /\ Byte(v, 2) = (v \div 256) % 256
        /\ Byte(v, 3) = (v \div 65536) % 256
    BY SMT DEF Byte, Weight
  <1>2. v \in Int /\ v \div 1 = v
    BY SMT DEF Fits
  <1>3. CASE w = 1
    <2>1. Build(b) = b[1]
      BY <1>3, SMT DEF Build
    <2>2. v % 256 = v
      BY <1>3, SMT DEF Fits
    <2>3. QED
      BY <1>1, <1>2, <1>3, <2>1, <2>2
  <1>4. CASE w = 2
    <2>1. PICK s : s = b[1] + 256 * b[2]
      OBVIOUS
    <2>2. Build(b) = IF s < 32768 THEN s ELSE s - 2 * 32768
      BY <1>4, <2>1, SMT DEF Build, Signed
    <2>3. s = (v % 256) + 256 * ((v \div 256) % 256)
      BY <1>1, <1>2, <1>4, <2>1, SMT
    <2>4. -32768 <= v /\ v <= 32767
      BY <1>4, SMT DEF Fits
    <2>5. v = IF s < 32768 THEN s ELSE s - 65536
      BY <1>2, <2>3, <2>4, TwoBytes, SMT
    <2>6. s \in Int
      BY <1>2, <2>3, SMT
    <2>7. QED
      BY <2>2, <2>5, <2>6, SMT
  <1>5. CASE w = 3
    <2>1. PICK s : s = b[1] + 256 * b[2] + 65536 * b[3]
      OBVIOUS
    <2>2. Build(b) = IF s < 8388608 THEN s ELSE s - 2 * 8388608
      BY <1>5, <2>1, SMT DEF Build, Signed
    <2>3. s = (v % 256) + 256 * ((v \div 256) % 256) + 65536 * ((v \div 65536) % 256)
      BY <1>1, <1>2, <1>5, <2>1, SMT
    <2>4. 0 <= v /\ v <= 8388607
      BY <1>5, SMT DEF Fits
    <2>5. s = v
      BY <1>2, <2>3, <2>4, ThreeBytes, SMT
    <2>6. QED
      BY <1>2, <2>2, <2>4, <2>5, SMT
  <1>6. QED
    BY <1>3, <1>4, <1>5

\* The quotient towards zero is less than one unit from the fraction, on its
\* side of zero.
LEMMA QuotientBounds ==
    ASSUME NEW n \in Int, NEW d \in Nat \ {0}, NEW q, q = Quotient(n, d)
    PROVE  /\ q \in Int /\ q * d - n < d /\ n - q * d < d
           /\ n >= 0 => q >= 0 /\ q * d <= n
           /\ n <= 0 => q <= 0 /\ n <= q * d
  <1>1. \A m \in Nat : m \div d \in Nat /\ (m \div d) * d <= m /\ m < (m \div d) * d + d
    BY SMT
  <1>2. CASE n >= 0
    BY <1>1, <1>2, SMT DEF Quotient
  <1>3. CASE n < 0
    <2>1. PICK m, r : m = -n /\ r = m \div d
      OBVIOUS
    <2>2. m \in Nat /\ r \in Nat /\ r * d <= m /\ m < r * d + d
      BY <1>1, <1>3, <2>1, SMT
    <2>3. q = -r /\ n = -m
      BY <1>3, <2>1, SMT DEF Quotient
    <2>4. q * d = -(r * d)
      BY <2>2, <2>3, SMT
    <2>5. QED
      BY <1>3, <2>2, <2>3, <2>4, SMT
  <1>4. QED
    BY <1>2, <1>3

\* A product, h added, divided by d: it is on its side of zero and less than
\* h and one unit away.
LEMMA ScaledBounds ==
    ASSUME NEW raw \in Int, NEW s \in Nat \ {0}, NEW d \in Nat \ {0}, NEW h \in Nat, h < d,
           NEW v, v = Quotient(raw * s + h, d)
    PROVE  v \in Int /\ SameSide(v, raw) /\ Within(v, raw * s, d, d - 1 + h)
  <1>1. PICK n, m : n = raw * s /\ m = n + h
    OBVIOUS
  <1>2. n \in Int /\ m \in Int /\ v = Quotient(m, d)
    BY <1>1, SMT
  <1>3. (raw >= 0 => n >= 0) /\ (raw <= 0 => n <= 0)
    BY <1>1, SMT
  <1>4. /\ v \in Int /\ v * d - m < d /\ m - v * d < d
        /\ m >= 0 => v >= 0 /\ v * d <= m
        /\ m <= 0 => v <= 0 /\ m <= v * d
    BY <1>2, QuotientBounds
  <1>5. PICK t : t = v * d
    OBVIOUS
  <1>6. t \in Int /\ (v >= 1 => t >= d)
    BY <1>4, <1>5, SMT
  <1>7. SameSide(v, raw)
    BY <1>1, <1>2, <1>3, <1>4, <1>5, <1>6, SMT DEF SameSide
  <1>8. -(d - 1 + h) <= t - n /\ t - n <= d - 1 + h
    BY <1>1, <1>2, <1>4, <1>5, <1>6, SMT
  <1>9. QED
    BY <1>1, <1>4, <1>5, <1>7, <1>8 DEF Within

\* The conversions of the motion sensor.
LEMMA MotionStates ==
    ASSUME NEW raw \in Int, NEW c, NEW o, NEW v, v \in Converted(o, c, raw),
           \/ o \in {"getXAxes", "Get_Acceleration"} /\ scale \in 1 .. 4
           \/ o \in {"getGAxes", "Get_AngularRate"} /\ scale \in 1 .. 5
    PROVE  States(v, o, c, raw)
  <1>1. /\ scale \in 1 .. 4 => XSensitivity[scale] \in Nat \ {0}
        /\ scale \in 1 .. 5 => GSensitivity[scale] \in Nat \ {0}
    BY SMT DEF XSensitivity, GSensitivity
  <1>2. CASE o = "getXAxes" /\ scale \in 1 .. 4
    <2>1. PICK s : s = XSensitivity[scale]
      OBVIOUS
    <2>2. v = Quotient(raw * s, 1000)
      BY <1>2, <2>1, SMT DEF Converted, getXAxes
    <2>3. raw * s + 0 = raw * s
      BY <1>1, <1>2, <2>1, SMT
    <2>4. SameSide(v, raw) /\ Within(v, raw * s, 1000, 999)
      <3>1. PICK d, h : d = 1000 /\ h = 0
        OBVIOUS
      <3>2. s \in Nat \ {0} /\ d \in Nat \ {0} /\ h \in Nat /\ h < d /\ v = Quotient(raw * s + h, d)
        BY <3>1, <1>1, <1>2, <2>1, <2>2, <2>3, SMT
      <3>3. SameSide(v, raw) /\ Within(v, raw * s, d, d - 1 + h)
        BY <3>2, ScaledBounds
      <3>4. QED
        BY <3>1, <3>3, SMT
    <2>5. QED
      BY <1>2, <2>1, <2>4, SMT DEF States
  <1>3. CASE o = "getGAxes" /\ scale \in 1 .. 5
    <2>1. PICK s : s = GSensitivity[scale]
      OBVIOUS
    <2>2. v = Quotient(raw * s, 8)
      BY <1>3, <2>1, SMT DEF Converted, getGAxes
    <2>3. raw * s + 0 = raw * s
      BY <1>1, <1>3, <2>1, SMT
    <2>4. SameSide(v, raw) /\ Within(v, raw * s, 8, 7)
      <3>1. PICK d, h : d = 8 /\ h = 0
        OBVIOUS
      <3>2. s \in Nat \ {0} /\ d \in Nat \ {0} /\ h \in Nat /\ h < d /\ v = Quotient(raw * s + h, d)
        BY <3>1, <1>1, <1>3, <2>1, <2>2, <2>3, SMT
      <3>3. SameSide(v, raw) /\ Within(v, raw * s, d, d - 1 + h)
        BY <3>2, ScaledBounds
      <3>4. QED
        BY <3>1, <3>3, SMT
    <2>5. QED
      BY <1>3, <2>1, <2>4, SMT DEF States
  <1>4. CASE o = "Get_Acceleration" /\ scale \in 1 .. 4
    <2>1. PICK s : s = XSensitivity[scale]
      OBVIOUS
    <2>2. v = Quotient(raw * s + 500, 1000)
      BY <1>4, <2>1, SMT DEF Converted, Get_Acceleration
    <2>3. SameSide(v, raw) /\ Within(v, raw * s, 1000, 1499)
      <3>1. PICK d, h : d = 1000 /\ h = 500
        OBVIOUS
      <3>2. s \in Nat \ {0} /\ d \in Nat \ {0} /\ h \in Nat /\ h < d /\ v = Quotient(raw * s + h, d)
        BY <3>1, <1>1, <1>4, <2>1, <2>2, SMT
      <3>3. SameSide(v, raw) /\ Within(v, raw * s, d, d - 1 + h)
        BY <3>2, ScaledBounds
      <3>4. QED
        BY <3>1, <3>3, SMT
    <2>4. QED
      BY <1>4, <2>1, <2>3, SMT DEF States
  <1>5. CASE o = "Get_AngularRate" /\ scale \in 1 .. 5
    <2>1. PICK s : s = GSensitivity[scale]
      OBVIOUS
    <2>2. v = Quotient(raw * s + 4, 8)
      BY <1>5, <2>1, SMT DEF Converted, Get_AngularRate
    <2>3. SameSide(v, raw) /\ Within(v, raw * s, 8, 11)
      <3>1. PICK d, h : d = 8 /\ h = 4
        OBVIOUS
      <3>2. s \in Nat \ {0} /\ d \in Nat \ {0} /\ h \in Nat /\ h < d /\ v = Quotient(raw * s + h, d)
        BY <3>1, <1>1, <1>5, <2>1, <2>2, SMT
      <3>3. SameSide(v, raw) /\ Within(v, raw * s, d, d - 1 + h)
        BY <3>2, ScaledBounds
      <3>4. QED
        BY <3>1, <3>3, SMT
    <2>4. QED
      BY <1>5, <2>1, <2>3, SMT DEF States
  <1>6. QED
    BY <1>2, <1>3, <1>4, <1>5

\* The slope and the line through the points of calibration are whole numbers.
LEMMA LineTypes ==
    ASSUME NEW raw \in Int, NEW unit \in {2, 8}, cal \in Calibrations
    PROVE  /\ Slope \in Int /\ Slope # 0 /\ AbsSlope \in Nat \ {0}
           /\ TenthsTimesSlope(raw, unit) \in Int /\ TenthsTimesAbs(raw, unit) \in Int
  <1>1. {cal.out0, cal.out1, cal.at0, cal.at1} \subseteq Int /\ cal.out0 # cal.out1
    BY SlopesAreDefined
  <1>2. Slope \in Int /\ Slope # 0
    BY <1>1, SMT DEF Slope
  <1>3. PICK a, b : a = cal.at0 \div unit /\ b = cal.at1 \div unit
    OBVIOUS
  <1>4. a \in Int /\ b \in Int
    BY <1>1, <1>3, SMT
  <1>5. TenthsTimesSlope(raw, unit) = 10 * ((raw - cal.out0) * (b - a) + a * Slope)
    BY <1>3 DEF TenthsTimesSlope
  <1>6. PICK x, y : x = (raw - cal.out0) * (b - a) /\ y = a * Slope
    OBVIOUS
  <1>7. x \in Int /\ y \in Int
    BY <1>1, <1>2, <1>4, <1>6, SMT
  <1>8. TenthsTimesSlope(raw, unit) \in Int
    BY <1>5, <1>6, <1>7, SMT
  <1>9. QED
    BY <1>2, <1>8, SMT DEF AbsSlope, TenthsTimesAbs

\* A whole number of tenths, and its neighbour nearer to zero, when there is
\* nothing behind the point.
LEMMA TenthsBounds ==
    ASSUME NEW raw \in Int, NEW unit \in {2, 8}, cal \in Calibrations, NEW t \in Tenths(raw, unit)
    PROVE  /\ t \in Int /\ Within(t, TenthsTimesAbs(raw, unit), AbsSlope, AbsSlope)
           /\ t > 1000 => TenthsTimesAbs(raw, unit) > 1000 * AbsSlope
           /\ t < 0 => TenthsTimesAbs(raw, unit) < 0
  <1>1. PICK n, s, N, S : /\ n = TenthsTimesAbs(raw, unit) /\ s = AbsSlope
                          /\ N = TenthsTimesSlope(raw, unit) /\ S = Slope
    OBVIOUS
  <1>2. /\ n \in Int /\ s \in Nat \ {0} /\ N \in Int /\ S \in Int /\ S # 0
        /\ s = (IF S > 0 THEN S ELSE -S) /\ n = IF S > 0 THEN N ELSE -N
    BY <1>1, LineTypes DEF AbsSlope, TenthsTimesAbs
  <1>3. PICK q : q = Quotient(n, s)
    OBVIOUS
  <1>4. /\ q \in Int /\ q * s - n < s /\ n - q * s < s
        /\ n >= 0 => q >= 0 /\ q * s <= n
        /\ n <= 0 => q <= 0 /\ n <= q * s
    BY <1>2, <1>3, QuotientBounds
  <1>5. PICK nearer : nearer = IF q > 0 THEN q - 1 ELSE IF q < 0 THEN q + 1 ELSE q
    OBVIOUS
  <1>6. Tenths(raw, unit) = IF q * S = N THEN {q, nearer} ELSE {q}
    <2>1. q = IF Slope > 0 THEN Quotient(N, Slope) ELSE Quotient(-N, -Slope)
      BY <1>1, <1>2, <1>3, SMT
    <2>2. QED
      BY <1>1, <1>5, <2>1 DEF Tenths
  <1>7. PICK m : m = q * s
    OBVIOUS
  <1>8. /\ m \in Int /\ (q >= 0 => m >= q) /\ (q < 0 => m < 0)
        /\ (q >= 1001 => m >= 1001 * s) /\ (q * S = N => m = n)
    BY <1>2, <1>4, <1>7, SMT
  <1>9. CASE t = q
    <2>1. -s <= m - n /\ m - n <= s
      BY <1>2, <1>4, <1>7, <1>8, SMT
    <2>2. t > 1000 => n > 1000 * s
      BY <1>2, <1>4, <1>7, <1>8, <1>9, SMT
    <2>3. t < 0 => n < 0
      BY <1>2, <1>4, <1>9, SMT
    <2>4. QED
      BY <1>1, <1>4, <1>7, <1>9, <2>1, <2>2, <2>3 DEF Within
  <1>10. CASE t = nearer /\ q * S = N
    <2>1. t \in Int /\ m = n /\ (t * s = m - s \/ t * s = m + s \/ t * s = m)
      BY <1>2, <1>4, <1>5, <1>7, <1>8, <1>10, SMT
    <2>2. -s <= t * s - n /\ t * s - n <= s
      BY <1>2, <1>8, <2>1, SMT
    <2>3. t > 1000 => n > 1000 * s
      BY <1>2, <1>4, <1>5, <1>8, <1>10, SMT
    <2>4. t < 0 => n < 0
      BY <1>2, <1>4, <1>5, <1>8, <1>10, SMT
    <2>5. QED
      BY <1>1, <2>1, <2>2, <2>3, <2>4 DEF Within
  <1>11. QED
    BY <1>6, <1>9, <1>10

\* What a call returns for a value states it.
LEMMA ConvertedStates ==
    ASSUME NEW o \in DOMAIN Ops, NEW i \in DOMAIN Ops[o].parts, NEW raw \in Int,
           Ops[o].chip = measuring, scale \in Scales, measuring = "HTS221" => cal \in Calibrations,
           NEW v, v \in Converted(o, Ops[o].parts[i], raw)
    PROVE  States(v, o, Ops[o].parts[i], raw)
  <1>0. PICK c : c = Ops[o].parts[i]
    OBVIOUS
  <1>1. CASE o \in {"getXAxes", "Get_Acceleration"}
    <2>1. measuring = "XL"
      BY <1>1, SMT DEF Ops, GetRawAccData, Op
    <2>2. scale \in 1 .. 4
      BY <2>1 DEF Scales
    <2>3. QED
      BY <1>1, <2>2, MotionStates
  <1>2. CASE o \in {"getGAxes", "Get_AngularRate"}
    <2>1. measuring = "G"
      BY <1>2, SMT DEF Ops, GetRawGyroData, Op
    <2>2. scale \in 1 .. 5
      BY <2>1 DEF Scales
    <2>3. QED
      BY <1>2, <2>2, MotionStates
  <1>3. CASE o \in {"getHumidity", "Get_Measurement"} /\ c = "H"
    <2>1. cal \in Calibrations
      BY <1>3, SMT DEF Ops, Get_HumidityRaw, Get_Measurement, Op
    <2>2. v \in Get_Humidity(raw)
      BY <1>0, <1>3, SMT DEF Converted
    <2>3. PICK t \in Tenths(raw, 2) : v = IF t > 1000 THEN 1000 ELSE IF t < 0 THEN 0 ELSE t
      BY <2>2 DEF Get_Humidity
    <2>4. /\ t \in Int /\ Within(t, TenthsTimesAbs(raw, 2), AbsSlope, AbsSlope)
          /\ t > 1000 => TenthsTimesAbs(raw, 2) > 1000 * AbsSlope
          /\ t < 0 => TenthsTimesAbs(raw, 2) < 0
      BY <2>1, TenthsBounds, SMTT(60)
    <2>5. /\ 0 <= v /\ v <= 1000
          /\ \/ Within(v, TenthsTimesAbs(raw, 2), AbsSlope, AbsSlope)
             \/ v = 0 /\ TenthsTimesAbs(raw, 2) < 0
             \/ v = 1000 /\ TenthsTimesAbs(raw, 2) > 1000 * AbsSlope
      BY <2>3, <2>4, SMT
    <2>6. QED
      BY <1>0, <1>3, <2>5, SMT DEF States
  <1>4. CASE o \in {"getTemperature", "Get_Measurement"} /\ c = "T"
    <2>1. cal \in Calibrations
      BY <1>4, SMT DEF Ops, Get_TemperatureRaw, Get_Measurement, Op
    <2>2. v \in Tenths(raw, 8)
      BY <1>0, <1>4, SMT DEF Converted, Get_Temperature
    <2>3. Within(v, TenthsTimesAbs(raw, 8), AbsSlope, AbsSlope)
      BY <2>1, <2>2, TenthsBounds
    <2>4. QED
      BY <1>0, <1>4, <2>3, SMT DEF States
  <1>5. CASE o = "get6dOrientation"
    <2>1. Ops[o] = R_D6D
      BY <1>5, SMT DEF Ops
    <2>2. Ops[o].parts = Faces
      BY <2>1, SMT DEF R_D6D, Op
    <2>3. c \in {"XL", "XH", "YL", "YH", "ZL", "ZH"}
      BY <1>0, <2>2, SMT DEF Faces
    <2>4. FaceMask(c) \in Nat \ {0}
      BY <2>3, SMT DEF FaceMask
    <2>5. PICK m : m = FaceMask(c)
      OBVIOUS
    <2>6. v = (raw \div m) % 2
      BY <1>0, <1>5, <2>5, SMT DEF Converted, get6dOrientation
    <2>7. raw \div m \in Int
      BY <2>4, <2>5, SMT
    <2>8. v = IF (raw \div m) % 2 = 1 THEN 1 ELSE 0
      BY <2>6, <2>7, SMT
    <2>9. QED
      BY <1>0, <1>5, <2>5, <2>8, SMT DEF States
  <1>6. CASE /\ ~(o \in {"getXAxes", "Get_Acceleration", "getGAxes", "Get_AngularRate",
                         "get6dOrientation"})
             /\ ~(o \in {"getHumidity", "Get_Measurement"} /\ c = "H")
             /\ ~(o \in {"getTemperature", "Get_Measurement"} /\ c = "T")
    <2>1. v = raw
      BY <1>0, <1>6, SMT DEF Converted, LIS2MDL_M_GetAxes, GetPressure, GetTemperature
    <2>2. QED
      BY <1>0, <1>6, <2>1, SMT DEF States
  <1>7. QED
    BY <1>1, <1>2, <1>3, <1>4, <1>5, <1>6

(* The steps.                                                              *)

\* What a call reads, and how far it is.
LEMMA CallFacts ==
    ASSUME ReadingInv, op # Idle_
    PROVE  /\ op \in DOMAIN Ops /\ Width \in 1 .. 3 /\ Len(Ops[op].parts) \in Nat \ {0}
           /\ DOMAIN Ops[op].parts = 1 .. Len(Ops[op].parts)
           /\ bytes \in Seq(0 .. 255) /\ Len(bytes) \in Nat /\ DOMAIN bytes = 1 .. Len(bytes)
           /\ Len(bytes) < Width * Len(Ops[op].parts)
           /\ Len(bytes) \div Width + 1 \in 1 .. Len(Ops[op].parts)
           /\ Part \in Channels
           /\ \A i \in 1 .. Len(Ops[op].parts) : Ops[op].parts[i] \in Channels
  <1>1. op \in DOMAIN Ops /\ bytes \in Seq(0 .. 255)
    BY DEF ReadingInv, ReadingTypeOK
  <1>2. /\ Width \in 1 .. 3 /\ Len(Ops[op].parts) \in Nat \ {0}
        /\ DOMAIN Ops[op].parts = 1 .. Len(Ops[op].parts)
    BY <1>1, CallsAreOfKinds, KindsRead DEF Width
  <1>3. Len(bytes) < Width * Len(Ops[op].parts)
    BY DEF ReadingInv, Reading
  <1>4. PICK w, n, l : w = Width /\ n = Len(Ops[op].parts) /\ l = Len(bytes)
    OBVIOUS
  <1>5. l \in Nat /\ DOMAIN bytes = 1 .. l
    BY <1>1, <1>4
  <1>6. l \div w \in Nat /\ l = (l \div w) * w + (l % w) /\ l % w \in 0 .. w - 1
    BY <1>2, <1>4, <1>5, NextByte
  <1>7. l \div w + 1 \in 1 .. n
    <2>1. PICK q : q = l \div w
      OBVIOUS
    <2>2. q \in Nat /\ q * w < w * n /\ w \in 1 .. 3 /\ n \in Nat
      BY <1>2, <1>3, <1>4, <1>5, <1>6, <2>1, SMT
    <2>3. q < n
      BY <2>2, SMT
    <2>4. QED
      BY <2>1, <2>2, <2>3, SMT
  <1>8. \A i \in 1 .. n : Ops[op].parts[i] \in Channels
    BY <1>1, <1>2, <1>4, PartsAreChannels
  <1>9. Part \in Channels
    BY <1>4, <1>7, <1>8 DEF Part
  <1>10. QED
    BY <1>1, <1>2, <1>3, <1>4, <1>5, <1>7, <1>8, <1>9

\* What is true of the bytes of a call with one byte more.
WholeAfter(all) ==
    /\ \A i \in 1 .. Len(all) \div Width :
           \E k \in begin[Ops[op].parts[i]] .. made :
               \A j \in 1 .. Width : all[(i - 1) * Width + j] = Byte(Sample(Width, k), j)
    /\ \A j \in 1 .. Index : all[Len(bytes) - (Index - 1) + j] = Byte(Sample(Width, out[Part]), j)

\* A byte more, and every output that has been read to its end is one sample.
LEMMA ByteMore ==
    ASSUME ReadingInv, op # Idle_, result.sure, NEW all,
           all = Append(bytes, Byte(Sample(Width, out[Part]), Index))
    PROVE  WholeAfter(all)
  <1>1. PICK w, l, q, r, b : /\ w = Width /\ l = Len(bytes) /\ q = l \div w /\ r = l % w
                             /\ b = Byte(Sample(Width, out[Part]), Index)
    OBVIOUS
  <1>2. /\ w \in 1 .. 3 /\ l \in Nat /\ bytes \in Seq(0 .. 255) /\ Part \in Channels
        /\ q + 1 \in 1 .. Len(Ops[op].parts) /\ DOMAIN bytes = 1 .. l
    BY <1>1, CallFacts
  <1>3. /\ q \in Nat /\ r \in 0 .. w - 1 /\ l = q * w + r
        /\ r + 1 < w => (l + 1) \div w = q
        /\ r + 1 = w => (l + 1) \div w = q + 1
    BY <1>1, <1>2, NextByte
  <1>4. Len(all) = l + 1 /\ (\A x \in 1 .. l : all[x] = bytes[x]) /\ all[l + 1] = b
    BY <1>1, <1>2
  <1>5. ReadWhole /\ ReadInPart
    BY DEF ReadingInv, Reading
  <1>6. Index = r + 1 /\ Part = Ops[op].parts[q + 1]
    BY <1>1 DEF Index, Part
  <1>8. /\ out[Part] \in Nat /\ begin[Part] \in Nat /\ made \in Nat /\ begin[Part] <= out[Part]
        /\ out[Part] <= made
    BY <1>2, SMT DEF ReadingInv, ReadingTypeOK
  <1>9. ASSUME NEW j \in 1 .. Index
        PROVE  all[l - (Index - 1) + j] = Byte(Sample(w, out[Part]), j)
    <2>1. CASE j = Index
      <3>1. l - (Index - 1) + j = l + 1
        BY <1>2, <1>3, <1>6, <2>1, SMT
      <3>2. QED
        BY <1>1, <1>4, <2>1, <3>1
    <2>2. CASE j # Index
      <3>1. j \in 1 .. Index - 1 /\ Index > 1 /\ l - (Index - 1) + j \in 1 .. l
        BY <1>2, <1>3, <1>6, <2>2, SMT
      <3>2. bytes[l - (Index - 1) + j] = Byte(Sample(w, out[Part]), j)
        BY <1>1, <1>5, <3>1 DEF ReadInPart, BytesOf
      <3>3. QED
        BY <1>4, <3>1, <3>2
    <2>3. QED
      BY <2>1, <2>2
  <1>10. ASSUME NEW i \in 1 .. (l + 1) \div w
         PROVE  \E k \in begin[Ops[op].parts[i]] .. made :
                    \A j \in 1 .. w : all[(i - 1) * w + j] = Byte(Sample(w, k), j)
    <2>1. CASE i <= q
      <3>1. i \in 1 .. q
        BY <1>3, <2>1, SMT
      <3>2. PICK k \in begin[Ops[op].parts[i]] .. made :
                \A j \in 1 .. w : bytes[(i - 1) * w + j] = Byte(Sample(w, k), j)
        BY <1>1, <1>5, <3>1 DEF ReadWhole, BytesOf
      <3>3. \A j \in 1 .. w : (i - 1) * w + j \in 1 .. l
        <4>1. i \in Nat /\ i >= 1 /\ i <= q
          BY <1>3, <3>1, SMT
        <4>2. CASE w = 1
          BY <1>2, <1>3, <4>1, <4>2, SMT
        <4>3. CASE w = 2
          BY <1>2, <1>3, <4>1, <4>3, SMT
        <4>4. CASE w = 3
          BY <1>2, <1>3, <4>1, <4>4, SMT
        <4>5. w = 1 \/ w = 2 \/ w = 3
          BY <1>2, SMT
        <4>6. QED
          BY <4>2, <4>3, <4>4, <4>5
      <3>4. QED
        BY <1>4, <3>2, <3>3
    <2>2. CASE ~(i <= q)
      <3>1. r + 1 = w /\ i = q + 1
        BY <1>2, <1>3, <2>2, SMT
      <3>2. (i - 1) * w = l - (Index - 1) /\ Index = w /\ Ops[op].parts[i] = Part
        BY <1>2, <1>3, <1>6, <3>1, SMT
      <3>3. \A j \in 1 .. w : all[(i - 1) * w + j] = Byte(Sample(w, out[Part]), j)
        BY <1>9, <3>2
      <3>4. out[Part] \in begin[Ops[op].parts[i]] .. made
        BY <1>8, <3>2
      <3>5. QED
        BY <3>3, <3>4
    <2>3. QED
      BY <2>1, <2>2
  <1>11. QED
    BY <1>1, <1>4, <1>9, <1>10, ZenonT(60) DEF WholeAfter

\* A part of a sequence is as long as its bounds say, and has the elements between.
LEMMA PartOf ==
    ASSUME NEW S, NEW s \in Seq(S), NEW a \in Nat, NEW w \in Nat, a + w <= Len(s)
    PROVE  /\ Len(SubSeq(s, a + 1, a + w)) = w
           /\ \A j \in 1 .. w : SubSeq(s, a + 1, a + w)[j] = s[a + j]
  BY SMT

\* What the call returns when the last byte has been read.
LEMMA ReturnedStates ==
    ASSUME ReadingInv, op # Idle_, result.sure, NEW all,
           all = Append(bytes, Byte(Sample(Width, out[Part]), Index)),
           Len(all) = Width * Len(Ops[op].parts), NEW v \in Returned(op, all),
           NEW i \in DOMAIN Ops[op].parts
    PROVE  \E k \in begin[Ops[op].parts[i]] .. made :
               States(v[i], op, Ops[op].parts[i], Sample(Width, k))
  <1>1. PICK w, n, parts : w = Width /\ n = Len(Ops[op].parts) /\ parts = Ops[op].parts
    OBVIOUS
  <1>2. /\ op \in DOMAIN Ops /\ w \in 1 .. 3 /\ n \in Nat \ {0} /\ i \in 1 .. n
        /\ bytes \in Seq(0 .. 255) /\ Part \in Channels /\ Len(bytes) \in Nat
        /\ parts[i] \in Channels
    BY <1>1, CallFacts
  <1>3. /\ Ops[op].chip = measuring /\ scale \in Scales /\ phase \in 0 .. 2
        /\ measuring = "HTS221" => cal \in Calibrations
    BY DEF ReadingInv, ReadingTypeOK, Reading
  <1>4. Len(all) \div w = n
    <2>1. Len(all) = w * n
      BY <1>1
    <2>2. QED
      BY <1>2, <2>1, SMT
  <1>5. PICK k \in begin[parts[i]] .. made :
            \A j \in 1 .. w : all[(i - 1) * w + j] = Byte(Sample(w, k), j)
    <2>1. WholeAfter(all)
      BY ByteMore
    <2>2. i \in 1 .. Len(all) \div Width
      BY <1>1, <1>2, <1>4
    <2>3. QED
      BY <1>1, <2>1, <2>2 DEF WholeAfter
  <1>6. begin[parts[i]] \in Nat /\ made \in Nat
    BY <1>2, SMT DEF ReadingInv, ReadingTypeOK
  <1>7. k \in Nat
    BY <1>5, <1>6, SMT
  <1>8. PICK raw : raw = Sample(w, k)
    OBVIOUS
  <1>9. Fits(w, raw) /\ raw \in Int
    <2>1. Fits(w, Sample(w, k))
      BY <1>2, <1>3, <1>7, SamplesFit
    <2>2. QED
      BY <1>8, <2>1, SMT DEF Fits
  <1>10. PICK piece : piece = SubSeq(all, (i - 1) * w + 1, i * w)
    OBVIOUS
  <1>11. Len(piece) = w /\ \A j \in 1 .. w : piece[j] = Byte(raw, j)
    <2>1. PICK x : x = Byte(Sample(Width, out[Part]), Index)
      OBVIOUS
    <2>2. bytes \in Seq((0 .. 255) \cup {x}) /\ all \in Seq((0 .. 255) \cup {x})
      <3>1. PICK B : B = 0 .. 255
        OBVIOUS
      <3>2. bytes \in Seq(B \cup {x})
        BY <1>2, <3>1
      <3>3. QED
        BY <2>1, <3>1, <3>2
    <2>3. PICK a : a = (i - 1) * w
      OBVIOUS
    <2>4. a \in Nat /\ a + w = i * w /\ a + w <= w * n
      BY <1>2, <2>3, SMT
    <2>5. PICK B : B = (0 .. 255) \cup {x}
      OBVIOUS
    <2>6. all \in Seq(B) /\ a + w <= Len(all) /\ w \in Nat
      BY <1>1, <1>2, <2>2, <2>4, <2>5
    <2>7. /\ Len(SubSeq(all, a + 1, a + w)) = w
          /\ \A j \in 1 .. w : SubSeq(all, a + 1, a + w)[j] = all[a + j]
      BY <2>4, <2>6, PartOf
    <2>8. QED
      BY <1>5, <1>8, <1>10, <2>3, <2>4, <2>7
  <1>12. Build(piece) = raw
    BY <1>2, <1>9, <1>11, BuildsBack
  <1>13. v[i] \in Converted(op, parts[i], Build(piece))
    BY <1>1, <1>10 DEF Returned, Width
  <1>14. States(v[i], op, parts[i], raw)
    BY <1>1, <1>2, <1>3, <1>9, <1>12, <1>13, ConvertedStates
  <1>15. QED
    BY <1>1, <1>5, <1>8, <1>14

\* A byte is a byte.
LEMMA BytesAreBytes ==
    ASSUME NEW v \in Int, NEW j \in 1 .. 3
    PROVE  Byte(v, j) \in 0 .. 255
  <1>1. Weight[j] \in Nat \ {0}
    BY SMT DEF Weight
  <1>2. PICK x : x = v \div Weight[j]
    OBVIOUS
  <1>3. x \in Int
    BY <1>1, <1>2, SMT
  <1>4. 0 <= x % 256 /\ x % 256 <= 255 /\ x % 256 \in Int
    BY <1>3, SMT
  <1>5. PICK m : m = 255
    OBVIOUS
  <1>6. x % 256 \in 0 .. m
    BY <1>4, <1>5, SMT
  <1>7. QED
    BY <1>2, <1>5, <1>6 DEF Byte

\* What a value states does not change by itself.
LEMMA SameStates ==
    ASSUME UNCHANGED <<scale, cal>>, NEW v, NEW o, NEW c, NEW raw
    PROVE  States(v, o, c, raw)' = States(v, o, c, raw)
  BY SMT DEF States, TenthsTimesAbs, TenthsTimesSlope, AbsSlope, Slope

\* Nor does a sample.
LEMMA SameSample ==
    ASSUME UNCHANGED phase, NEW w, NEW k
    PROVE  Sample(w, k)' = Sample(w, k)
  BY DEF Sample

\* A true reading stays true while the chip measures on.
LEMMA TruthStays ==
    ASSUME ReadingInv, UNCHANGED <<scale, cal, phase, result, begin>>, made' \in {made, made + 1}
    PROVE  ReadingsTrue'
  <1> SUFFICES ASSUME result.status = 0, result.sure,
                      ~(result.op \in IgnoresErrors /\ result.values = Undefined),
                      NEW i \in DOMAIN Ops[result.op].parts
               PROVE  \E k \in begin[Ops[result.op].parts[i]] .. made' :
                          States(result.values[i], result.op, Ops[result.op].parts[i],
                                 Sample(Ops[result.op].width, k))'
    BY DEF ReadingsTrue
  <1>1. PICK k \in begin[Ops[result.op].parts[i]] .. made :
            States(result.values[i], result.op, Ops[result.op].parts[i],
                   Sample(Ops[result.op].width, k))
    BY DEF ReadingInv, ReadingsTrue
  <1>2. States(result.values[i], result.op, Ops[result.op].parts[i], Sample(Ops[result.op].width, k))'
    BY <1>1, SameStates, SameSample
  <1>3. Ops[result.op].parts[i] \in Channels
    BY PartsAreChannels DEF ReadingInv
  <1>4. begin[Ops[result.op].parts[i]] \in Int /\ made \in Int
    BY <1>3, SMT DEF ReadingInv, ReadingTypeOK
  <1>5. k \in begin[Ops[result.op].parts[i]] .. made'
    BY <1>1, <1>4, SMT
  <1>6. QED
    BY <1>2, <1>5

\* Nothing was read in the beginning.
LEMMA ReadingBegins == ReadingInit => ReadingInv
  <1> SUFFICES ASSUME ReadingInit PROVE ReadingInv
    OBVIOUS
  <1>1. /\ measuring \in Chips /\ bdu = FALSE /\ configured = FALSE /\ scale \in Scales /\ phase \in 0 .. 2
        /\ made = 1 /\ out = [c \in Channels |-> 1] /\ held = [c \in Channels |-> FALSE] /\ begin = out
        /\ op = Idle_ /\ bytes = <<>>
        /\ result = [op |-> Idle_, status |-> 1, values |-> Undefined, sure |-> FALSE]
    BY DEF ReadingInit
  <1>2. measuring = "HTS221" => cal \in Calibrations
    BY DEF ReadingInit
  <1>3. 1 \in 1 .. MaxSamples
    BY ReadingBounds, SMT
  <1>4. /\ DOMAIN result = {"op", "status", "values", "sure"} /\ result.op = Idle_ /\ result.status = 1
        /\ result.sure = FALSE
    BY <1>1
  <1>5. out \in [Channels -> 1 .. made] /\ begin \in [Channels -> 1 .. made] /\ held \in [Channels -> BOOLEAN]
    BY <1>1, SMT
  <1>6. \A c \in Channels : begin[c] <= out[c]
    BY <1>1, SMT
  <1>7. bytes \in Seq(0 .. 255)
    BY <1>1
  <1>8. ReadingTypeOK
    BY <1>1, <1>2, <1>3, <1>4, <1>5, <1>7 DEF ReadingTypeOK
  <1>9. QED
    BY <1>1, <1>4, <1>6, <1>8 DEF ReadingInv, Reading, ReadingsTrue

\* The chip's samples.
LEMMA ChipSamplesKeeps ==
    ASSUME ReadingInv, ChipSamples
    PROVE  ReadingInv'
  <1>1. /\ UNCHANGED <<measuring, scale, cal, phase, bdu, configured, held, op, bytes, begin, result>>
        /\ made' = made + 1 /\ made < MaxSamples
        /\ out' = [c \in Channels |-> IF bdu /\ held[c] THEN out[c] ELSE made + 1]
    BY DEF ChipSamples, chosen
  <1>2. ReadingTypeOK /\ (configured => bdu) /\ (\A c \in Channels : begin[c] <= out[c])
    BY DEF ReadingInv
  <1>3. \A c \in Channels : /\ out[c] \in 1 .. made /\ begin[c] \in 1 .. made /\ made \in 1 .. MaxSamples
                            /\ out'[c] \in 1 .. made + 1
    BY <1>1, <1>2, SMT DEF ReadingTypeOK
  <1>4. ReadingTypeOK'
    <2>1. made' \in 1 .. MaxSamples
      BY <1>1, <1>2, ReadingBounds, SMT DEF ReadingTypeOK
    <2>2. out' \in [Channels -> 1 .. made'] /\ begin' \in [Channels -> 1 .. made']
      BY <1>1, <1>2, <1>3, SMT DEF ReadingTypeOK
    <2>3. QED
      BY <1>1, <1>2, <2>1, <2>2 DEF ReadingTypeOK, Scales
  <1>5. \A c \in Channels : begin'[c] <= out'[c]
    BY <1>1, <1>2, <1>3, SMT
  <1>6. Reading'
    <2> SUFFICES ASSUME op # Idle_ PROVE Reading'
      BY <1>1 DEF Reading
    <2>1. /\ Ops[op].chip = measuring /\ result.op = op /\ result.status = 1
          /\ Len(bytes) < Width * Len(Ops[op].parts)
          /\ result.sure => bdu /\ ReadWhole /\ ReadInPart
      BY DEF ReadingInv, Reading
    <2>2. ASSUME result.sure
          PROVE  ReadWhole' /\ ReadInPart'
      <3>1. \A c \in Channels : held[c] => out'[c] = out[c]
        BY <1>1, <2>1, <2>2
      <3>2. Part \in Channels /\ Width' = Width /\ Index' = Index /\ Part' = Part
        BY <1>1, CallFacts DEF Width, Index, Part
      <3>3. ReadInPart'
        BY <1>1, <2>1, <2>2, <3>1, <3>2 DEF ReadInPart, BytesOf, Sample
      <3>4. ReadWhole'
        <4> SUFFICES ASSUME NEW i \in 1 .. Len(bytes) \div Width
                     PROVE  \E k \in begin[Ops[op].parts[i]] .. made' :
                                BytesOf(Width, k, (i - 1) * Width, Width)
          BY <1>1, <3>2 DEF ReadWhole, BytesOf, Sample
        <4>1. PICK k \in begin[Ops[op].parts[i]] .. made : BytesOf(Width, k, (i - 1) * Width, Width)
          BY <2>1, <2>2 DEF ReadWhole
        <4>2. Ops[op].parts[i] \in Channels
          <5>1. PICK q, n : q = Len(bytes) \div Width /\ n = Len(Ops[op].parts)
            OBVIOUS
          <5>2. q + 1 \in 1 .. n /\ n \in Nat /\ \A x \in 1 .. n : Ops[op].parts[x] \in Channels
            BY <5>1, CallFacts
          <5>3. q \in Int
            BY <5>1, CallFacts, NextByte
          <5>4. i \in 1 .. n
            BY <5>1, <5>2, <5>3, SMT
          <5>5. QED
            BY <5>2, <5>4
        <4>3. k \in begin[Ops[op].parts[i]] .. made'
          BY <1>1, <1>3, <4>1, <4>2, SMT
        <4>4. QED
          BY <4>1, <4>3
      <3>5. QED
        BY <3>3, <3>4
    <2>3. QED
      BY <1>1, <2>1, <2>2 DEF Reading, Width
  <1>7. ReadingsTrue'
    BY <1>1, TruthStays
  <1>8. QED
    BY <1>1, <1>2, <1>4, <1>5, <1>6, <1>7 DEF ReadingInv

\* An init of the chip, that may break off.
LEMMA SensorInitKeeps ==
    ASSUME ReadingInv, SensorInit
    PROVE  ReadingInv'
  <1>1. /\ UNCHANGED <<measuring, scale, cal, phase, made, out, held, op, bytes, begin, result>>
        /\ op = Idle_ /\ bdu' \in {bdu, TRUE} /\ configured' \in {configured, TRUE}
        /\ configured' => bdu'
    <2>1. /\ UNCHANGED <<measuring, scale, cal, phase, made, out, held, op, bytes, begin, result>>
          /\ op = Idle_ /\ ~configured
      BY DEF SensorInit, chosen
    <2>2. CASE bdu' = TRUE /\ configured' = TRUE
      BY <2>1, <2>2
    <2>3. CASE bdu' \in {bdu, TRUE} /\ UNCHANGED configured
      BY <2>1, <2>3
    <2>4. QED
      BY <2>2, <2>3 DEF SensorInit
  <1>2. ReadingTypeOK'
    <2>1. ReadingTypeOK
      BY DEF ReadingInv
    <2>2. {bdu', configured'} \subseteq BOOLEAN
      BY <1>1, <2>1 DEF ReadingTypeOK
    <2>3. QED
      BY <1>1, <2>1, <2>2 DEF ReadingTypeOK, Scales
  <1>3. ReadingsTrue'
    BY <1>1, TruthStays
  <1>4. QED
    BY <1>1, <1>2, <1>3 DEF ReadingInv, Reading

\* A call begins.
LEMMA ReadingCallKeeps ==
    ASSUME ReadingInv, NEW o \in DOMAIN Ops, ReadingCall(o)
    PROVE  ReadingInv'
  <1>1. /\ UNCHANGED <<measuring, scale, cal, phase, bdu, configured, made, out, held>>
        /\ op' = o /\ bytes' = <<>> /\ begin' = out /\ Ops[o].chip = measuring
        /\ result' = [op |-> o, status |-> 1, values |-> Undefined, sure |-> configured]
    BY DEF ReadingCall, chosen
  <1>2. /\ DOMAIN result' = {"op", "status", "values", "sure"} /\ result'.op = o /\ result'.status = 1
        /\ result'.sure = configured
    BY <1>1
  <1>3. ReadingTypeOK /\ (configured => bdu)
    BY DEF ReadingInv
  <1>4. ReadingTypeOK'
    <2>1. bytes' \in Seq(0 .. 255)
      BY <1>1
    <2>2. QED
      BY <1>1, <1>2, <1>3, <2>1 DEF ReadingTypeOK, Scales
  <1>5. \A c \in Channels : begin'[c] <= out'[c]
    BY <1>1, <1>3, SMT DEF ReadingTypeOK
  <1>6. PICK w, n : w = Ops[o].width /\ n = Len(Ops[o].parts)
    OBVIOUS
  <1>7. w \in 1 .. 3 /\ n \in Nat \ {0}
    BY <1>6, CallsAreOfKinds, KindsRead
  <1>8. Width' = w /\ Len(bytes') = 0 /\ Index' = 1 /\ Len(bytes') \div w = 0 /\ 0 < w * n
    <2>1. Len(bytes') = 0 /\ Width' = w
      BY <1>1, <1>6 DEF Width
    <2>2. 0 \div w = 0 /\ 0 % w = 0
      BY <1>7, SMT
    <2>3. Index' = (Len(bytes') % w) + 1
      BY <2>1 DEF Index
    <2>4. 0 < w * n
      BY <1>7, SMT
    <2>5. QED
      BY <2>1, <2>2, <2>3, <2>4
  <1>9. ReadWhole' /\ ReadInPart'
    BY <1>8, SMT DEF ReadWhole, ReadInPart
  <1>10. Reading'
    BY <1>1, <1>2, <1>3, <1>6, <1>8, <1>9 DEF Reading
  <1>11. QED
    BY <1>1, <1>2, <1>3, <1>4, <1>5, <1>10 DEF ReadingInv, ReadingsTrue

\* A transfer fails.
LEMMA ReadFailsKeeps ==
    ASSUME ReadingInv, ReadFails
    PROVE  ReadingInv'
  <1>1. /\ UNCHANGED <<measuring, scale, cal, phase, bdu, configured, made, out, begin>>
        /\ op # Idle_ /\ held' \in {held, HeldAfterRead} /\ op' = Idle_ /\ bytes' = <<>>
        /\ result' = [result EXCEPT !.status = IF op \in IgnoresErrors THEN 0 ELSE 1,
                                    !.values = Left(op)]
    BY DEF ReadFails, chosen
  <1>2. ReadingTypeOK /\ op \in DOMAIN Ops /\ Part \in Channels /\ result.op = op
    BY <1>1, CallFacts DEF ReadingInv, Reading
  <1>3. /\ DOMAIN result' = {"op", "status", "values", "sure"} /\ result'.op = op
        /\ result'.status = (IF op \in IgnoresErrors THEN 0 ELSE 1) /\ result'.values = Left(op)
        /\ result'.sure = result.sure
    BY <1>1, <1>2 DEF ReadingTypeOK
  <1>4. held' \in [Channels -> BOOLEAN]
    <2>1. PICK b : b = (Index < Width)
      OBVIOUS
    <2>2. b \in BOOLEAN /\ held' \in {held, [held EXCEPT ![Part] = b]}
      BY <1>1, <2>1 DEF HeldAfterRead
    <2>3. held \in [Channels -> BOOLEAN]
      BY <1>2 DEF ReadingTypeOK
    <2>4. QED
      BY <1>2, <2>2, <2>3
  <1>5. ReadingTypeOK'
    <2>1. bytes' \in Seq(0 .. 255)
      BY <1>1
    <2>2. QED
      BY <1>1, <1>2, <1>3, <1>4, <2>1 DEF ReadingTypeOK, Scales
  <1>6. op \in IgnoresErrors => Left(op) = Undefined
    <2>1. op \in IgnoresErrors => Ops[op] \in {GetRawAccData, GetRawGyroData}
      BY SMT DEF IgnoresErrors, Ops
    <2>2. op \in IgnoresErrors => Ops[op].parts = XYZ
      BY <2>1, SMT DEF GetRawAccData, GetRawGyroData, Op
    <2>3. Len(XYZ) # 1
      BY SMT DEF XYZ
    <2>4. QED
      BY <2>2, <2>3 DEF Left
  <1>7. ReadingsTrue'
    BY <1>3, <1>6 DEF ReadingsTrue
  <1>8. QED
    BY <1>1, <1>2, <1>3, <1>5, <1>7 DEF ReadingInv, Reading

\* A byte is read.
LEMMA ReadByteKeeps ==
    ASSUME ReadingInv, ReadByte
    PROVE  ReadingInv'
  <1>1. PICK all : all = Append(bytes, Byte(Sample(Width, out[Part]), Index))
    OBVIOUS
  <1>2. /\ UNCHANGED <<measuring, scale, cal, phase, bdu, configured, made, out, begin>>
        /\ op # Idle_ /\ held' = HeldAfterRead
        /\ \/ /\ Len(all) < Width * Len(Ops[op].parts)
              /\ bytes' = all /\ UNCHANGED <<op, result>>
           \/ /\ Len(all) = Width * Len(Ops[op].parts)
              /\ bytes' = <<>> /\ op' = Idle_
              /\ \E v \in Returned(op, all) : result' = [result EXCEPT !.status = 0, !.values = v]
    BY <1>1 DEF ReadByte, chosen
  <1>3. /\ ReadingTypeOK /\ op \in DOMAIN Ops /\ Part \in Channels /\ result.op = op /\ result.status = 1
        /\ Ops[op].chip = measuring /\ (configured => bdu) /\ (result.sure => bdu)
        /\ \A c \in Channels : begin[c] <= out[c]
    BY <1>2, CallFacts DEF ReadingInv, Reading
  <1>4. PICK w, l, q, r : w = Width /\ l = Len(bytes) /\ q = l \div w /\ r = l % w
    OBVIOUS
  <1>5. w \in 1 .. 3 /\ l \in Nat /\ bytes \in Seq(0 .. 255)
    BY <1>2, <1>4, CallFacts
  <1>6. /\ q \in Nat /\ r \in 0 .. w - 1 /\ l = q * w + r
        /\ r + 1 < w => (l + 1) \div w = q /\ (l + 1) % w = r + 1
        /\ r + 1 = w => (l + 1) \div w = q + 1 /\ (l + 1) % w = 0
    BY <1>4, <1>5, NextByte
  <1>7. Index = r + 1 /\ Part = Ops[op].parts[q + 1] /\ Index \in 1 .. 3
    BY <1>4, <1>5, <1>6, SMT DEF Index, Part
  <1>8. held' \in [Channels -> BOOLEAN] /\ (r + 1 < w => held'[Part])
    <2>1. held' = [held EXCEPT ![Part] = r + 1 < w]
      BY <1>2, <1>4, <1>7 DEF HeldAfterRead
    <2>2. PICK b : b = (r + 1 < w)
      OBVIOUS
    <2>3. b \in BOOLEAN /\ held' = [held EXCEPT ![Part] = b] /\ (r + 1 < w => b = TRUE)
      <3>1. b \in BOOLEAN
        BY <2>2
      <3>2. ASSUME r + 1 < w PROVE b = TRUE
        <4>1. (r + 1 < w) = TRUE
          BY <3>2
        <4>2. QED
          BY <2>2, <4>1
      <3>3. QED
        BY <2>1, <2>2, <3>1, <3>2
    <2>4. held \in [Channels -> BOOLEAN]
      BY <1>3 DEF ReadingTypeOK
    <2>5. held' \in [Channels -> BOOLEAN] /\ held'[Part] = b
      BY <1>3, <2>3, <2>4
    <2>6. QED
      BY <2>3, <2>5
  <1>9. all \in Seq(0 .. 255) /\ Len(all) = l + 1
    <2>1. out[Part] \in Nat /\ phase \in 0 .. 2
      BY <1>3, SMT DEF ReadingTypeOK
    <2>2. Fits(w, Sample(w, out[Part]))
      BY <1>5, <2>1, SamplesFit
    <2>3. Sample(w, out[Part]) \in Int
      BY <2>2 DEF Fits
    <2>4. PICK b, B : b = Byte(Sample(w, out[Part]), Index) /\ B = 0 .. 255
      OBVIOUS
    <2>5. b \in B
      BY <1>7, <2>3, <2>4, BytesAreBytes
    <2>6. bytes \in Seq(B) /\ all = Append(bytes, b)
      BY <1>1, <1>4, <1>5, <2>4
    <2>7. all \in Seq(B) /\ Len(all) = l + 1
      BY <1>4, <2>5, <2>6
    <2>8. QED
      BY <2>4, <2>7
  <1>10. CASE /\ Len(all) < Width * Len(Ops[op].parts)
              /\ bytes' = all /\ UNCHANGED <<op, result>>
    <2>1. ReadingTypeOK'
      BY <1>2, <1>3, <1>8, <1>9, <1>10 DEF ReadingTypeOK, Scales
    <2>2. Width' = w /\ Index' = ((l + 1) % w) + 1 /\ Part' = Ops[op].parts[((l + 1) \div w) + 1]
      BY <1>4, <1>9, <1>10 DEF Width, Index, Part
    <2>3. ASSUME result.sure
          PROVE  ReadWhole' /\ ReadInPart'
      <3>1. WholeAfter(all)
        BY <1>1, <1>2, <2>3, ByteMore
      <3>2. /\ \A i \in 1 .. (l + 1) \div w :
                   \E k \in begin[Ops[op].parts[i]] .. made :
                       \A j \in 1 .. w : all[(i - 1) * w + j] = Byte(Sample(w, k), j)
            /\ \A j \in 1 .. r + 1 : all[l - r + j] = Byte(Sample(w, out[Part]), j)
        <4>1. l - (Index - 1) = l - r
          BY <1>5, <1>6, <1>7, SMT
        <4>2. \A j \in 1 .. r + 1 : all[l - r + j] = Byte(Sample(w, out[Part]), j)
          BY <1>4, <1>7, <3>1, <4>1 DEF WholeAfter
        <4>3. \A i \in 1 .. (l + 1) \div w :
                  \E k \in begin[Ops[op].parts[i]] .. made :
                      \A j \in 1 .. w : all[(i - 1) * w + j] = Byte(Sample(w, k), j)
          BY <1>4, <1>9, <3>1 DEF WholeAfter
        <4>4. QED
          BY <4>2, <4>3
      <3>3. ReadWhole'
        <4> SUFFICES ASSUME NEW i \in 1 .. Len(bytes') \div Width'
                     PROVE  \E k \in begin'[Ops[op'].parts[i]] .. made' :
                                \A j \in 1 .. Width' : bytes'[(i - 1) * Width' + j] = Byte(Sample(Width, k)', j)
          BY DEF ReadWhole, BytesOf
        <4>1. i \in 1 .. (l + 1) \div w
          BY <1>9, <1>10, <2>2
        <4>2. PICK k \in begin[Ops[op].parts[i]] .. made :
                  \A j \in 1 .. w : all[(i - 1) * w + j] = Byte(Sample(w, k), j)
          BY <3>2, <4>1
        <4>3. Sample(Width, k)' = Sample(w, k)
          BY <1>2, <2>2 DEF Sample
        <4>4. begin'[Ops[op'].parts[i]] .. made' = begin[Ops[op].parts[i]] .. made
          BY <1>2, <1>10
        <4>5. \A j \in 1 .. w : bytes'[(i - 1) * w + j] = Byte(Sample(Width, k)', j)
          BY <1>10, <4>2, <4>3
        <4>6. QED
          BY <2>2, <4>2, <4>4, <4>5
      <3>4. ReadInPart'
        <4>1. CASE r + 1 = w
          BY <1>6, <2>2, <4>1 DEF ReadInPart
        <4>2. CASE r + 1 # w
          <5>1. r + 1 < w
            BY <1>5, <1>6, <4>2, SMT
          <5>2. Index' = r + 2 /\ Part' = Part
            BY <1>6, <1>7, <2>2, <5>1, SMT
          <5>3. Index' - 1 = r + 1 /\ Len(bytes') - (Index' - 1) = l - r
            BY <1>5, <1>6, <1>9, <1>10, <5>2, SMT
          <5>4. PICK k : k = out[Part]
            OBVIOUS
          <5>5. Sample(w, k)' = Sample(w, k) /\ out'[Part'] = k
            BY <1>2, <5>2, <5>4, SameSample
          <5>6. \A j \in 1 .. r + 1 : bytes'[l - r + j] = Byte(Sample(w, k)', j)
            BY <1>10, <3>2, <5>4, <5>5
          <5>7. QED
            BY <1>8, <2>2, <5>1, <5>2, <5>3, <5>5, <5>6 DEF ReadInPart, BytesOf
        <4>3. QED
          BY <4>1, <4>2
      <3>5. QED
        BY <3>3, <3>4
    <2>4. Reading'
      BY <1>2, <1>3, <1>4, <1>10, <2>2, <2>3 DEF Reading
    <2>5. QED
      <3>1. result'.status = 1 /\ (configured' => bdu') /\ \A c \in Channels : begin'[c] <= out'[c]
        BY <1>2, <1>3, <1>10
      <3>2. QED
        BY <2>1, <2>4, <3>1 DEF ReadingInv, ReadingsTrue
  <1>11. CASE /\ Len(all) = Width * Len(Ops[op].parts)
              /\ bytes' = <<>> /\ op' = Idle_
              /\ \E v \in Returned(op, all) : result' = [result EXCEPT !.status = 0, !.values = v]
    <2>1. PICK v \in Returned(op, all) : result' = [result EXCEPT !.status = 0, !.values = v]
      BY <1>11
    <2>2. /\ DOMAIN result' = {"op", "status", "values", "sure"} /\ result'.op = op
          /\ result'.status = 0 /\ result'.values = v /\ result'.sure = result.sure
      BY <1>3, <2>1 DEF ReadingTypeOK
    <2>3. ReadingTypeOK'
      <3>1. bytes' \in Seq(0 .. 255)
        BY <1>11
      <3>2. QED
        BY <1>2, <1>3, <1>8, <1>11, <2>2, <3>1 DEF ReadingTypeOK, Scales
    <2>4. ReadingsTrue'
      <3>1. PICK o, low : o = op /\ low = begin
        OBVIOUS
      <3>2. ASSUME result.sure, NEW i \in DOMAIN Ops[o].parts
            PROVE  \E k \in low[Ops[o].parts[i]] .. made' :
                       States(v[i], o, Ops[o].parts[i], Sample(Ops[o].width, k))'
        <4>1. PICK k \in begin[Ops[op].parts[i]] .. made :
                  States(v[i], op, Ops[op].parts[i], Sample(Width, k))
          BY <1>1, <1>2, <1>11, <3>1, <3>2, ReturnedStates
        <4>2. PICK raw : raw = Sample(Ops[o].width, k)
          OBVIOUS
        <4>3. States(v[i], o, Ops[o].parts[i], raw)
          BY <3>1, <4>1, <4>2 DEF Width
        <4>4. States(v[i], o, Ops[o].parts[i], raw)' /\ raw = Sample(Ops[o].width, k)'
          <5>1. States(v[i], o, Ops[o].parts[i], raw)' = States(v[i], o, Ops[o].parts[i], raw)
            BY <1>2, SameStates
          <5>2. Sample(Ops[o].width, k)' = Sample(Ops[o].width, k)
            BY <1>2, SameSample
          <5>3. QED
            BY <4>2, <4>3, <5>1, <5>2
        <4>5. QED
          BY <1>2, <3>1, <4>1, <4>4
      <3>3. QED
        BY <1>2, <2>2, <3>1, <3>2 DEF ReadingsTrue
    <2>5. QED
      BY <1>2, <1>3, <1>11, <2>2, <2>3, <2>4 DEF ReadingInv, Reading
  <1>12. QED
    BY <1>2, <1>10, <1>11

(* ReadingInv holds in every reachable state of a sensor that is read byte *)
(* by byte while it measures: for every wave and calibration, and every    *)
(* number of samples, calls and failed transfers.                          *)
THEOREM ReadingInvariant == ReadingSpec => []ReadingInv
  <1>1. ReadingInit => ReadingInv
    BY ReadingBegins
  <1>2. ReadingInv /\ [ReadingNext]_readingVars => ReadingInv'
    <2> SUFFICES ASSUME ReadingInv, [ReadingNext]_readingVars PROVE ReadingInv'
      OBVIOUS
    <2>1. CASE ChipSamples
      BY <2>1, ChipSamplesKeeps
    <2>2. CASE SensorInit
      BY <2>2, SensorInitKeeps
    <2>3. CASE \E o \in DOMAIN Ops : ReadingCall(o)
      BY <2>3, ReadingCallKeeps
    <2>4. CASE ReadByte
      BY <2>4, ReadByteKeeps
    <2>5. CASE ReadFails
      BY <2>5, ReadFailsKeeps
    <2>6. CASE UNCHANGED readingVars
      <3>1. UNCHANGED <<measuring, bdu, configured, scale, cal, phase, made, out, held, op, bytes, begin,
                        result>>
        BY <2>6 DEF readingVars
      <3>2. ReadingsTrue'
        BY <3>1, TruthStays
      <3>3. Width' = Width /\ Index' = Index /\ Part' = Part
        BY <3>1 DEF Width, Index, Part
      <3>4. ReadWhole' = ReadWhole /\ ReadInPart' = ReadInPart
        BY <3>1, <3>3 DEF ReadWhole, ReadInPart, BytesOf, Sample
      <3>5. Reading'
        BY <3>1, <3>3, <3>4 DEF ReadingInv, Reading
      <3>6. ReadingTypeOK'
        BY <3>1 DEF ReadingInv, ReadingTypeOK, Scales
      <3>7. QED
        BY <3>1, <3>2, <3>5, <3>6 DEF ReadingInv
    <2>7. QED
      BY <2>1, <2>2, <2>3, <2>4, <2>5, <2>6 DEF ReadingNext
  <1>3. QED
    BY <1>1, <1>2, PTL DEF ReadingSpec

(* Once init ran to its end, what a reading returns as success states one  *)
(* sample of the chip in each axis, to within a unit, at every full scale  *)
(* and with every calibration.                                             *)
THEOREM ReadingsAreTrue == ReadingSpec => []ReadingsTrue
  <1>1. ReadingInv => ReadingsTrue
    BY DEF ReadingInv
  <1>2. QED
    BY <1>1, ReadingInvariant, PTL

-----------------------------------------------------------------------------

(* The lists of the motion sensor's driver.                                *)

\* Induction up to n, for a set.
LEMMA UpTo ==
    ASSUME NEW n \in Nat, NEW S, 0 \in S, \A i \in 1 .. n : i - 1 \in S => i \in S
    PROVE  \A i \in 0 .. n : i \in S
  <1> DEFINE B == { i \in Nat : i \in 0 .. n /\ i \notin S }
  <1>1. B = {}
    <2> SUFFICES ASSUME B # {} PROVE FALSE
      OBVIOUS
    <2>1. \E x \in B : \A y \in B : ~(<<y, x>> \in OpToRel(<, Nat))
      <3>1. B \subseteq Nat
        OBVIOUS
      <3> HIDE DEF B
      <3>2. QED
        BY <3>1, WFMin, NatLessThanWellFounded, Zenon
    <2>2. PICK x \in B : \A y \in B : ~(y < x)
      BY <2>1 DEF OpToRel
    <2>3. x \in 1 .. n /\ x \notin S
      OBVIOUS
    <2>4. x - 1 \in Nat /\ x - 1 \in 0 .. n /\ x - 1 < x
      BY <2>3
    <2>5. x - 1 \in S
      BY <2>2, <2>4
    <2>6. QED
      BY <2>3, <2>5
  <1>2. QED
    BY <1>1

\* One step of a list, or none if it is the one that is skipped.
StepOf(c, steps, i, skip) == IF i = skip THEN c ELSE Access(c, steps[i])

\* The chips that a list of steps goes through.
AccessChain(f, c, steps, n, skip) ==
    f = [i \in 0 .. n |-> IF i = 0 THEN c
                          ELSE IF i = skip THEN f[i - 1] ELSE Access(f[i - 1], steps[i])]

\* A chain, step by step.
LEMMA ChainSteps ==
    ASSUME NEW f, NEW c, NEW steps, NEW n \in Nat, NEW skip, AccessChain(f, c, steps, n, skip)
    PROVE  f[0] = c /\ \A i \in 1 .. n : f[i] = StepOf(f[i - 1], steps, i, skip)
  <1> DEFINE Next(x, i) == IF i = skip THEN x ELSE Access(x, steps[i])
  <1>1. f = [i \in 0 .. n |-> IF i = 0 THEN c ELSE Next(f[i - 1], i)]
    BY Zenon DEF AccessChain
  <1>2. \A x, i : Next(x, i) = StepOf(x, steps, i, skip)
    BY DEF StepOf
  <1> HIDE DEF Next
  <1>3. \A i \in 0 .. n : f[i] = IF i = 0 THEN c ELSE Next(f[i - 1], i)
    BY <1>1
  <1>4. QED
    BY <1>2, <1>3

\* The other way round.
LEMMA StepsChain ==
    ASSUME NEW f, NEW c, NEW steps, NEW n \in Nat, NEW skip,
           f = [i \in 0 .. n |-> f[i]], f[0] = c,
           \A i \in 1 .. n : f[i] = StepOf(f[i - 1], steps, i, skip)
    PROVE  AccessChain(f, c, steps, n, skip)
  <1> DEFINE Next(x, i) == IF i = skip THEN x ELSE Access(x, steps[i])
  <1>1. \A x, i : Next(x, i) = StepOf(x, steps, i, skip)
    BY DEF StepOf
  <1> HIDE DEF Next
  <1>2. \A i \in 0 .. n : f[i] = IF i = 0 THEN c ELSE Next(f[i - 1], i)
    <2>1. \A i \in 0 .. n : i = 0 \/ i \in 1 .. n
      OBVIOUS
    <2>2. QED
      BY <1>1, <2>1, Zenon
  <1>3. f = [i \in 0 .. n |-> IF i = 0 THEN c ELSE Next(f[i - 1], i)]
    BY <1>2
  <1>4. QED
    BY <1>3, Zenon DEF AccessChain, Next

\* There is a chain of every length, and After is the end of one.
LEMMA AfterIsLast ==
    ASSUME NEW c, NEW steps, NEW n \in Nat, NEW skip
    PROVE  \E f : AccessChain(f, c, steps, n, skip) /\ After(c, steps, n, skip) = f[n]
  <1> DEFINE S == { m \in Nat : \E f : AccessChain(f, c, steps, m, skip) }
  <1>1. 0 \in S
    <2> DEFINE f == [i \in 0 .. 0 |-> c]
    <2>1. f = [i \in 0 .. 0 |-> f[i]] /\ f[0] = c /\ 1 .. 0 = {}
      OBVIOUS
    <2> HIDE DEF f
    <2>2. AccessChain(f, c, steps, 0, skip)
      BY <2>1, StepsChain
    <2>3. QED
      BY <2>2
  <1>2. ASSUME NEW m \in 1 .. n, m - 1 \in S
        PROVE  m \in S
    <2>1. PICK f : AccessChain(f, c, steps, m - 1, skip)
      BY <1>2
    <2>2. m - 1 \in Nat /\ m \in Nat
      OBVIOUS
    <2>3. f[0] = c /\ \A i \in 1 .. m - 1 : f[i] = StepOf(f[i - 1], steps, i, skip)
      BY <2>1, <2>2, ChainSteps
    <2> DEFINE g == [i \in 0 .. m |-> IF i = m THEN StepOf(f[m - 1], steps, m, skip) ELSE f[i]]
    <2>4. /\ g = [i \in 0 .. m |-> g[i]] /\ g[m] = StepOf(f[m - 1], steps, m, skip)
          /\ \A i \in 0 .. m - 1 : g[i] = f[i]
      OBVIOUS
    <2> HIDE DEF g
    <2>5. \A i \in 1 .. m : g[i] = StepOf(g[i - 1], steps, i, skip)
      <3>1. \A i \in 1 .. m : i - 1 \in 0 .. m - 1 /\ (i = m \/ (i \in 1 .. m - 1 /\ i \in 0 .. m - 1))
        OBVIOUS
      <3>2. QED
        BY <3>1, <2>3, <2>4, Zenon
    <2>6. g[0] = c
      BY <2>3, <2>4
    <2>7. AccessChain(g, c, steps, m, skip)
      BY <2>2, <2>4, <2>5, <2>6, StepsChain
    <2>8. QED
      BY <2>2, <2>7
  <1>3. n \in S
    <2>1. \A m \in 1 .. n : m - 1 \in S => m \in S
      BY <1>2
    <2> HIDE DEF S
    <2>2. \A m \in 0 .. n : m \in S
      BY <1>1, <2>1, UpTo
    <2>3. QED
      BY <2>2
  <1>4. PICK f : AccessChain(f, c, steps, n, skip)
    BY <1>3
  <1>5. After(c, steps, n, skip) = (CHOOSE g : AccessChain(g, c, steps, n, skip))[n]
    BY Zenon DEF After, AccessChain
  <1>6. QED
    BY <1>4, <1>5

\* One access: the chip stays one; bits a step agrees with stay; a step that is
\* not for the page leaves the page.
LEMMA AccessType ==
    ASSUME NEW c \in LSMChips, NEW step \in Steps
    PROVE  Access(c, step) \in LSMChips
  <1>1. step.reg \in LSMRegister /\ step.mask \in SUBSET Bit /\ step.bits \in SUBSET Bit
    BY DEF Steps
  <1>2. PICK r, b : r = step.reg /\ b = Merge(c[step.reg], step.mask, step.bits)
    OBVIOUS
  <1>3. b \in SUBSET Bit /\ r \in LSMRegister
    BY <1>1, <1>2 DEF LSMChips, Merge
  <1>4. [c EXCEPT ![r] = b] \in LSMChips
    BY <1>3 DEF LSMChips
  <1>5. QED
    BY <1>2, <1>4 DEF Access

LEMMA AccessElsewhere ==
    ASSUME NEW c \in LSMChips, NEW step \in Steps, NEW r \in LSMRegister, r # step.reg
    PROVE  Access(c, step)[r] = c[r]
  <1>1. PICK q, b : q = step.reg /\ b = Merge(c[step.reg], step.mask, step.bits)
    OBVIOUS
  <1>2. [c EXCEPT ![q] = b][r] = c[r]
    BY <1>1 DEF LSMChips
  <1>3. QED
    BY <1>1, <1>2 DEF Access

LEMMA AccessHere ==
    ASSUME NEW c \in LSMChips, NEW step \in Steps
    PROVE  Access(c, step)[step.reg] =
               IF Reaches(c, step.reg) THEN Merge(c[step.reg], step.mask, step.bits) ELSE c[step.reg]
  <1>1. PICK q, b : q = step.reg /\ b = Merge(c[step.reg], step.mask, step.bits)
    OBVIOUS
  <1>2. q \in LSMRegister
    BY <1>1 DEF Steps
  <1>3. [c EXCEPT ![q] = b][q] = b
    BY <1>2 DEF LSMChips
  <1>4. QED
    BY <1>1, <1>3 DEF Access

LEMMA AccessKeeps ==
    ASSUME NEW c \in LSMChips, NEW step \in Steps, NEW s \in Steps, Has(c, s), Agrees(step, s)
    PROVE  Has(Access(c, step), s)
  <1>0. s.reg \in LSMRegister
    BY DEF Steps
  <1>1. CASE step.reg # s.reg
    BY <1>0, <1>1, AccessElsewhere DEF Has
  <1>2. CASE step.reg = s.reg /\ ~Reaches(c, step.reg)
    BY <1>2, AccessHere DEF Has
  <1>3. CASE step.reg = s.reg /\ Reaches(c, step.reg)
    <2>1. Access(c, step)[s.reg] = Merge(c[s.reg], step.mask, step.bits)
      BY <1>3, AccessHere
    <2>2. PICK x, m, b, mask, bits : /\ x = c[s.reg] /\ m = s.mask /\ b = s.bits
                                     /\ mask = step.mask /\ bits = step.bits
      OBVIOUS
    <2>3. x \cap m = b /\ (b \ mask) \cup (bits \cap m) = b
      BY <1>3, <2>2 DEF Has, Masked, Agrees
    <2>4. ((x \ mask) \cup bits) \cap m = b
      BY <2>3
    <2>5. QED
      BY <2>1, <2>2, <2>4 DEF Has, Masked, Merge
  <1>4. QED
    BY <1>1, <1>2, <1>3

LEMMA AccessStores ==
    ASSUME NEW c \in LSMChips, NEW step \in Steps, NEW s, Standing(s), ~PageOpen(c),
           step.reg = s.reg, s.mask \subseteq step.mask, step.bits \cap s.mask = s.bits
    PROVE  Has(Access(c, step), s)
  <1>1. Reaches(c, step.reg)
    BY DEF Reaches, Standing
  <1>2. Access(c, step)[s.reg] = Merge(c[s.reg], step.mask, step.bits)
    BY <1>1, AccessHere
  <1>3. PICK x, m, b, mask, bits : /\ x = c[s.reg] /\ m = s.mask /\ b = s.bits
                                   /\ mask = step.mask /\ bits = step.bits
    OBVIOUS
  <1>4. m \subseteq mask /\ bits \cap m = b
    BY <1>3
  <1>5. ((x \ mask) \cup bits) \cap m = b
    BY <1>4
  <1>6. QED
    BY <1>2, <1>3, <1>5 DEF Has, Masked, Merge

LEMMA AccessPage ==
    ASSUME NEW c \in LSMChips, NEW step \in Steps, step.reg # "FUNC_CFG_ACCESS"
    PROVE  PageOpen(Access(c, step)) <=> PageOpen(c)
  <1>1. "FUNC_CFG_ACCESS" \in LSMRegister
    BY DEF LSMRegister
  <1>2. Access(c, step)["FUNC_CFG_ACCESS"] = c["FUNC_CFG_ACCESS"]
    BY <1>1, AccessElsewhere
  <1>3. QED
    BY <1>2 DEF PageOpen

\* The chips of a chain.
ChainOf(f, c, steps, n, skip) ==
    /\ f[0] = c /\ \A i \in 0 .. n : f[i] \in LSMChips
    /\ \A i \in 1 .. n : /\ steps[i] \in Steps
                         /\ f[i] = IF i = skip THEN f[i - 1] ELSE Access(f[i - 1], steps[i])
    /\ After(c, steps, n, skip) = f[n]

LEMMA ChainExists ==
    ASSUME NEW c \in LSMChips, NEW steps \in Seq(Steps), NEW n \in 0 .. Len(steps), NEW skip
    PROVE  \E f : ChainOf(f, c, steps, n, skip)
  <1>0. n \in Nat /\ \A i \in 1 .. n : steps[i] \in Steps
    OBVIOUS
  <1>1. PICK f : AccessChain(f, c, steps, n, skip) /\ After(c, steps, n, skip) = f[n]
    BY <1>0, AfterIsLast
  <1>2. f[0] = c /\ \A i \in 1 .. n : f[i] = StepOf(f[i - 1], steps, i, skip)
    BY <1>0, <1>1, ChainSteps
  <1> DEFINE S == { i \in Nat : f[i] \in LSMChips }
  <1>3. 0 \in S
    BY <1>2
  <1>4. ASSUME NEW i \in 1 .. n, i - 1 \in S
        PROVE  i \in S
    <2>1. f[i - 1] \in LSMChips /\ steps[i] \in Steps /\ i \in Nat
      BY <1>0, <1>4
    <2>2. StepOf(f[i - 1], steps, i, skip) \in LSMChips
      BY <2>1, AccessType DEF StepOf
    <2>3. QED
      BY <1>2, <2>1, <2>2
  <1>5. \A i \in 0 .. n : f[i] \in LSMChips
    <2>1. \A i \in 1 .. n : i - 1 \in S => i \in S
      BY <1>4
    <2>2. \A i \in S : f[i] \in LSMChips
      OBVIOUS
    <2> HIDE DEF S
    <2>3. \A i \in 0 .. n : i \in S
      BY <1>0, <1>3, <2>1, UpTo
    <2>4. QED
      BY <2>2, <2>3
  <1>6. QED
    BY <1>0, <1>1, <1>2, <1>5 DEF ChainOf, StepOf

\* After any part of a list the chip is a chip,
LEMMA AfterType ==
    ASSUME NEW c \in LSMChips, NEW steps \in Seq(Steps), NEW n \in 0 .. Len(steps), NEW skip
    PROVE  After(c, steps, n, skip) \in LSMChips
  <1>1. PICK f : ChainOf(f, c, steps, n, skip)
    BY ChainExists
  <1>2. n \in 0 .. n
    OBVIOUS
  <1>3. QED
    BY <1>1, <1>2 DEF ChainOf

\* it has what the list keeps,
LEMMA AfterKeeps ==
    ASSUME NEW c \in LSMChips, NEW steps \in Seq(Steps), NEW n \in 0 .. Len(steps), NEW skip,
           NEW s, Standing(s), Has(c, s), Keeps(steps, s)
    PROVE  Has(After(c, steps, n, skip), s)
  <1>1. PICK f : ChainOf(f, c, steps, n, skip)
    BY ChainExists
  <1>2. n \in Nat /\ 1 .. n \subseteq DOMAIN steps /\ s \in Steps
    BY DEF Standing
  <1> DEFINE S == { i \in Nat : Has(f[i], s) }
  <1>3. 0 \in S
    BY <1>1 DEF ChainOf
  <1>4. ASSUME NEW i \in 1 .. n, i - 1 \in S
        PROVE  i \in S
    <2>1. Has(f[i - 1], s) /\ i \in Nat /\ i - 1 \in 0 .. n
      BY <1>4
    <2>2. Agrees(steps[i], s)
      BY <1>2 DEF Keeps
    <2>3. f[i - 1] \in LSMChips /\ steps[i] \in Steps
      BY <1>1, <2>1 DEF ChainOf
    <2>4. Has(Access(f[i - 1], steps[i]), s)
      BY <1>2, <2>1, <2>2, <2>3, AccessKeeps
    <2>5. f[i] = f[i - 1] \/ f[i] = Access(f[i - 1], steps[i])
      BY <1>1 DEF ChainOf
    <2>6. Has(f[i], s)
      BY <2>1, <2>4, <2>5
    <2>7. QED
      BY <2>1, <2>6
  <1>5. Has(f[n], s)
    <2>1. \A i \in 1 .. n : i - 1 \in S => i \in S
      BY <1>4
    <2>2. \A i \in S : Has(f[i], s)
      OBVIOUS
    <2> HIDE DEF S
    <2>3. \A i \in 0 .. n : i \in S
      BY <1>2, <1>3, <2>1, UpTo
    <2>4. QED
      BY <2>2, <2>3
  <1>6. QED
    BY <1>1, <1>5 DEF ChainOf

\* and, at the end of a list that ran to it, what the list establishes.
LEMMA AfterEstablishes ==
    ASSUME NEW c \in LSMChips, NEW steps \in Seq(Steps), NEW skip, NEW s, Standing(s),
           Establishes(steps, s), skip \in DOMAIN steps => ~steps[skip].checked,
           ~PageOpen(c), ~PageOpen(After(c, steps, Len(steps), skip))
    PROVE  Has(After(c, steps, Len(steps), skip), s)
  <1>0. PICK n : n = Len(steps)
    OBVIOUS
  <1>1. n \in Nat /\ n \in 0 .. Len(steps) /\ DOMAIN steps = 1 .. n
    BY <1>0
  <1>2. PICK f : ChainOf(f, c, steps, n, skip)
    BY <1>1, ChainExists
  <1>3. PICK j \in 1 .. n :
            /\ steps[j].checked /\ steps[j].reg = s.reg /\ s.mask \subseteq steps[j].mask
            /\ steps[j].bits \cap s.mask = s.bits
            /\ \A i \in 1 .. n : i > j => Agrees(steps[i], s)
            /\ \/ \A i \in 1 .. n : i < j => steps[i].reg # "FUNC_CFG_ACCESS"
               \/ \A i \in 1 .. n : i > j => steps[i].reg # "FUNC_CFG_ACCESS"
    BY <1>1 DEF Establishes
  <1>4. j # skip
    BY <1>1, <1>3
  <1>5. /\ \A i \in 1 .. n : /\ i \in Nat /\ i - 1 \in 0 .. n /\ f[i - 1] \in LSMChips /\ steps[i] \in Steps
                             /\ f[i] = f[i - 1] \/ f[i] = Access(f[i - 1], steps[i])
        /\ f[j] = Access(f[j - 1], steps[j])
        /\ f[0] = c /\ After(c, steps, n, skip) = f[n]
    BY <1>1, <1>2, <1>4 DEF ChainOf
  <1>6. \A i \in 1 .. n : steps[i].reg # "FUNC_CFG_ACCESS" => (PageOpen(f[i]) <=> PageOpen(f[i - 1]))
    BY <1>5, AccessPage
  <1>7. ~PageOpen(f[j - 1])
    <2>1. CASE \A i \in 1 .. n : i < j => steps[i].reg # "FUNC_CFG_ACCESS"
      <3> DEFINE S == { i \in Nat : i < j => ~PageOpen(f[i]) }
      <3>1. 0 \in S
        BY <1>5
      <3>2. \A i \in 1 .. n : i - 1 \in S => i \in S
        BY <1>6, <2>1
      <3>3. \A i \in S : i < j => ~PageOpen(f[i])
        OBVIOUS
      <3> HIDE DEF S
      <3>4. \A i \in 0 .. n : i \in S
        BY <1>1, <3>1, <3>2, UpTo
      <3>5. j - 1 \in 0 .. n /\ j - 1 < j
        BY <1>1
      <3>6. QED
        BY <3>3, <3>4, <3>5
    <2>2. CASE \A i \in 1 .. n : i > j => steps[i].reg # "FUNC_CFG_ACCESS"
      <3> SUFFICES ASSUME PageOpen(f[j - 1]) PROVE FALSE
        OBVIOUS
      <3>0. PageOpen(f[j])
        BY <1>3, <1>6 DEF Standing
      <3> DEFINE S == { i \in Nat : i >= j => PageOpen(f[i]) }
      <3>1. 0 \in S
        OBVIOUS
      <3>2. \A i \in 1 .. n : i - 1 \in S => i \in S
        <4> SUFFICES ASSUME NEW i \in 1 .. n, i - 1 \in S PROVE i \in S
          OBVIOUS
        <4>1. CASE i < j
          BY <4>1
        <4>2. CASE i = j
          BY <3>0, <4>2
        <4>3. CASE i > j
          <5>1. PageOpen(f[i - 1])
            BY <4>3
          <5>2. PageOpen(f[i])
            BY <1>6, <2>2, <4>3, <5>1
          <5>3. QED
            BY <5>2
        <4>4. QED
          BY <4>1, <4>2, <4>3
      <3>3. \A i \in S : i >= j => PageOpen(f[i])
        OBVIOUS
      <3> HIDE DEF S
      <3>4. \A i \in 0 .. n : i \in S
        BY <1>1, <3>1, <3>2, UpTo
      <3>5. n \in 0 .. n /\ n >= j
        BY <1>1
      <3>6. QED
        BY <1>0, <1>5, <3>3, <3>4, <3>5
    <2>3. QED
      BY <1>3, <2>1, <2>2
  <1>8. Has(f[j], s)
    BY <1>3, <1>5, <1>7, AccessStores
  <1>9. s \in Steps
    BY DEF Standing
  <1>10. Has(f[n], s)
    <2> DEFINE S == { i \in Nat : i >= j => Has(f[i], s) }
    <2>1. 0 \in S
      OBVIOUS
    <2>2. \A i \in 1 .. n : i - 1 \in S => i \in S
      <3> SUFFICES ASSUME NEW i \in 1 .. n, i - 1 \in S PROVE i \in S
        OBVIOUS
      <3>1. CASE i < j
        BY <3>1
      <3>2. CASE i = j
        BY <1>8, <3>2
      <3>3. CASE i > j
        <4>1. Has(f[i - 1], s) /\ Agrees(steps[i], s)
          BY <1>3, <3>3
        <4>2. Has(Access(f[i - 1], steps[i]), s)
          BY <1>5, <1>9, <4>1, AccessKeeps
        <4>3. Has(f[i], s)
          BY <1>5, <4>1, <4>2
        <4>4. QED
          BY <4>3
      <3>4. QED
        BY <3>1, <3>2, <3>3
    <2>3. \A i \in S : i >= j => Has(f[i], s)
      OBVIOUS
    <2> HIDE DEF S
    <2>4. \A i \in 0 .. n : i \in S
      BY <1>1, <2>1, <2>2, UpTo
    <2>5. n \in 0 .. n /\ n >= j
      BY <1>1
    <2>6. QED
      BY <2>3, <2>4, <2>5
  <1>11. QED
    BY <1>0, <1>5, <1>10

(* Rates.                                                                  *)

LEMMA RatesGrow ==
    /\ \A i \in 1 .. 10 : Rates[i] \in Nat
    /\ \A i, j \in 1 .. 10 : i < j => Rates[i] < Rates[j]
    /\ Rates[9] = 3330 /\ Rates[10] = 6660
  <1>1. /\ Rates[1] = 13 /\ Rates[2] = 26 /\ Rates[3] = 52 /\ Rates[4] = 104 /\ Rates[5] = 208
        /\ Rates[6] = 416 /\ Rates[7] = 833 /\ Rates[8] = 1660 /\ Rates[9] = 3330 /\ Rates[10] = 6660
    BY SMT DEF Rates
  <1>2. \A i \in 1 .. 10 : i = 1 \/ i = 2 \/ i = 3 \/ i = 4 \/ i = 5 \/ i = 6 \/ i = 7 \/ i = 8 \/ i = 9 \/ i = 10
    OBVIOUS
  <1>3. \A i \in 1 .. 10 : Rates[i] \in Nat
    BY <1>1, <1>2, SMT
  <1>4. \A i \in 1 .. 9 : Rates[i] < Rates[i + 1]
    <2>1. \A i \in 1 .. 9 : i = 1 \/ i = 2 \/ i = 3 \/ i = 4 \/ i = 5 \/ i = 6 \/ i = 7 \/ i = 8 \/ i = 9
      OBVIOUS
    <2>2. QED
      BY <1>1, <2>1, SMT
  <1>5. \A i, j \in 1 .. 10 : i < j => Rates[i] < Rates[j]
    BY <1>1, <1>2, SMT
  <1>6. QED
    BY <1>1, <1>3, <1>5, SMT

\* A rate is found by its neighbours.
LEMMA RateCodeIs ==
    ASSUME NEW odr \in Nat, NEW i \in 1 .. 10, odr <= Rates[i], i = 1 \/ odr > Rates[i - 1]
    PROVE  RateCode(odr) = i
  <1> DEFINE P(k) == odr <= Rates[k] /\ (k = 1 \/ odr > Rates[k - 1])
  <1>1. CASE i = 10
    BY <1>1, RatesGrow, SMT DEF RateCode
  <1>2. CASE i # 10
    <2>1. i \in 1 .. 9 /\ i \in 1 .. 10 /\ 9 \in 1 .. 10 /\ (i = 9 \/ i < 9)
      BY <1>2
    <2>2. Rates[i] <= 3330 /\ Rates[i] \in Nat
      BY <2>1, RatesGrow, SMT
    <2>3. ~(odr > 3330)
      BY <2>2, SMT
    <2>4. \A k \in 1 .. 9 : P(k) => k = i
      <3> SUFFICES ASSUME NEW k \in 1 .. 9, P(k), k # i PROVE FALSE
        OBVIOUS
      <3>1. CASE k < i
        <4>1. i - 1 \in 1 .. 10 /\ k \in 1 .. 10 /\ (k = i - 1 \/ k < i - 1) /\ i # 1
          BY <2>1, <3>1
        <4>2. Rates[k] <= Rates[i - 1] /\ Rates[k] \in Nat /\ Rates[i - 1] \in Nat
          BY <4>1, RatesGrow, SMT
        <4>3. QED
          BY <4>1, <4>2, SMT
      <3>2. CASE k > i
        <4>1. k - 1 \in 1 .. 10 /\ i \in 1 .. 10 /\ (i = k - 1 \/ i < k - 1) /\ k # 1
          BY <2>1, <3>2
        <4>2. Rates[i] <= Rates[k - 1] /\ Rates[i] \in Nat /\ Rates[k - 1] \in Nat
          BY <4>1, RatesGrow, SMT
        <4>3. QED
          BY <4>1, <4>2, SMT
      <3>3. QED
        BY <3>1, <3>2
    <2>5. P(i)
      OBVIOUS
    <2>6. RateCode(odr) = CHOOSE k \in 1 .. 9 : P(k)
      BY <2>3, SMT DEF RateCode
    <2> HIDE DEF P
    <2>7. QED
      BY <2>1, <2>4, <2>5, <2>6
  <1>3. QED
    BY <1>1, <1>2

\* It exists.
LEMMA RateCodeFits ==
    ASSUME NEW odr \in Nat
    PROVE  /\ RateCode(odr) \in 1 .. 10
           /\ odr <= 6660 => /\ odr <= Rates[RateCode(odr)]
                             /\ RateCode(odr) = 1 \/ odr > Rates[RateCode(odr) - 1]
           /\ odr > 6660 => RateCode(odr) = 10
  <1>1. CASE odr > 3330
    <2>1. RateCode(odr) = 10
      BY <1>1, SMT DEF RateCode
    <2>2. QED
      BY <1>1, <2>1, RatesGrow, SMT
  <1>2. CASE ~(odr > 3330)
    <2> DEFINE S == { i \in Nat : i \in 1 .. 10 => odr > Rates[i] }
    <2>1. ~(\A i \in 0 .. 9 : i \in S)
      <3>1. ~(odr > Rates[9]) /\ 9 \in 0 .. 9 /\ 9 \in 1 .. 10
        BY <1>2, RatesGrow, SMT
      <3>2. QED
        BY <3>1
    <2>2. 0 \in S
      OBVIOUS
    <2>3. PICK i \in 1 .. 9 : i - 1 \in S /\ i \notin S
      <3> HIDE DEF S
      <3>1. 9 \in Nat
        OBVIOUS
      <3>2. QED
        BY <2>1, <2>2, <3>1, UpTo
    <2>4. i \in 1 .. 10 /\ odr <= Rates[i]
      <3>1. i \in 1 .. 10 /\ i \in Nat
        OBVIOUS
      <3>2. ~(odr > Rates[i]) /\ Rates[i] \in Nat
        BY <2>3, <3>1, RatesGrow
      <3>3. QED
        BY <3>1, <3>2, SMT
    <2>5. i = 1 \/ odr > Rates[i - 1]
      BY <2>3
    <2>6. RateCode(odr) = i
      BY <2>4, <2>5, RateCodeIs
    <2>7. QED
      BY <1>2, <2>4, <2>5, <2>6, SMT
  <1>3. QED
    BY <1>1, <1>2

LEMMA RateCodeOfRate ==
    ASSUME NEW k \in 1 .. 10
    PROVE  RateCode(Rates[k]) = k
  <1>1. Rates[k] \in Nat
    BY RatesGrow
  <1>2. k = 1 \/ Rates[k] > Rates[k - 1]
    <2>1. k = 1 \/ (k - 1 \in 1 .. 10 /\ k - 1 < k)
      OBVIOUS
    <2>2. QED
      BY <2>1, RatesGrow, SMT
  <1>3. QED
    BY <1>1, <1>2, RateCodeIs, SMT

\* It is the rate of the specification.
LEMMA RateIsFastest ==
    ASSUME NEW odr \in Nat
    PROVE  Rates[RateCode(odr)] = Fastest(odr)
  <1>1. PICK k \in 1 .. 10 : k = RateCode(odr)
    BY RateCodeFits
  <1>2. CASE odr > 6660
    <2>1. Fastest(odr) = 6660
      BY <1>2, SMT DEF Fastest
    <2>2. Rates[RateCode(odr)] = 6660
      BY <1>2, RateCodeFits, RatesGrow
    <2>3. QED
      BY <2>1, <2>2
  <1>3. CASE ~(odr > 6660)
    <2>1. odr <= Rates[k] /\ (k = 1 \/ odr > Rates[k - 1])
      BY <1>1, <1>3, RateCodeFits, SMT
    <2> DEFINE RS == { Rates[i] : i \in 1 .. 10 }
    <2> DEFINE Q(r) == r >= odr /\ \A i \in 1 .. 10 : Rates[i] >= odr => r <= Rates[i]
    <2>2. \A i \in 1 .. 10 : Rates[i] >= odr => Rates[k] <= Rates[i]
      <3> SUFFICES ASSUME NEW i \in 1 .. 10, Rates[i] >= odr PROVE Rates[k] <= Rates[i]
        OBVIOUS
      <3>1. CASE i < k
        <4>1. k - 1 \in 1 .. 10 /\ (i = k - 1 \/ i < k - 1) /\ k # 1
          BY <3>1
        <4>2. Rates[i] <= Rates[k - 1] /\ Rates[i] \in Nat /\ Rates[k - 1] \in Nat
          BY <4>1, RatesGrow, SMT
        <4>3. QED
          BY <2>1, <4>1, <4>2, SMT
      <3>2. CASE i >= k
        BY <3>2, RatesGrow, SMT
      <3>3. QED
        BY <3>1, <3>2
    <2>3. Rates[k] \in RS /\ Rates[k] \in Nat
      BY RatesGrow
    <2>4. Q(Rates[k])
      BY <2>1, <2>2, <2>3, SMT
    <2>5. \A r \in RS : Q(r) => r = Rates[k]
      <3> SUFFICES ASSUME NEW i \in 1 .. 10, Q(Rates[i]) PROVE Rates[i] = Rates[k]
        OBVIOUS
      <3>1. Rates[i] >= odr /\ Rates[i] <= Rates[k]
        BY <2>1, <2>3, SMT
      <3>2. Rates[k] <= Rates[i] /\ Rates[i] \in Nat
        BY <2>2, <3>1, RatesGrow
      <3>3. QED
        BY <2>3, <3>1, <3>2, SMT
    <2> DEFINE C == CHOOSE r \in RS : Q(r)
    <2>6. Fastest(odr) = IF odr > 6660 THEN 6660 ELSE C
      BY DEF Fastest
    <2> HIDE DEF RS, Q, C
    <2>7. Fastest(odr) = C
      BY <1>3, <2>6
    <2>8. C \in RS /\ Q(C)
      BY <2>3, <2>4 DEF C
    <2>9. QED
      BY <1>1, <2>5, <2>7, <2>8
  <1>4. QED
    BY <1>2, <1>3

\* The full scale that covers one is what its setter stores.
LEMMA CoveringIs ==
    ASSUME NEW a \in Axes, NEW fs \in Nat, NEW t \in FullScales(a), t >= fs,
           \A u \in FullScales(a) : u >= fs => t <= u
    PROVE  Covering(a, fs) = t
  <1> DEFINE enough == { u \in FullScales(a) : u >= fs }
  <1>1. t \in enough /\ \A u \in enough : t <= u
    OBVIOUS
  <1>2. enough \subseteq Nat
    BY DEF FullScales, Axes
  <1>3. Covering(a, fs) = CHOOSE v \in enough : \A u \in enough : v <= u
    BY <1>1 DEF Covering
  <1> HIDE DEF enough
  <1>4. \A v \in enough : (\A u \in enough : v <= u) => v = t
    BY <1>1, <1>2
  <1>5. QED
    BY <1>1, <1>3, <1>4

LEMMA XScaleCovered ==
    ASSUME NEW fs \in Nat
    PROVE  /\ Covering("x", fs) \in FullScales("x")
           /\ FullScaleSteps("x", fs) = FullScaleSteps("x", Covering("x", fs))
  <1> DEFINE Code(g) == IF g <= 2 THEN 0 ELSE IF g <= 4 THEN 8 ELSE IF g <= 8 THEN 12 ELSE 4
  <1>1. \A g : FullScaleSteps("x", g) = To(FS_XL, Code(g))
    BY DEF FullScaleSteps, setXFullScale
  <1>2. FullScales("x") = {2, 4, 8, 16} /\ "x" \in Axes
    BY DEF FullScales, Axes
  <1>3. Covering("x", fs) \in FullScales("x") /\ Code(fs) = Code(Covering("x", fs))
    <2>1. CASE fs <= 2
      <3>1. Covering("x", fs) = 2
        BY <1>2, <2>1, CoveringIs
      <3>2. QED
        BY <1>2, <2>1, <3>1
    <2>2. CASE ~(fs <= 2) /\ fs <= 4
      <3>1. Covering("x", fs) = 4
        BY <1>2, <2>2, CoveringIs
      <3>2. QED
        BY <1>2, <2>2, <3>1
    <2>3. CASE ~(fs <= 4) /\ fs <= 8
      <3>1. Covering("x", fs) = 8
        BY <1>2, <2>3, CoveringIs
      <3>2. QED
        BY <1>2, <2>3, <3>1
    <2>4. CASE ~(fs <= 8) /\ fs <= 16
      <3>1. Covering("x", fs) = 16
        BY <1>2, <2>4, CoveringIs
      <3>2. QED
        BY <1>2, <2>4, <3>1
    <2>5. CASE ~(fs <= 16)
      <3>1. { t \in FullScales("x") : t >= fs } = {}
        BY <1>2, <2>5
      <3>2. Covering("x", fs) = 16
        BY <3>1 DEF Covering
      <3>3. QED
        BY <1>2, <2>5, <3>2
    <2>6. QED
      BY <2>1, <2>2, <2>3, <2>4, <2>5
  <1> HIDE DEF Code
  <1>4. QED
    BY <1>1, <1>3

LEMMA GScaleCovered ==
    ASSUME NEW fs \in Nat
    PROVE  /\ Covering("g", fs) \in FullScales("g")
           /\ FullScaleSteps("g", fs) = FullScaleSteps("g", Covering("g", fs))
  <1> DEFINE Code(g) == IF g <= 245 THEN 0 ELSE IF g <= 500 THEN 4 ELSE IF g <= 1000 THEN 8 ELSE 12
  <1>1. \A g : /\ g <= 125 => FullScaleSteps("g", g) = On(FS_125)
               /\ ~(g <= 125) => FullScaleSteps("g", g) = Off(FS_125) \o To(FS_G, Code(g))
    BY DEF FullScaleSteps, setGFullScale
  <1>2. FullScales("g") = {125, 245, 500, 1000, 2000} /\ "g" \in Axes
    BY DEF FullScales, Axes
  <1>3. /\ Covering("g", fs) \in FullScales("g") /\ Code(fs) = Code(Covering("g", fs))
        /\ fs <= 125 <=> Covering("g", fs) <= 125
    <2>1. CASE fs <= 125
      <3>1. Covering("g", fs) = 125
        BY <1>2, <2>1, CoveringIs
      <3>2. QED
        BY <1>2, <2>1, <3>1
    <2>2. CASE ~(fs <= 125) /\ fs <= 245
      <3>1. Covering("g", fs) = 245
        BY <1>2, <2>2, CoveringIs
      <3>2. QED
        BY <1>2, <2>2, <3>1
    <2>3. CASE ~(fs <= 245) /\ fs <= 500
      <3>1. Covering("g", fs) = 500
        BY <1>2, <2>3, CoveringIs
      <3>2. QED
        BY <1>2, <2>3, <3>1
    <2>4. CASE ~(fs <= 500) /\ fs <= 1000
      <3>1. Covering("g", fs) = 1000
        BY <1>2, <2>4, CoveringIs
      <3>2. QED
        BY <1>2, <2>4, <3>1
    <2>5. CASE ~(fs <= 1000) /\ fs <= 2000
      <3>1. Covering("g", fs) = 2000
        BY <1>2, <2>5, CoveringIs
      <3>2. QED
        BY <1>2, <2>5, <3>1
    <2>6. CASE ~(fs <= 2000)
      <3>1. { t \in FullScales("g") : t >= fs } = {}
        BY <1>2, <2>6
      <3>2. Covering("g", fs) = 2000
        BY <3>1 DEF Covering
      <3>3. QED
        BY <1>2, <2>6, <3>2
    <2>7. QED
      BY <2>1, <2>2, <2>3, <2>4, <2>5, <2>6
  <1> HIDE DEF Code
  <1>4. QED
    BY <1>1, <1>3

LEMMA CoveringIsFullScale ==
    ASSUME NEW a \in Axes, NEW fs \in Nat
    PROVE  /\ Covering(a, fs) \in FullScales(a)
           /\ FullScaleSteps(a, fs) = FullScaleSteps(a, Covering(a, fs))
  BY XScaleCovered, GScaleCovered DEF Axes

\* A rate is one of the codes at every step.
LEMMA AfterRate ==
    ASSUME NEW c \in LSMChips, NEW steps \in StepLists, NEW n \in 0 .. Len(steps), NEW skip,
           NEW a \in Axes, RateOK(c, a)
    PROVE  RateOK(After(c, steps, n, skip), a)
  <1>0. steps \in Seq(Steps)
    BY StepsFit DEF ListsOfSteps
  <1>1. PICK f : ChainOf(f, c, steps, n, skip)
    BY <1>0, ChainExists
  <1>2. n \in Nat /\ 1 .. n \subseteq DOMAIN steps
    BY <1>0
  <1> DEFINE S == { i \in Nat : RateOK(f[i], a) }
  <1>3. 0 \in S
    BY <1>1 DEF ChainOf
  <1>4. ASSUME NEW i \in 1 .. n, i - 1 \in S
        PROVE  i \in S
    <2>1. RateOK(f[i - 1], a) /\ i \in Nat /\ i - 1 \in 0 .. n /\ i \in DOMAIN steps
      BY <1>2, <1>4
    <2>2. f[i - 1] \in LSMChips /\ steps[i] \in Steps
      BY <1>1, <2>1 DEF ChainOf
    <2>3. PICK code \in 0 .. 10 : Has(f[i - 1], IsRate(a, code))
      BY <2>1 DEF RateOK
    <2>4. PICK s : s = IsRate(a, code)
      OBVIOUS
    <2>5. Standing(s) /\ s \in Steps
      BY <2>4, StepsFit DEF SettingsStanding, SettingsOf, RatesOf, Standing
    <2>6. \/ Agrees(steps[i], s)
          \/ /\ s.mask \subseteq steps[i].mask
             /\ \E new \in 0 .. 10 : steps[i].bits \cap IsRate(a, new).mask = IsRate(a, new).bits
      BY <2>1, <2>4, SettingsFit, Zenon DEF RatesStayRates
    <2>9. ASSUME steps[i].reg = s.reg, s.mask \subseteq steps[i].mask,
                 \E new \in 0 .. 10 : steps[i].bits \cap IsRate(a, new).mask = IsRate(a, new).bits
          PROVE  RateOK(Access(f[i - 1], steps[i]), a)
      <3>1. PICK new \in 0 .. 10 : steps[i].bits \cap IsRate(a, new).mask = IsRate(a, new).bits
        BY <2>9
      <3>2. IsRate(a, new).reg = s.reg /\ IsRate(a, new).mask = s.mask
        BY <2>4, StepsFit, Zenon DEF RatesDecoded
      <3>3. CASE ~Reaches(f[i - 1], steps[i].reg)
        <4>1. Access(f[i - 1], steps[i]) = f[i - 1]
          BY <3>3 DEF Access
        <4>2. QED
          BY <2>1, <4>1
      <3>4. CASE Reaches(f[i - 1], steps[i].reg)
        <4>1. Access(f[i - 1], steps[i])[s.reg] = Merge(f[i - 1][s.reg], steps[i].mask, steps[i].bits)
          BY <2>2, <2>9, <3>4, AccessHere
        <4>2. PICK x, m, b, mask, bits : /\ x = f[i - 1][s.reg] /\ m = s.mask /\ b = IsRate(a, new).bits
                                         /\ mask = steps[i].mask /\ bits = steps[i].bits
          OBVIOUS
        <4>3. m \subseteq mask /\ bits \cap m = b
          BY <2>9, <3>1, <3>2, <4>2
        <4>4. ((x \ mask) \cup bits) \cap m = b
          BY <4>3
        <4>5. Has(Access(f[i - 1], steps[i]), IsRate(a, new))
          BY <3>2, <4>1, <4>2, <4>4 DEF Has, Masked, Merge
        <4>6. RateOK(Access(f[i - 1], steps[i]), a)
          BY <4>5 DEF RateOK
        <4>7. QED
          BY <4>6
      <3>5. QED
        BY <3>3, <3>4
    <2>10. RateOK(Access(f[i - 1], steps[i]), a)
      <3>1. CASE Agrees(steps[i], s) \/ steps[i].reg # s.reg
        <4>1. Agrees(steps[i], s)
          BY <3>1 DEF Agrees
        <4>2. Has(Access(f[i - 1], steps[i]), s)
          BY <2>2, <2>3, <2>4, <2>5, <4>1, AccessKeeps
        <4>3. QED
          BY <2>4, <4>2 DEF RateOK
      <3>2. QED
        BY <2>6, <3>1, <2>9
    <2>11. f[i] = f[i - 1] \/ f[i] = Access(f[i - 1], steps[i])
      BY <1>1 DEF ChainOf
    <2>12. RateOK(f[i], a)
      BY <2>1, <2>10, <2>11
    <2>13. QED
      BY <2>1, <2>12
  <1>5. RateOK(f[n], a)
    <2>1. \A i \in 1 .. n : i - 1 \in S => i \in S
      BY <1>4
    <2>2. \A i \in S : RateOK(f[i], a)
      OBVIOUS
    <2> HIDE DEF S
    <2>3. \A i \in 0 .. n : i \in S
      BY <1>2, <1>3, <2>1, UpTo
    <2>4. QED
      BY <1>2, <2>2, <2>3
  <1>6. QED
    BY <1>1, <1>5 DEF ChainOf

(* Calls.                                                                  *)

\* What a call promises when it has made all its steps, but perhaps one that
\* nobody checks, and what is left of what was known when a step has failed.
Completes(steps, success, settings, detected) ==
    \A c \in LSMChips, skip \in 0 .. Len(steps) :
        /\ c = After(lsm, steps, Len(steps), skip) /\ (skip \in DOMAIN steps => ~steps[skip].checked)
        /\ ~PageOpen(lsm) /\ ~PageOpen(c)
        => /\ \A a \in Axes : AskedOK(settings[a], success[a], c, a)
           /\ \A d \in Detections : DetectionOK(detected[d], c, d)
Fails(steps, failed, settings, detected, switched) ==
    \A c \in LSMChips, i \in DOMAIN steps, n \in 0 .. Len(steps) :
        c = After(lsm, steps, n, 0) /\ ~PageOpen(lsm) /\ ~PageOpen(c)
        => /\ \A a \in Axes \ switched : settings[a] = asked[a] => AskedOK(asked[a], failed[i][a], c, a)
           /\ \A d \in Detections : detected[d] = detection[d] => DetectionOK(detection[d], c, d)

Knowledge == [Detections -> {"on", "off", "any"}]

LEMMA NothingKnown ==
    /\ Nothing \in Setting
    /\ \A dev, c, a : AskedOK(Nothing, dev, c, a)
    /\ \A c, d : DetectionOK("any", c, d)
    /\ [a \in Axes |-> Nothing] \in [Axes -> Setting] /\ [d \in Detections |-> "any"] \in Knowledge
  BY DEF Nothing, AskedOK, RateAsked, ScaleAsked, DetectionOK, Setting, Knowledge

LEMMA KnownKeeps ==
    ASSUME NEW settings \in [Axes -> Setting], NEW detected \in Knowledge, Known(settings, detected),
           ~PageOpen(lsm) /\ ~PageOpen(lsm') =>
               /\ \A a \in Axes : AskedOK(settings[a], device'[a], lsm', a)
               /\ \A d \in Detections : DetectionOK(detected[d], lsm', d)
    PROVE  /\ asked' \in [Axes -> Setting] /\ detection' \in Knowledge /\ PageInv'
           /\ \A a \in Axes : AskedOK(asked'[a], device'[a], lsm', a)
           /\ \A d \in Detections : DetectionOK(detection'[d], lsm', d)
  <1>1. CASE PageOpen(lsm) \/ PageOpen(lsm')
    <2>1. asked' = [a \in Axes |-> Nothing] /\ detection' = [d \in Detections |-> "any"]
      BY <1>1 DEF Known
    <2>2. /\ \A a \in Axes : asked'[a] = Nothing
          /\ \A d \in Detections : detection'[d] = "any"
      BY <2>1
    <2>3. QED
      BY <2>1, <2>2, NothingKnown DEF PageInv
  <1>2. CASE ~PageOpen(lsm) /\ ~PageOpen(lsm')
    BY <1>2 DEF Known, PageInv
  <1>3. QED
    BY <1>1, <1>2

LEMMA PerformKeeps ==
    ASSUME LSMInv, NEW steps \in StepLists, NEW success \in [Axes -> Device], NEW failed,
           \A i \in DOMAIN steps : failed[i] \in [Axes -> Device],
           NEW settings \in [Axes -> Setting], NEW detected \in Knowledge, NEW switched,
           Perform(steps, success, failed, settings, detected, switched),
           Completes(steps, success, settings, detected),
           Fails(steps, failed, settings, detected, switched)
    PROVE  LSMInv'
  <1>0. steps \in Seq(Steps)
    BY StepsFit DEF ListsOfSteps
  <1>1. PICK len : len = Len(steps)
    OBVIOUS
  <1>2. len \in Nat /\ DOMAIN steps = 1 .. len /\ len \in 0 .. len
    BY <1>0, <1>1
  <1>3. /\ lsm \in LSMChips /\ asked \in [Axes -> Setting] /\ detection \in Knowledge
        /\ lsmCalls \in 0 .. LSMCalls /\ lsmFaults \in 0 .. LSMFaults /\ LSMCalls \in Nat /\ LSMFaults \in Nat
        /\ \A a \in Axes : RateOK(lsm, a)
    BY LSMAssumption DEF LSMInv, LSMTypeOK, Knowledge
  <1> DEFINE known == [a \in Axes |-> IF a \in switched \/ settings[a] # asked[a] THEN Nothing ELSE asked[a]]
  <1> DEFINE left == [d \in Detections |-> IF detected[d] # detection[d] THEN "any" ELSE detection[d]]
  <1>4. lsmCalls' \in 0 .. LSMCalls
    BY <1>3 DEF Perform
  <1>5. known \in [Axes -> Setting] /\ left \in Knowledge
    BY <1>3, NothingKnown DEF Knowledge
  <1>6. \/ \E skip \in 0 .. len :
              /\ skip \in DOMAIN steps => ~steps[skip].checked
              /\ lsm' = After(lsm, steps, len, skip) /\ device' = success /\ Known(settings, detected)
              /\ lsmFaults' \in 0 .. LSMFaults
        \/ \E i \in 1 .. len, n \in 0 .. len :
              /\ lsm' = After(lsm, steps, n, 0) /\ device' = failed[i] /\ Known(known, left)
              /\ lsmFaults' \in 0 .. LSMFaults
    <2>1. CASE /\ lsm' = After(lsm, steps, Len(steps), 0) /\ device' = success
               /\ Known(settings, detected) /\ UNCHANGED lsmFaults
      <3>1. 0 \in 0 .. len /\ 0 \notin DOMAIN steps
        BY <1>2
      <3>2. QED
        BY <1>1, <1>3, <2>1, <3>1
    <2>2. ASSUME NEW i \in DOMAIN steps, NEW late \in BOOLEAN,
                 lsmFaults < LSMFaults, lsmFaults' = lsmFaults + 1,
                 lsm' = After(lsm, steps, IF late THEN i ELSE i - 1, 0),
                 device' = failed[i], Known(known, left)
          PROVE  \E j \in 1 .. len, n \in 0 .. len :
                    /\ lsm' = After(lsm, steps, n, 0) /\ device' = failed[j] /\ Known(known, left)
                    /\ lsmFaults' \in 0 .. LSMFaults
      <3>1. PICK n : n = IF late THEN i ELSE i - 1
        OBVIOUS
      <3>2. n \in 0 .. len /\ i \in 1 .. len
        BY <1>2, <3>1
      <3>3. lsm' = After(lsm, steps, n, 0)
        BY <2>2, <3>1
      <3>4. lsmFaults' \in 0 .. LSMFaults
        BY <1>3, <2>2
      <3> HIDE DEF known, left
      <3>5. QED
        BY <2>2, <3>2, <3>3, <3>4
    <2>3. ASSUME NEW i \in DOMAIN steps, NEW late \in BOOLEAN,
                 lsmFaults < LSMFaults, lsmFaults' = lsmFaults + 1, ~steps[i].checked,
                 lsm' = After(lsm, steps, Len(steps), IF late THEN 0 ELSE i),
                 device' = success, Known(settings, detected)
          PROVE  \E skip \in 0 .. len :
                    /\ skip \in DOMAIN steps => ~steps[skip].checked
                    /\ lsm' = After(lsm, steps, len, skip) /\ device' = success /\ Known(settings, detected)
                    /\ lsmFaults' \in 0 .. LSMFaults
      <3>1. PICK skip : skip = IF late THEN 0 ELSE i
        OBVIOUS
      <3>2. skip \in 0 .. len /\ (skip \in DOMAIN steps => skip = i)
        BY <1>2, <3>1
      <3>3. lsm' = After(lsm, steps, len, skip)
        BY <1>1, <2>3, <3>1
      <3>4. lsmFaults' \in 0 .. LSMFaults
        BY <1>3, <2>3
      <3>5. QED
        BY <2>3, <3>2, <3>3, <3>4
    <2> HIDE DEF known, left
    <2>4. \/ lsm' = After(lsm, steps, Len(steps), 0) /\ device' = success
               /\ Known(settings, detected) /\ UNCHANGED lsmFaults
          \/ \E i \in DOMAIN steps, late \in BOOLEAN :
               /\ lsmFaults < LSMFaults /\ lsmFaults' = lsmFaults + 1
               /\ \/ /\ lsm' = After(lsm, steps, IF late THEN i ELSE i - 1, 0)
                     /\ device' = failed[i] /\ Known(known, left)
                  \/ /\ ~steps[i].checked
                     /\ lsm' = After(lsm, steps, Len(steps), IF late THEN 0 ELSE i)
                     /\ device' = success /\ Known(settings, detected)
      BY Zenon DEF Perform, known, left
    <2>5. QED
      BY <2>1, <2>2, <2>3, <2>4
  <1>7. CASE \E skip \in 0 .. len :
              /\ skip \in DOMAIN steps => ~steps[skip].checked
              /\ lsm' = After(lsm, steps, len, skip) /\ device' = success /\ Known(settings, detected)
              /\ lsmFaults' \in 0 .. LSMFaults
    <2>1. PICK skip \in 0 .. len :
              /\ skip \in DOMAIN steps => ~steps[skip].checked
              /\ lsm' = After(lsm, steps, len, skip) /\ device' = success /\ Known(settings, detected)
              /\ lsmFaults' \in 0 .. LSMFaults
      BY <1>7
    <2>2. lsm' \in LSMChips /\ \A a \in Axes : RateOK(lsm', a)
      BY <1>0, <1>1, <1>2, <1>3, <2>1, AfterType, AfterRate
    <2>3. ~PageOpen(lsm) /\ ~PageOpen(lsm') =>
               /\ \A a \in Axes : AskedOK(settings[a], device'[a], lsm', a)
               /\ \A d \in Detections : DetectionOK(detected[d], lsm', d)
      BY <1>1, <2>1, <2>2 DEF Completes
    <2>4. /\ asked' \in [Axes -> Setting] /\ detection' \in Knowledge /\ PageInv'
          /\ \A a \in Axes : AskedOK(asked'[a], device'[a], lsm', a)
          /\ \A d \in Detections : DetectionOK(detection'[d], lsm', d)
      BY <2>1, <2>3, KnownKeeps
    <2>5. QED
      BY <1>4, <2>1, <2>2, <2>4 DEF LSMInv, LSMTypeOK, Knowledge
  <1>8. CASE \E i \in 1 .. len, n \in 0 .. len :
              /\ lsm' = After(lsm, steps, n, 0) /\ device' = failed[i] /\ Known(known, left)
              /\ lsmFaults' \in 0 .. LSMFaults
    <2>1. PICK i \in 1 .. len, n \in 0 .. len :
              /\ lsm' = After(lsm, steps, n, 0) /\ device' = failed[i] /\ Known(known, left)
              /\ lsmFaults' \in 0 .. LSMFaults
      <3> HIDE DEF known, left
      <3>1. QED
        BY <1>8
    <2>2. lsm' \in LSMChips /\ \A a \in Axes : RateOK(lsm', a)
      BY <1>0, <1>1, <1>2, <1>3, <2>1, AfterType, AfterRate
    <2>3. ~PageOpen(lsm) /\ ~PageOpen(lsm') =>
               /\ \A a \in Axes : AskedOK(known[a], device'[a], lsm', a)
               /\ \A d \in Detections : DetectionOK(left[d], lsm', d)
      <3> SUFFICES ASSUME ~PageOpen(lsm), ~PageOpen(lsm')
                   PROVE  /\ \A a \in Axes : AskedOK(known[a], device'[a], lsm', a)
                          /\ \A d \in Detections : DetectionOK(left[d], lsm', d)
        OBVIOUS
      <3>1. /\ \A a \in Axes \ switched : settings[a] = asked[a] => AskedOK(asked[a], failed[i][a], lsm', a)
            /\ \A d \in Detections : detected[d] = detection[d] => DetectionOK(detection[d], lsm', d)
        BY <1>1, <1>2, <2>1, <2>2 DEF Fails
      <3>2. \A a \in Axes : known[a] = IF a \in switched \/ settings[a] # asked[a] THEN Nothing ELSE asked[a]
        OBVIOUS
      <3>3. \A d \in Detections : left[d] = IF detected[d] # detection[d] THEN "any" ELSE detection[d]
        OBVIOUS
      <3> HIDE DEF known, left
      <3>4. \A a \in Axes : AskedOK(known[a], device'[a], lsm', a)
        BY <2>1, <3>1, <3>2, NothingKnown
      <3>5. \A d \in Detections : DetectionOK(left[d], lsm', d)
        BY <3>1, <3>3, NothingKnown
      <3>6. QED
        BY <3>4, <3>5
    <2> HIDE DEF known, left
    <2>4. /\ asked' \in [Axes -> Setting] /\ detection' \in Knowledge /\ PageInv'
          /\ \A a \in Axes : AskedOK(asked'[a], device'[a], lsm', a)
          /\ \A d \in Detections : DetectionOK(detection'[d], lsm', d)
      BY <1>5, <2>1, <2>3, KnownKeeps
    <2>5. device' \in [Axes -> Device]
      BY <1>2, <2>1
    <2>6. QED
      BY <1>4, <2>1, <2>2, <2>4, <2>5 DEF LSMInv, LSMTypeOK, Knowledge
  <1>9. QED
    BY <1>6, <1>7, <1>8

\* What the invariant says of an axis.
LEMMA AxisFacts ==
    ASSUME LSMInv, NEW a \in Axes
    PROVE  /\ lsm \in LSMChips /\ device \in [Axes -> Device] /\ asked \in [Axes -> Setting]
           /\ detection \in Knowledge
           /\ device[a] \in Device /\ asked[a] \in Setting
           /\ device[a].is_enabled \in BOOLEAN /\ device[a].last_odr \in Nat
           /\ asked[a].odr # Unknown => asked[a].odr \in Nat /\ RateCode(asked[a].odr) \in 1 .. 10
           /\ RateAsked(asked[a], device[a], lsm, a) /\ ScaleAsked(asked[a], lsm, a) /\ RateOK(lsm, a)
  <1>1. /\ lsm \in LSMChips /\ device \in [Axes -> Device] /\ asked \in [Axes -> Setting]
        /\ detection \in Knowledge
    BY DEF LSMInv, LSMTypeOK, Knowledge
  <1>2. device[a] \in Device /\ asked[a] \in Setting
    BY <1>1
  <1>3. device[a].is_enabled \in BOOLEAN /\ device[a].last_odr \in Nat
    BY <1>2 DEF Device
  <1>4. asked[a].odr # Unknown => asked[a].odr \in Nat
    BY <1>2 DEF Setting
  <1>5. RateAsked(asked[a], device[a], lsm, a) /\ ScaleAsked(asked[a], lsm, a) /\ RateOK(lsm, a)
    BY DEF LSMInv, AskedOK
  <1>6. QED
    BY <1>1, <1>2, <1>3, <1>4, <1>5, RateCodeFits

\* What a list keeps of the settings and the detections.
LEMMA SettingIsStanding ==
    ASSUME NEW a \in Axes, NEW s \in SettingsOf(a)
    PROVE  Standing(s)
  BY StepsFit DEF SettingsStanding

LEMMA ScaleKept ==
    ASSUME LSMInv, NEW steps \in StepLists, NEW n \in 0 .. Len(steps), NEW skip, NEW a \in Axes,
           \A s \in ScalesOf(a) : Keeps(steps, s)
    PROVE  ScaleAsked(asked[a], After(lsm, steps, n, skip), a)
  <1>0. steps \in Seq(Steps) /\ lsm \in LSMChips
    BY StepsFit, AxisFacts DEF ListsOfSteps
  <1> SUFFICES ASSUME asked[a].scale # Unknown
               PROVE  ScaleAsked(asked[a], After(lsm, steps, n, skip), a)
    BY DEF ScaleAsked
  <1>1. PICK fs \in FullScales(a) : fs = Covering(a, asked[a].scale)
    BY AxisFacts, CoveringIsFullScale DEF Setting
  <1>2. \A s \in IsScale(a, fs) : Has(lsm, s)
    BY <1>1, AxisFacts DEF ScaleAsked
  <1>3. \A s \in IsScale(a, fs) : Has(After(lsm, steps, n, skip), s)
    <2> SUFFICES ASSUME NEW s \in IsScale(a, fs) PROVE Has(After(lsm, steps, n, skip), s)
      OBVIOUS
    <2>1. s \in ScalesOf(a) /\ s \in SettingsOf(a)
      BY DEF ScalesOf, SettingsOf
    <2>2. QED
      BY <1>0, <1>2, <2>1, SettingIsStanding, AfterKeeps
  <1>4. QED
    BY <1>1, <1>3 DEF ScaleAsked

LEMMA RateKept ==
    ASSUME LSMInv, NEW steps \in StepLists, NEW n \in 0 .. Len(steps), NEW skip, NEW a \in Axes,
           \A s \in RatesOf(a) : Keeps(steps, s)
    PROVE  RateAsked(asked[a], device[a], After(lsm, steps, n, skip), a)
  <1>0. steps \in Seq(Steps) /\ lsm \in LSMChips
    BY StepsFit, AxisFacts DEF ListsOfSteps
  <1> SUFFICES ASSUME asked[a].odr # Unknown, device[a].is_enabled
               PROVE  RateAsked(asked[a], device[a], After(lsm, steps, n, skip), a)
    BY AxisFacts DEF RateAsked
  <1>1. PICK code \in 1 .. 10 : code = RateCode(asked[a].odr)
    BY AxisFacts
  <1>2. Has(lsm, IsRate(a, code))
    BY <1>1, AxisFacts DEF RateAsked
  <1>3. IsRate(a, code) \in RatesOf(a) /\ IsRate(a, code) \in SettingsOf(a)
    <2>1. code \in 0 .. 10
      OBVIOUS
    <2>2. QED
      BY <2>1 DEF RatesOf, SettingsOf
  <1>4. Has(After(lsm, steps, n, skip), IsRate(a, code))
    BY <1>0, <1>2, <1>3, SettingIsStanding, AfterKeeps
  <1>5. QED
    BY <1>1, <1>4 DEF RateAsked

LEMMA FieldFacts ==
    ASSUME NEW d \in Detections
    PROVE  /\ RouteFields(d) \subseteq DetectionFields /\ Needs(d) \subseteq DetectionFields
           /\ \A f \in RouteFields(d) \cup Needs(d) : Standing(IsOn(f)) /\ Standing(IsOff(f))
  <1>1. RouteFields(d) \subseteq DetectionFields /\ Needs(d) \subseteq DetectionFields
    BY DEF DetectionFields
  <1>2. QED
    BY <1>1, StepsFit DEF FieldsOfBits

LEMMA DetectionKept ==
    ASSUME LSMInv, NEW steps \in StepLists, NEW n \in 0 .. Len(steps), NEW skip, NEW d \in Detections,
           detection[d] = "off" => \A f \in RouteFields(d) : Keeps(steps, IsOff(f)),
           detection[d] = "on" => \A f \in RouteFields(d) \cup Needs(d) : Keeps(steps, IsOn(f))
    PROVE  DetectionOK(detection[d], After(lsm, steps, n, skip), d)
  <1>0. steps \in Seq(Steps) /\ lsm \in LSMChips /\ DetectionOK(detection[d], lsm, d)
    BY StepsFit DEF ListsOfSteps, LSMInv, LSMTypeOK
  <1>1. detection[d] = "off" => \A f \in RouteFields(d) : Has(After(lsm, steps, n, skip), IsOff(f))
    BY <1>0, FieldFacts, AfterKeeps DEF DetectionOK
  <1>2. \A f \in RouteFields(d) \cup Needs(d) :
            detection[d] = "on" /\ Has(lsm, IsOn(f)) => Has(After(lsm, steps, n, skip), IsOn(f))
    BY <1>0, FieldFacts, AfterKeeps
  <1>3. QED
    BY <1>0, <1>1, <1>2 DEF DetectionOK

\* Of the lists that are not about detections.
LEMMA DetectionsKept ==
    ASSUME LSMInv, NEW steps \in SettingLists \cup ParameterLists, NEW n \in 0 .. Len(steps), NEW skip,
           NEW d \in Detections
    PROVE  DetectionOK(detection[d], After(lsm, steps, n, skip), d)
  <1>1. steps \in StepLists
    BY DEF StepLists
  <1>2. \A f \in RouteFields(d) \cup Needs(d) : Keeps(steps, IsOn(f)) /\ Keeps(steps, IsOff(f))
    BY FieldFacts, DetectionsFit DEF OthersKeepDetections
  <1>3. QED
    BY <1>1, <1>2, DetectionKept

(* The calls.                                                              *)

\* A call that fails leaves the object as it was.
LEMMA SameIs ==
    ASSUME NEW steps
    PROVE  \A i \in DOMAIN steps : Same(steps)[i] = device
  BY DEF Same

\* A call about neither rate nor full scale.
LEMMA OthersKeep ==
    ASSUME LSMInv, NEW steps \in ParameterLists \cup {<<>>} \cup { DisableSteps[d] : d \in Detections },
           NEW n \in 0 .. Len(steps), NEW skip, NEW a \in Axes
    PROVE  AskedOK(asked[a], device[a], After(lsm, steps, n, skip), a)
  <1>1. steps \in StepLists
    <2>1. CASE steps \in ParameterLists
      BY <2>1 DEF StepLists
    <2>2. CASE steps = <<>>
      BY <2>2 DEF StepLists, SettingLists
    <2>3. CASE steps \in { DisableSteps[d] : d \in Detections }
      BY <2>3 DEF StepLists
    <2>4. QED
      BY <2>1, <2>2, <2>3
  <1>2. \A s \in SettingsOf(a) : Keeps(steps, s)
    BY SettingsFit DEF OthersKeepSettings
  <1>3. \A s \in RatesOf(a) \cup ScalesOf(a) : Keeps(steps, s)
    BY <1>2 DEF SettingsOf
  <1>4. QED
    BY <1>1, <1>3, RateKept, ScaleKept DEF AskedOK

LEMMA SetParameterKeeps ==
    ASSUME LSMInv, SetParameter
    PROVE  LSMInv'
  <1>1. PICK steps \in ParameterLists : Perform(steps, device, Same(steps), asked, detection, {})
    BY DEF SetParameter
  <1>2. steps \in StepLists /\ steps \in Seq(Steps)
    BY StepsFit DEF StepLists, ListsOfSteps
  <1>3. device \in [Axes -> Device] /\ asked \in [Axes -> Setting] /\ detection \in Knowledge
    BY DEF LSMInv, LSMTypeOK, Knowledge
  <1>4. \A n \in 0 .. Len(steps) : \A skip :
            /\ \A a \in Axes : AskedOK(asked[a], device[a], After(lsm, steps, n, skip), a)
            /\ \A d \in Detections : DetectionOK(detection[d], After(lsm, steps, n, skip), d)
    BY OthersKeep, DetectionsKept
  <1>5. Len(steps) \in 0 .. Len(steps)
    BY <1>2
  <1>6. Completes(steps, device, asked, detection)
    BY <1>4, <1>5 DEF Completes
  <1>7. Fails(steps, Same(steps), asked, detection, {})
    BY <1>4, SameIs DEF Fails
  <1>8. QED
    BY <1>1, <1>2, <1>3, <1>6, <1>7, SameIs, PerformKeeps

LEMMA DisableDetectionKeeps ==
    ASSUME LSMInv, NEW d \in Detections, DisableDetection(d)
    PROVE  LSMInv'
  <1> DEFINE steps == DisableSteps[d]
  <1> DEFINE detected == [e \in Detections |-> IF e = d THEN "off"
                                  ELSE IF SameBlock(d, e) /\ detection[e] = "on" THEN "any"
                                  ELSE detection[e]]
  <1>1. Perform(steps, device, Same(steps), asked, detected, {})
    BY DEF DisableDetection
  <1>2. steps \in StepLists /\ steps \in Seq(Steps)
    BY StepsFit DEF StepLists, ListsOfSteps
  <1>3. device \in [Axes -> Device] /\ asked \in [Axes -> Setting] /\ detection \in Knowledge /\ lsm \in LSMChips
    BY DEF LSMInv, LSMTypeOK, Knowledge
  <1>4. detected \in Knowledge
    BY <1>3 DEF Knowledge
  <1>5. \A e \in Detections : detected[e] = IF e = d THEN "off"
                                  ELSE IF SameBlock(d, e) /\ detection[e] = "on" THEN "any"
                                  ELSE detection[e]
    OBVIOUS
  <1>6. Len(steps) \in 0 .. Len(steps) /\ steps \in { DisableSteps[e] : e \in Detections }
    BY <1>2
  <1>7. /\ \A f \in RouteFields(d) : Establishes(steps, IsOff(f))
        /\ \A e \in Detections : \A f \in RouteFields(e) :
              Keeps(steps, IsOff(f)) /\ (e # d => Keeps(steps, IsOn(f)))
        /\ \A e \in Detections : ~SameBlock(d, e) => \A f \in Needs(e) : Keeps(steps, IsOn(f))
    BY DetectionsFit DEF DisablesRoute
  <1> HIDE DEF steps, detected
  <1>8. \A n \in 0 .. Len(steps) : \A skip : \A a \in Axes : AskedOK(asked[a], device[a], After(lsm, steps, n, skip), a)
    BY <1>6, OthersKeep
  <1>9. ASSUME NEW n \in 0 .. Len(steps), NEW skip, NEW e \in Detections,
               e # d \/ detection[e] # "on", detected[e] = detection[e]
        PROVE  DetectionOK(detection[e], After(lsm, steps, n, skip), e)
    <2>1. detection[e] = "on" => e # d /\ ~SameBlock(d, e)
      BY <1>5, <1>9
    <2>2. QED
      BY <1>2, <1>7, <2>1, DetectionKept
  <1>10. Completes(steps, device, asked, detected)
    <2> SUFFICES ASSUME NEW c \in LSMChips, NEW skip \in 0 .. Len(steps), c = After(lsm, steps, Len(steps), skip),
                        skip \in DOMAIN steps => ~steps[skip].checked, ~PageOpen(lsm), ~PageOpen(c)
                 PROVE  /\ \A a \in Axes : AskedOK(asked[a], device[a], c, a)
                        /\ \A e \in Detections : DetectionOK(detected[e], c, e)
      BY DEF Completes
    <2>1. \A a \in Axes : AskedOK(asked[a], device[a], c, a)
      BY <1>6, <1>8
    <2>2. ASSUME NEW e \in Detections PROVE DetectionOK(detected[e], c, e)
      <3>1. CASE e = d
        <4>1. \A f \in RouteFields(d) : Has(c, IsOff(f))
          BY <1>2, <1>3, <1>7, FieldFacts, AfterEstablishes
        <4>2. detected[e] = "off"
          BY <1>5, <3>1
        <4>3. QED
          BY <3>1, <4>1, <4>2 DEF DetectionOK
      <3>2. CASE e # d /\ detected[e] # detection[e]
        BY <1>5, <3>2, NothingKnown
      <3>3. CASE e # d /\ detected[e] = detection[e]
        BY <1>6, <1>9, <3>3
      <3>4. QED
        BY <3>1, <3>2, <3>3
    <2>3. QED
      BY <2>1, <2>2
  <1>11. Fails(steps, Same(steps), asked, detected, {})
    <2>1. \A e \in Detections : detected[e] = detection[e] => e # d \/ detection[e] # "on"
      BY <1>5
    <2>2. QED
      BY <1>8, <1>9, <2>1, SameIs DEF Fails
  <1>12. QED
    BY <1>1, <1>2, <1>3, <1>4, <1>10, <1>11, SameIs, PerformKeeps

LEMMA AxesAre ==
    /\ \A a \in Axes : OtherAxis(a) \in Axes /\ OtherAxis(a) # a /\ \A b \in Axes : b = a \/ b = OtherAxis(a)
    /\ "x" \in Axes /\ "g" \in Axes /\ OtherAxis("x") = "g"
  BY DEF Axes, OtherAxis

\* setXFullScale and setGFullScale.
LEMMA SetFullScaleKeeps ==
    ASSUME LSMInv, NEW a \in Axes, NEW fs \in Nat, LSM_setFullScale(a, fs)
    PROVE  LSMInv'
  <1>1. PICK t \in FullScales(a) :
            t = Covering(a, fs) /\ FullScaleSteps(a, fs) = FullScaleSteps(a, t)
    BY CoveringIsFullScale
  <1> DEFINE steps == FullScaleSteps(a, fs)
  <1> DEFINE settings == [asked EXCEPT ![a].scale = fs]
  <1>2. Perform(steps, device, Same(steps), settings, detection, {})
    BY DEF LSM_setFullScale
  <1>3. steps \in SettingLists
    BY <1>1 DEF SettingLists, ScaleLists
  <1>4. steps \in StepLists /\ steps \in Seq(Steps)
    BY <1>3, StepsFit DEF StepLists, ListsOfSteps
  <1>5. device \in [Axes -> Device] /\ asked \in [Axes -> Setting] /\ detection \in Knowledge /\ lsm \in LSMChips
    BY DEF LSMInv, LSMTypeOK, Knowledge
  <1>6. /\ settings \in [Axes -> Setting]
        /\ settings[a].odr = asked[a].odr /\ settings[a].scale = fs
        /\ \A b \in Axes \ {a} : settings[b] = asked[b]
    BY <1>5 DEF Setting
  <1>7. /\ \A s \in IsScale(a, t) : Establishes(steps, s) /\ Keeps(steps, s)
        /\ \A s \in SettingsOf(OtherAxis(a)) \cup RatesOf(a) : Keeps(steps, s)
    BY <1>1, SettingsFit DEF ScaleStored
  <1>9. Len(steps) \in 0 .. Len(steps)
    BY <1>4
  <1> HIDE DEF steps, settings
  <1>10. ASSUME NEW n \in 0 .. Len(steps), NEW skip
         PROVE  /\ RateAsked(asked[a], device[a], After(lsm, steps, n, skip), a)
                /\ \A b \in Axes \ {a} : AskedOK(asked[b], device[b], After(lsm, steps, n, skip), b)
                /\ \A d \in Detections : DetectionOK(detection[d], After(lsm, steps, n, skip), d)
    <2>1. RateAsked(asked[a], device[a], After(lsm, steps, n, skip), a)
      BY <1>4, <1>7, RateKept
    <2>2. ASSUME NEW b \in Axes \ {a} PROVE AskedOK(asked[b], device[b], After(lsm, steps, n, skip), b)
      <3>1. \A s \in RatesOf(b) \cup ScalesOf(b) : Keeps(steps, s)
        BY <1>7, AxesAre DEF SettingsOf
      <3>2. QED
        BY <1>4, <3>1, RateKept, ScaleKept DEF AskedOK
    <2>3. QED
      BY <1>3, <2>1, <2>2, DetectionsKept
  <1>11. Completes(steps, device, settings, detection)
    <2> SUFFICES ASSUME NEW c \in LSMChips, NEW skip \in 0 .. Len(steps), c = After(lsm, steps, Len(steps), skip),
                        skip \in DOMAIN steps => ~steps[skip].checked, ~PageOpen(lsm), ~PageOpen(c)
                 PROVE  /\ \A b \in Axes : AskedOK(settings[b], device[b], c, b)
                        /\ \A d \in Detections : DetectionOK(detection[d], c, d)
      BY DEF Completes
    <2>1. \A s \in IsScale(a, t) : Has(c, s)
      <3> SUFFICES ASSUME NEW s \in IsScale(a, t) PROVE Has(c, s)
        OBVIOUS
      <3>1. s \in SettingsOf(a)
        BY DEF SettingsOf, ScalesOf
      <3>2. QED
        BY <1>4, <1>5, <1>7, <3>1, SettingIsStanding, AfterEstablishes
    <2>2. ScaleAsked(settings[a], c, a)
      BY <1>1, <1>6, <2>1 DEF ScaleAsked
    <2>3. RateAsked(settings[a], device[a], c, a)
      BY <1>6, <1>9, <1>10 DEF RateAsked
    <2>4. QED
      BY <1>6, <1>9, <1>10, <2>2, <2>3 DEF AskedOK
  <1>12. Fails(steps, Same(steps), settings, detection, {})
    <2> SUFFICES ASSUME NEW c \in LSMChips, NEW n \in 0 .. Len(steps), c = After(lsm, steps, n, 0)
                 PROVE  /\ \A b \in Axes : settings[b] = asked[b] => AskedOK(asked[b], device[b], c, b)
                        /\ \A d \in Detections : DetectionOK(detection[d], c, d)
      BY SameIs DEF Fails
    <2>1. ASSUME settings[a] = asked[a] PROVE ScaleAsked(asked[a], c, a)
      <3>1. asked[a].scale = fs /\ fs # Unknown
        BY <1>6, <2>1 DEF Unknown
      <3>2. \A s \in IsScale(a, t) : Has(lsm, s)
        BY <1>1, <3>1, AxisFacts DEF ScaleAsked
      <3>4. \A s \in IsScale(a, t) : Has(c, s)
        <4> SUFFICES ASSUME NEW s \in IsScale(a, t) PROVE Has(c, s)
          OBVIOUS
        <4>1. s \in SettingsOf(a)
          BY DEF SettingsOf, ScalesOf
        <4>2. QED
          BY <1>4, <1>5, <1>7, <3>2, <4>1, SettingIsStanding, AfterKeeps
      <3>5. QED
        BY <1>1, <3>1, <3>4 DEF ScaleAsked
    <2>2. QED
      BY <1>10, <2>1 DEF AskedOK
  <1>13. QED
    BY <1>2, <1>4, <1>5, <1>6, <1>11, <1>12, SameIs, PerformKeeps

\* A list that stores a rate.
LEMMA RateListFacts ==
    ASSUME NEW a \in Axes, NEW odr \in Nat
    PROVE  LET steps == setOdrWhenEnabled(a, odr)
           IN  /\ RateCode(odr) \in 1 .. 10 /\ steps \in SettingLists /\ steps \in StepLists
               /\ steps \in Seq(Steps)
               /\ IsRate(a, RateCode(odr)) \in SettingsOf(a) /\ Standing(IsRate(a, RateCode(odr)))
               /\ Establishes(steps, IsRate(a, RateCode(odr))) /\ Keeps(steps, IsRate(a, RateCode(odr)))
               /\ \A s \in SettingsOf(OtherAxis(a)) \cup ScalesOf(a) : Keeps(steps, s)
  <1>1. PICK code \in 1 .. 10 : code = RateCode(odr)
    BY RateCodeFits
  <1>2. PICK steps : steps = To(OdrField(a), code * 16)
    OBVIOUS
  <1>3. steps = setOdrWhenEnabled(a, odr)
    BY <1>1, <1>2 DEF setOdrWhenEnabled
  <1>4. steps \in SettingLists
    BY <1>2 DEF SettingLists, RateLists
  <1>5. steps \in StepLists /\ steps \in Seq(Steps)
    BY <1>4, StepsFit DEF StepLists, ListsOfSteps
  <1>6. /\ Establishes(steps, IsRate(a, code)) /\ Keeps(steps, IsRate(a, code))
        /\ \A s \in SettingsOf(OtherAxis(a)) \cup ScalesOf(a) : Keeps(steps, s)
    BY <1>2, SettingsFit DEF RateStored
  <1>7. IsRate(a, code) \in SettingsOf(a)
    <2>1. code \in 0 .. 10
      OBVIOUS
    <2>2. QED
      BY <2>1 DEF SettingsOf, RatesOf
  <1>8. QED
    BY <1>1, <1>3, <1>4, <1>5, <1>6, <1>7, SettingIsStanding

\* What a list that is about the rate of axis a keeps.
LEMMA RateListKeeps ==
    ASSUME LSMInv, NEW a \in Axes, NEW steps \in SettingLists, NEW n \in 0 .. Len(steps), NEW skip,
           \A s \in SettingsOf(OtherAxis(a)) \cup ScalesOf(a) : Keeps(steps, s)
    PROVE  /\ ScaleAsked(asked[a], After(lsm, steps, n, skip), a)
           /\ \A b \in Axes \ {a} : AskedOK(asked[b], device[b], After(lsm, steps, n, skip), b)
           /\ \A d \in Detections : DetectionOK(detection[d], After(lsm, steps, n, skip), d)
  <1>0. steps \in StepLists
    BY DEF StepLists
  <1>1. ScaleAsked(asked[a], After(lsm, steps, n, skip), a)
    BY <1>0, ScaleKept
  <1>2. ASSUME NEW b \in Axes \ {a} PROVE AskedOK(asked[b], device[b], After(lsm, steps, n, skip), b)
    <2>1. \A s \in RatesOf(b) \cup ScalesOf(b) : Keeps(steps, s)
      BY AxesAre DEF SettingsOf
    <2>2. QED
      BY <1>0, <2>1, RateKept, ScaleKept DEF AskedOK
  <1>3. QED
    BY <1>1, <1>2, DetectionsKept

\* What getXOdr and getGOdr read.
LEMMA GetOdrReads ==
    ASSUME NEW c, NEW a \in Axes, NEW code \in 0 .. 10, Has(c, IsRate(a, code))
    PROVE  /\ getOdr(c, a) = IF code = 0 THEN 0 ELSE Rates[code]
           /\ getOdr(c, a) \in Nat
  <1>1. /\ IsRate(a, code).reg = OdrField(a).order[1]
        /\ IsRate(a, code).mask = OdrField(a).mask[OdrField(a).order[1]]
        /\ NumberOf(IsRate(a, code).bits) \div 16 = code
    BY StepsFit, Zenon DEF RatesDecoded
  <1>2. OdrCode(c, a) = code
    BY <1>1, Zenon DEF OdrCode, Has
  <1>3. getOdr(c, a) = IF code = 0 THEN 0 ELSE Rates[code]
    BY <1>2, Zenon DEF getOdr
  <1>4. code # 0 => code \in 1 .. 10
    OBVIOUS
  <1>5. QED
    BY <1>3, <1>4, RatesGrow

\* setXOdr and setGOdr.
LEMMA SetOdrKeeps ==
    ASSUME LSMInv, NEW a \in Axes, NEW odr \in Nat, LSM_setOdr(a, odr)
    PROVE  LSMInv'
  <1> DEFINE steps == OdrSteps(a, odr)
  <1> DEFINE success == Remember(a, odr)
  <1> DEFINE settings == [asked EXCEPT ![a].odr = odr]
  <1>1. Perform(steps, success, Same(steps), settings, detection, {})
    BY DEF LSM_setOdr
  <1>2. /\ device \in [Axes -> Device] /\ asked \in [Axes -> Setting] /\ detection \in Knowledge /\ lsm \in LSMChips
        /\ device[a].is_enabled \in BOOLEAN
    BY AxisFacts
  <1>3. /\ settings \in [Axes -> Setting]
        /\ settings[a].odr = odr /\ settings[a].scale = asked[a].scale
        /\ \A b \in Axes \ {a} : settings[b] = asked[b]
    BY <1>2 DEF Setting
  <1>4. RateCode(odr) \in 1 .. 10 /\ Rates[RateCode(odr)] \in Nat
    BY RateCodeFits, RatesGrow
  <1>5. odr # Unknown
    BY DEF Unknown
  <1>6. CASE device[a].is_enabled
    <2>1. steps = setOdrWhenEnabled(a, odr) /\ success = device
      BY <1>6 DEF OdrSteps, Remember
    <2> DEFINE rate == IsRate(a, RateCode(odr))
    <2>2. /\ steps \in SettingLists /\ steps \in StepLists /\ steps \in Seq(Steps) /\ Standing(rate)
          /\ Establishes(steps, rate) /\ Keeps(steps, rate)
          /\ \A s \in SettingsOf(OtherAxis(a)) \cup ScalesOf(a) : Keeps(steps, s)
      BY <2>1, RateListFacts
    <2>3. Len(steps) \in 0 .. Len(steps)
      BY <2>2
    <2> HIDE DEF steps, success, settings, rate
    <2>4. Completes(steps, success, settings, detection)
      <3> SUFFICES ASSUME NEW c \in LSMChips, NEW skip \in 0 .. Len(steps), c = After(lsm, steps, Len(steps), skip),
                          skip \in DOMAIN steps => ~steps[skip].checked, ~PageOpen(lsm), ~PageOpen(c)
                   PROVE  /\ \A b \in Axes : AskedOK(settings[b], device[b], c, b)
                          /\ \A d \in Detections : DetectionOK(detection[d], c, d)
        BY <2>1 DEF Completes
      <3>1. Has(c, rate)
        BY <1>2, <2>2, AfterEstablishes
      <3>2. RateAsked(settings[a], device[a], c, a)
        BY <1>3, <1>6, <3>1 DEF RateAsked, rate
      <3>3. /\ ScaleAsked(asked[a], c, a)
            /\ \A b \in Axes \ {a} : AskedOK(asked[b], device[b], c, b)
            /\ \A d \in Detections : DetectionOK(detection[d], c, d)
        BY <2>2, <2>3, RateListKeeps
      <3>4. ScaleAsked(settings[a], c, a)
        BY <1>3, <3>3 DEF ScaleAsked
      <3>5. QED
        BY <1>3, <3>2, <3>3, <3>4 DEF AskedOK
    <2>5. Fails(steps, Same(steps), settings, detection, {})
      <3> SUFFICES ASSUME NEW c \in LSMChips, NEW n \in 0 .. Len(steps), c = After(lsm, steps, n, 0)
                   PROVE  /\ \A b \in Axes : settings[b] = asked[b] => AskedOK(asked[b], device[b], c, b)
                          /\ \A d \in Detections : DetectionOK(detection[d], c, d)
        BY SameIs DEF Fails
      <3>1. ASSUME settings[a] = asked[a] PROVE RateAsked(asked[a], device[a], c, a)
        <4>1. asked[a].odr = odr
          BY <1>3, <3>1
        <4>2. Has(lsm, rate)
          BY <1>5, <1>6, <4>1, AxisFacts DEF RateAsked, rate
        <4>3. Has(c, rate)
          BY <1>2, <2>2, <4>2, AfterKeeps
        <4>4. QED
          BY <1>6, <4>1, <4>3 DEF RateAsked, rate
      <3>2. QED
        BY <2>2, <3>1, RateListKeeps DEF AskedOK
    <2>6. success \in [Axes -> Device] /\ \A i \in DOMAIN steps : Same(steps)[i] \in [Axes -> Device]
      BY <1>2, <2>1, SameIs
    <2>7. QED
      BY <1>1, <1>2, <1>3, <2>2, <2>4, <2>5, <2>6, PerformKeeps
  <1>7. CASE ~device[a].is_enabled
    <2>1. steps = <<>> /\ success = [device EXCEPT ![a].last_odr = Rates[RateCode(odr)]]
      BY <1>7 DEF OdrSteps, Remember, setOdrWhenDisabled
    <2>2. /\ success \in [Axes -> Device]
          /\ success[a].is_enabled = device[a].is_enabled /\ success[a].last_odr = Rates[RateCode(odr)]
          /\ \A b \in Axes \ {a} : success[b] = device[b]
      BY <1>2, <1>4, <2>1 DEF Device
    <2>3. /\ steps \in StepLists /\ DOMAIN steps = {} /\ Len(steps) \in 0 .. Len(steps)
          /\ steps \in ParameterLists \cup {<<>>} \cup { DisableSteps[d] : d \in Detections }
          /\ steps \in SettingLists \cup ParameterLists
      BY <2>1 DEF StepLists, SettingLists
    <2> HIDE DEF steps, success, settings
    <2>4. Completes(steps, success, settings, detection)
      <3> SUFFICES ASSUME NEW c \in LSMChips, NEW skip \in 0 .. Len(steps), c = After(lsm, steps, Len(steps), skip)
                   PROVE  /\ \A b \in Axes : AskedOK(settings[b], success[b], c, b)
                          /\ \A d \in Detections : DetectionOK(detection[d], c, d)
        BY DEF Completes
      <3>1. \A b \in Axes : AskedOK(asked[b], device[b], c, b)
        BY <2>3, OthersKeep
      <3>2. RateAsked(settings[a], success[a], c, a)
        BY <1>3, <1>7, <2>2 DEF RateAsked
      <3>3. ScaleAsked(settings[a], c, a)
        BY <1>3, <3>1 DEF AskedOK, ScaleAsked
      <3>4. \A d \in Detections : DetectionOK(detection[d], c, d)
        BY <2>3, DetectionsKept
      <3>5. QED
        BY <1>3, <2>2, <3>1, <3>2, <3>3, <3>4 DEF AskedOK
    <2>5. Fails(steps, Same(steps), settings, detection, {})
      BY <2>3 DEF Fails
    <2>6. QED
      BY <1>1, <1>2, <1>3, <2>2, <2>3, <2>4, <2>5, PerformKeeps
  <1>8. QED
    BY <1>6, <1>7

\* enableAccelerator and enableGyroscope.
LEMMA EnableKeeps ==
    ASSUME LSMInv, NEW a \in Axes, LSM_enable(a)
    PROVE  LSMInv'
  <1>1. /\ device \in [Axes -> Device] /\ asked \in [Axes -> Setting] /\ detection \in Knowledge /\ lsm \in LSMChips
        /\ device[a].last_odr \in Nat
    BY AxisFacts
  <1> DEFINE steps == setOdrWhenEnabled(a, device[a].last_odr)
  <1> DEFINE success == [device EXCEPT ![a].is_enabled = TRUE]
  <1> DEFINE rate == IsRate(a, RateCode(device[a].last_odr))
  <1>2. ~device[a].is_enabled /\ Perform(steps, success, Same(steps), asked, detection, {a})
    BY DEF LSM_enable
  <1>3. /\ success \in [Axes -> Device] /\ success[a].is_enabled
        /\ \A b \in Axes \ {a} : success[b] = device[b]
    BY <1>1 DEF Device
  <1>4. /\ steps \in SettingLists /\ steps \in StepLists /\ steps \in Seq(Steps) /\ Standing(rate)
        /\ Establishes(steps, rate)
        /\ \A s \in SettingsOf(OtherAxis(a)) \cup ScalesOf(a) : Keeps(steps, s)
    BY <1>1, RateListFacts
  <1>5. Len(steps) \in 0 .. Len(steps)
    BY <1>4
  <1>6. asked[a].odr # Unknown => RateCode(device[a].last_odr) = RateCode(asked[a].odr)
    BY <1>2, AxisFacts, RateCodeOfRate DEF RateAsked
  <1> HIDE DEF steps, success, rate
  <1>7. \A n \in 0 .. Len(steps) : \A skip :
            /\ ScaleAsked(asked[a], After(lsm, steps, n, skip), a)
            /\ \A b \in Axes \ {a} : AskedOK(asked[b], device[b], After(lsm, steps, n, skip), b)
            /\ \A d \in Detections : DetectionOK(detection[d], After(lsm, steps, n, skip), d)
    BY <1>4, RateListKeeps
  <1>8. Completes(steps, success, asked, detection)
    <2> SUFFICES ASSUME NEW c \in LSMChips, NEW skip \in 0 .. Len(steps), c = After(lsm, steps, Len(steps), skip),
                        skip \in DOMAIN steps => ~steps[skip].checked, ~PageOpen(lsm), ~PageOpen(c)
                 PROVE  /\ \A b \in Axes : AskedOK(asked[b], success[b], c, b)
                        /\ \A d \in Detections : DetectionOK(detection[d], c, d)
      BY DEF Completes
    <2>1. Has(c, rate)
      BY <1>1, <1>4, AfterEstablishes
    <2>2. RateAsked(asked[a], success[a], c, a)
      BY <1>3, <1>6, <2>1 DEF RateAsked, rate
    <2>3. QED
      BY <1>3, <1>5, <1>7, <2>2 DEF AskedOK
  <1>9. Fails(steps, Same(steps), asked, detection, {a})
    BY <1>7, SameIs DEF Fails
  <1>10. QED
    BY <1>1, <1>2, <1>3, <1>4, <1>8, <1>9, SameIs, PerformKeeps

\* disableAccelerator and disableGyroscope.
LEMMA DisableKeeps ==
    ASSUME LSMInv, NEW a \in Axes, LSM_disable(a)
    PROVE  LSMInv'
  <1>1. /\ device \in [Axes -> Device] /\ asked \in [Axes -> Setting] /\ detection \in Knowledge /\ lsm \in LSMChips
        /\ RateOK(lsm, a)
    BY AxisFacts
  <1>2. PICK odr : odr = getOdr(lsm, a)
    OBVIOUS
  <1>3. odr \in Nat
    BY <1>1, <1>2, GetOdrReads DEF RateOK
  <1> DEFINE steps == ReadAndPowerDown(a)
  <1> DEFINE saved == [device EXCEPT ![a].last_odr = odr]
  <1> DEFINE success == [saved EXCEPT ![a].is_enabled = FALSE]
  <1> DEFINE failed == <<device, saved>>
  <1>4. device[a].is_enabled /\ Perform(steps, success, failed, asked, detection, {a})
    BY <1>2 DEF LSM_disable
  <1>5. saved \in [Axes -> Device] /\ saved[a].last_odr = odr /\ \A b \in Axes \ {a} : saved[b] = device[b]
    BY <1>1, <1>3 DEF Device
  <1>6. /\ success \in [Axes -> Device] /\ ~success[a].is_enabled /\ success[a].last_odr = odr
        /\ \A b \in Axes \ {a} : success[b] = device[b]
    <2> HIDE DEF saved
    <2>1. QED
      BY <1>5 DEF Device
  <1>7. steps \in SettingLists
    BY DEF SettingLists
  <1>8. steps \in StepLists /\ steps \in Seq(Steps)
    BY <1>7, StepsFit DEF StepLists, ListsOfSteps
  <1>9. /\ Len(steps) = 2
        /\ \A s \in SettingsOf(OtherAxis(a)) \cup ScalesOf(a) : Keeps(steps, s)
    BY SettingsFit DEF PowerDownKeeps
  <1>10. DOMAIN steps = 1 .. 2 /\ Len(steps) \in 0 .. Len(steps)
    BY <1>8, <1>9
  <1>11. \A i \in DOMAIN steps : failed[i] \in [Axes -> Device] /\ \A b \in Axes \ {a} : failed[i][b] = device[b]
    <2>1. failed[1] = device /\ failed[2] = saved
      OBVIOUS
    <2>2. \A i \in DOMAIN steps : i = 1 \/ i = 2
      BY <1>10
    <2> HIDE DEF failed, saved, steps
    <2>3. QED
      BY <1>1, <1>5, <2>1, <2>2
  <1> HIDE DEF steps, success, saved, failed
  <1>12. \A n \in 0 .. Len(steps) : \A skip :
            /\ ScaleAsked(asked[a], After(lsm, steps, n, skip), a)
            /\ \A b \in Axes \ {a} : AskedOK(asked[b], device[b], After(lsm, steps, n, skip), b)
            /\ \A d \in Detections : DetectionOK(detection[d], After(lsm, steps, n, skip), d)
    BY <1>7, <1>9, RateListKeeps
  <1>13. asked[a].odr # Unknown => odr = Rates[RateCode(asked[a].odr)]
    <2> SUFFICES ASSUME asked[a].odr # Unknown PROVE odr = Rates[RateCode(asked[a].odr)]
      OBVIOUS
    <2>1. PICK code \in 1 .. 10 : code = RateCode(asked[a].odr)
      BY AxisFacts
    <2>2. Has(lsm, IsRate(a, code)) /\ code \in 0 .. 10 /\ code # 0
      BY <1>4, <2>1, AxisFacts DEF RateAsked
    <2>3. QED
      BY <1>2, <2>1, <2>2, GetOdrReads
  <1>14. Completes(steps, success, asked, detection)
    <2> SUFFICES ASSUME NEW c \in LSMChips, NEW skip \in 0 .. Len(steps), c = After(lsm, steps, Len(steps), skip)
                 PROVE  /\ \A b \in Axes : AskedOK(asked[b], success[b], c, b)
                        /\ \A d \in Detections : DetectionOK(detection[d], c, d)
      BY DEF Completes
    <2>1. RateAsked(asked[a], success[a], c, a)
      BY <1>6, <1>13 DEF RateAsked
    <2>2. QED
      BY <1>6, <1>10, <1>12, <2>1 DEF AskedOK
  <1>15. Fails(steps, failed, asked, detection, {a})
    BY <1>11, <1>12 DEF Fails
  <1>16. QED
    BY <1>1, <1>4, <1>6, <1>8, <1>11, <1>14, <1>15, PerformKeeps

LEMMA CoveringFullScale ==
    ASSUME NEW a \in Axes, NEW fs \in FullScales(a)
    PROVE  Covering(a, fs) = fs
  <1>1. FullScales(a) \subseteq Nat
    BY DEF FullScales, Axes
  <1>2. QED
    BY <1>1, CoveringIs

LEMMA ScalesAre == 2 \in FullScales("x") /\ 2000 \in FullScales("g")
  BY DEF FullScales

LEMMA ScaleIsStanding ==
    ASSUME NEW a \in Axes, NEW fs \in FullScales(a)
    PROVE  \A s \in IsScale(a, fs) : Standing(s)
  <1>1. IsScale(a, fs) \subseteq SettingsOf(a)
    BY DEF SettingsOf, ScalesOf
  <1>2. QED
    BY <1>1, SettingIsStanding

\* LSM6DSLSensor::init.
LEMMA InitKeeps ==
    ASSUME LSMInv, LSM_init
    PROVE  LSMInv'
  <1> DEFINE success == [a \in Axes |-> [is_enabled |-> FALSE, last_odr |-> 104]]
  <1> DEFINE settings == [x |-> [odr |-> 104, scale |-> 2], g |-> [odr |-> 104, scale |-> 2000]]
  <1>1. Perform(InitSteps, success, Same(InitSteps), settings, detection, Axes)
    BY DEF LSM_init
  <1>2. device \in [Axes -> Device] /\ asked \in [Axes -> Setting] /\ detection \in Knowledge /\ lsm \in LSMChips
    BY DEF LSMInv, LSMTypeOK, Knowledge
  <1>3. /\ settings \in [Axes -> Setting] /\ settings["x"].scale = 2 /\ settings["g"].scale = 2000
        /\ \A a \in Axes : settings[a].odr = 104
    BY DEF Setting, Axes
  <1>4. /\ success \in [Axes -> Device]
        /\ \A a \in Axes : ~success[a].is_enabled /\ success[a].last_odr = 104
    BY DEF Device
  <1>5. InitSteps \in SettingLists
    BY DEF SettingLists
  <1>6. InitSteps \in StepLists /\ InitSteps \in Seq(Steps)
    BY <1>5, StepsFit DEF StepLists, ListsOfSteps
  <1>7. Rates[RateCode(104)] = 104
    <2>1. Rates[4] = 104
      BY DEF Rates
    <2>2. RateCode(Rates[4]) = 4
      BY RateCodeOfRate
    <2>3. QED
      BY <2>1, <2>2
  <1>8. Len(InitSteps) \in 0 .. Len(InitSteps)
    BY <1>6
  <1>9. \A s \in IsScale("x", 2) \cup IsScale("g", 2000) : Establishes(InitSteps, s)
    BY SettingsFit DEF InitStores
  <1>10. \A n \in 0 .. Len(InitSteps) : \A skip :
             \A d \in Detections : DetectionOK(detection[d], After(lsm, InitSteps, n, skip), d)
    BY <1>5, DetectionsKept
  <1> HIDE DEF success, settings
  <1>11. Completes(InitSteps, success, settings, detection)
    <2> SUFFICES ASSUME NEW c \in LSMChips, NEW skip \in 0 .. Len(InitSteps),
                        c = After(lsm, InitSteps, Len(InitSteps), skip),
                        skip \in DOMAIN InitSteps => ~InitSteps[skip].checked, ~PageOpen(lsm), ~PageOpen(c)
                 PROVE  /\ \A a \in Axes : AskedOK(settings[a], success[a], c, a)
                        /\ \A d \in Detections : DetectionOK(detection[d], c, d)
      BY DEF Completes
    <2>1. \A a \in Axes : RateAsked(settings[a], success[a], c, a)
      BY <1>3, <1>4, <1>7 DEF RateAsked
    <2>2. ScaleAsked(settings["x"], c, "x")
      <3>1. \A s \in IsScale("x", 2) : Has(c, s)
        <4> SUFFICES ASSUME NEW s \in IsScale("x", 2) PROVE Has(c, s)
          OBVIOUS
        <4>1. Standing(s)
          BY AxesAre, ScalesAre, ScaleIsStanding
        <4>2. Establishes(InitSteps, s)
          BY <1>9
        <4>3. QED
          BY <1>2, <1>6, <4>1, <4>2, AfterEstablishes
      <3>2. Covering("x", 2) = 2
        BY AxesAre, ScalesAre, CoveringFullScale
      <3>3. QED
        BY <1>3, <3>1, <3>2 DEF ScaleAsked
    <2>3. ScaleAsked(settings["g"], c, "g")
      <3>1. \A s \in IsScale("g", 2000) : Has(c, s)
        <4> SUFFICES ASSUME NEW s \in IsScale("g", 2000) PROVE Has(c, s)
          OBVIOUS
        <4>1. Standing(s)
          BY AxesAre, ScalesAre, ScaleIsStanding
        <4>2. Establishes(InitSteps, s)
          BY <1>9
        <4>3. QED
          BY <1>2, <1>6, <4>1, <4>2, AfterEstablishes
      <3>2. Covering("g", 2000) = 2000
        BY AxesAre, ScalesAre, CoveringFullScale
      <3>3. QED
        BY <1>3, <3>1, <3>2 DEF ScaleAsked
    <2>4. \A a \in Axes : a = "x" \/ a = "g"
      BY DEF Axes
    <2>5. QED
      BY <1>8, <1>10, <2>1, <2>2, <2>3, <2>4 DEF AskedOK
  <1>12. Fails(InitSteps, Same(InitSteps), settings, detection, Axes)
    BY <1>10 DEF Fails
  <1>13. \A i \in DOMAIN InitSteps : Same(InitSteps)[i] \in [Axes -> Device]
    BY <1>2, SameIs
  <1>14. PICK steps, done, failed, want, switched :
            /\ steps = InitSteps /\ done = success /\ failed = Same(InitSteps) /\ want = settings
            /\ switched = Axes
    OBVIOUS
  <1>15. /\ Perform(steps, done, failed, want, detection, switched)
         /\ Completes(steps, done, want, detection)
         /\ Fails(steps, failed, want, detection, switched)
         /\ steps \in StepLists /\ done \in [Axes -> Device] /\ want \in [Axes -> Setting]
         /\ \A i \in DOMAIN steps : failed[i] \in [Axes -> Device]
    BY <1>1, <1>3, <1>4, <1>6, <1>11, <1>12, <1>13, <1>14
  <1>16. QED
    BY <1>2, <1>15, PerformKeeps

\* The calls that enable a detection.
LEMMA EnableDetectionKeeps ==
    ASSUME LSMInv, NEW d \in Detections, NEW pin \in DOMAIN Routes[d], EnableDetection(d, pin)
    PROVE  LSMInv'
  <1>0. PICK odr \in Nat : odr = DetectionRate[d]
    BY DEF DetectionRate
  <1> DEFINE steps == EnableList(OdrSteps("x", odr), d, pin)
  <1> DEFINE success == Remember("x", odr)
  <1> DEFINE failed == [i \in DOMAIN steps |-> success]
  <1> DEFINE settings == [asked EXCEPT !.x = [odr |-> odr, scale |-> 2]]
  <1> DEFINE detected == [detection EXCEPT ![d] = "on"]
  <1> DEFINE rate == IsRate("x", RateCode(odr))
  <1>1. Perform(steps, success, failed, settings, detected, {})
    BY <1>0 DEF EnableDetection
  <1>2. /\ device \in [Axes -> Device] /\ asked \in [Axes -> Setting] /\ detection \in Knowledge /\ lsm \in LSMChips
        /\ device["x"].is_enabled \in BOOLEAN
    BY AxesAre, AxisFacts
  <1>3. /\ settings \in [Axes -> Setting] /\ settings["x"].odr = odr /\ settings["x"].scale = 2
        /\ settings["g"] = asked["g"]
    BY <1>2, AxesAre DEF Setting, Axes
  <1>4. detected \in Knowledge /\ detected[d] = "on" /\ \A e \in Detections \ {d} : detected[e] = detection[e]
    BY <1>2 DEF Knowledge
  <1>5. /\ RateCode(odr) \in 1 .. 10 /\ RateCode(odr) \in 0 .. 10 /\ Rates[RateCode(odr)] \in Nat
        /\ odr # Unknown /\ 2 # Unknown /\ Covering("x", 2) = 2
    BY RateCodeFits, RatesGrow, AxesAre, ScalesAre, CoveringFullScale DEF Unknown
  <1>6. /\ success \in [Axes -> Device] /\ success["g"] = device["g"]
        /\ success["x"].is_enabled = device["x"].is_enabled
        /\ ~device["x"].is_enabled => success["x"].last_odr = Rates[RateCode(odr)]
        /\ device["x"].is_enabled => success = device
    <2>1. CASE device["x"].is_enabled
      BY <1>2, <2>1 DEF Remember
    <2>2. CASE ~device["x"].is_enabled
      <3>1. success = [device EXCEPT !["x"].last_odr = Rates[RateCode(odr)]]
        BY <2>2 DEF Remember, setOdrWhenDisabled
      <3> HIDE DEF success
      <3>2. QED
        BY <1>2, <1>5, <2>2, <3>1, AxesAre DEF Device, Axes
    <2>3. QED
      BY <2>1, <2>2
  <1>7. /\ OdrSteps("x", odr) \in {<<>>, setOdrWhenEnabled("x", DetectionRate[d])}
        /\ device["x"].is_enabled => OdrSteps("x", odr) = setOdrWhenEnabled("x", DetectionRate[d])
    BY <1>0 DEF OdrSteps
  <1>8. steps \in EnableLists(d)
    BY <1>7 DEF EnableLists
  <1>9. steps \in StepLists /\ steps \in Seq(Steps)
    BY <1>8, StepsFit DEF StepLists, ListsOfSteps
  <1>10. /\ \A s \in SettingsOf("g") \cup {rate} : Keeps(steps, s)
         /\ \A s \in IsScale("x", 2) : Establishes(steps, s) /\ Keeps(steps, s)
         /\ device["x"].is_enabled => Establishes(steps, rate)
    BY <1>0, <1>7, <1>8, SettingsFit, Zenon DEF EnablesStore
  <1>11. /\ \A f \in Needs(d) \cup {Routes[d][pin]} : Establishes(steps, IsOn(f))
         /\ \A f \in DetectionFields : Keeps(steps, IsOn(f))
         /\ \A e \in Detections \ {d} : \A f \in RouteFields(e) : Keeps(steps, IsOff(f))
    BY <1>7, <1>8, DetectionsFit, Zenon DEF EnablesRoute
  <1>12. Len(steps) \in 0 .. Len(steps) /\ \A i \in DOMAIN steps : failed[i] = success
    BY <1>9
  <1>13. Standing(rate)
    <2>1. rate \in SettingsOf("x")
      BY <1>5 DEF SettingsOf, RatesOf
    <2>2. QED
      BY <2>1, AxesAre, SettingIsStanding
  <1> HIDE DEF steps, success, failed, settings, detected, rate
  <1>14. ASSUME NEW n \in 0 .. Len(steps), NEW skip
         PROVE  /\ AskedOK(asked["g"], device["g"], After(lsm, steps, n, skip), "g")
                /\ \A e \in Detections : e # d \/ detection[e] = "on" =>
                       DetectionOK(detection[e], After(lsm, steps, n, skip), e)
    <2>1. \A s \in RatesOf("g") \cup ScalesOf("g") : Keeps(steps, s)
      BY <1>10 DEF SettingsOf
    <2>2. AskedOK(asked["g"], device["g"], After(lsm, steps, n, skip), "g")
      BY <1>9, <2>1, AxesAre, RateKept, ScaleKept DEF AskedOK
    <2>3. ASSUME NEW e \in Detections, e # d \/ detection[e] = "on"
          PROVE  DetectionOK(detection[e], After(lsm, steps, n, skip), e)
      <3>1. \A f \in RouteFields(e) \cup Needs(e) : Keeps(steps, IsOn(f))
        BY <1>11, FieldFacts
      <3>2. detection[e] = "off" => \A f \in RouteFields(e) : Keeps(steps, IsOff(f))
        BY <1>11, <2>3
      <3>3. QED
        BY <1>9, <3>1, <3>2, DetectionKept
    <2>4. QED
      BY <2>2, <2>3
  <1>15. Completes(steps, success, settings, detected)
    <2> SUFFICES ASSUME NEW c \in LSMChips, NEW skip \in 0 .. Len(steps), c = After(lsm, steps, Len(steps), skip),
                        skip \in DOMAIN steps => ~steps[skip].checked, ~PageOpen(lsm), ~PageOpen(c)
                 PROVE  /\ \A a \in Axes : AskedOK(settings[a], success[a], c, a)
                        /\ \A e \in Detections : DetectionOK(detected[e], c, e)
      BY DEF Completes
    <2>1. RateAsked(settings["x"], success["x"], c, "x")
      <3>1. device["x"].is_enabled => Has(c, rate)
        BY <1>2, <1>9, <1>10, <1>13, AfterEstablishes
      <3>2. QED
        BY <1>3, <1>6, <3>1 DEF RateAsked, rate
    <2>2. ScaleAsked(settings["x"], c, "x")
      <3>1. \A s \in IsScale("x", 2) : Has(c, s)
        <4> SUFFICES ASSUME NEW s \in IsScale("x", 2) PROVE Has(c, s)
          OBVIOUS
        <4>1. Standing(s)
          BY AxesAre, ScalesAre, ScaleIsStanding
        <4>2. Establishes(steps, s)
          BY <1>10
        <4>3. QED
          BY <1>2, <1>9, <4>1, <4>2, AfterEstablishes
      <3>2. QED
        BY <1>3, <1>5, <3>1 DEF ScaleAsked
    <2>3. \A a \in Axes : a = "x" \/ a = "g"
      BY DEF Axes
    <2>4. DetectionOK(detected[d], c, d)
      <3>1. \A f \in Needs(d) \cup {Routes[d][pin]} : Has(c, IsOn(f))
        <4>1. Routes[d][pin] \in RouteFields(d)
          BY DEF RouteFields
        <4>2. QED
          BY <1>2, <1>9, <1>11, <4>1, FieldFacts, AfterEstablishes
      <3>2. Routes[d][pin] \in RouteFields(d)
        BY DEF RouteFields
      <3>3. QED
        BY <1>4, <3>1, <3>2 DEF DetectionOK
    <2>5. \A e \in Detections \ {d} : DetectionOK(detected[e], c, e)
      BY <1>4, <1>12, <1>14
    <2>6. AskedOK(settings["g"], success["g"], c, "g")
      BY <1>3, <1>6, <1>12, <1>14
    <2>7. QED
      BY <2>1, <2>2, <2>3, <2>4, <2>5, <2>6 DEF AskedOK
  <1>16. Fails(steps, failed, settings, detected, {})
    <2> SUFFICES ASSUME NEW c \in LSMChips, NEW n \in 0 .. Len(steps), c = After(lsm, steps, n, 0)
                 PROVE  /\ \A a \in Axes : settings[a] = asked[a] => AskedOK(asked[a], success[a], c, a)
                        /\ \A e \in Detections : detected[e] = detection[e] => DetectionOK(detection[e], c, e)
      BY <1>12 DEF Fails
    <2>1. ASSUME settings["x"] = asked["x"]
          PROVE  AskedOK(asked["x"], success["x"], c, "x")
      <3>1. asked["x"].odr = odr /\ asked["x"].scale = 2
        BY <1>3, <2>1
      <3>2. RateAsked(asked["x"], success["x"], c, "x")
        <4>1. device["x"].is_enabled => Has(lsm, rate)
          BY <1>5, <3>1, AxesAre, AxisFacts DEF RateAsked, rate
        <4>2. device["x"].is_enabled => Has(c, rate)
          BY <1>2, <1>9, <1>10, <1>13, <4>1, AfterKeeps
        <4>3. QED
          BY <1>6, <3>1, <4>2 DEF RateAsked, rate
      <3>3. ScaleAsked(asked["x"], c, "x")
        <4>1. \A s \in IsScale("x", 2) : Has(lsm, s)
          BY <1>5, <3>1, AxesAre, AxisFacts DEF ScaleAsked
        <4>2. \A s \in IsScale("x", 2) : Standing(s)
          BY AxesAre, ScalesAre, ScaleIsStanding
        <4>3. \A s \in IsScale("x", 2) : Has(c, s)
          BY <1>2, <1>9, <1>10, <4>1, <4>2, AfterKeeps
        <4>4. QED
          BY <1>5, <3>1, <4>3 DEF ScaleAsked
      <3>4. QED
        BY <3>2, <3>3 DEF AskedOK
    <2>2. \A a \in Axes : a = "x" \/ a = "g"
      BY DEF Axes
    <2>3. AskedOK(asked["g"], success["g"], c, "g")
      BY <1>6, <1>14
    <2>4. \A e \in Detections : detected[e] = detection[e] => DetectionOK(detection[e], c, e)
      BY <1>4, <1>14
    <2>5. QED
      BY <2>1, <2>2, <2>3, <2>4
  <1>17. QED
    <2>1. \A i \in DOMAIN steps : failed[i] \in [Axes -> Device]
      BY <1>6, <1>12
    <2>2. QED
      BY <1>1, <1>3, <1>4, <1>6, <1>9, <1>15, <1>16, <2>1, PerformKeeps

\* The chip at power on.
LEMMA LSMInitInv == LSMInit => LSMInv
  <1> SUFFICES ASSUME LSMInit PROVE LSMInv
    OBVIOUS
  <1>1. LSMTypeOK
    <2>1. lsm \in LSMChips
      BY DEF LSMInit, LSMChips
    <2>2. device \in [Axes -> Device]
      BY DEF LSMInit, Device
    <2>3. asked \in [Axes -> Setting]
      BY NothingKnown DEF LSMInit
    <2>4. QED
      BY <2>1, <2>2, <2>3, LSMAssumption DEF LSMInit, LSMTypeOK
  <1>2. \A r \in LSMRegister : lsm[r] = {}
    BY DEF LSMInit
  <1>3. \A s : Standing(s) /\ s.bits = {} => Has(lsm, s)
    BY <1>2 DEF Standing, Steps, Has, Masked
  <1>4. PageInv
    <2>1. "FUNC_CFG_ACCESS" \in LSMRegister
      BY DEF LSMRegister
    <2>2. lsm.FUNC_CFG_ACCESS = {}
      BY <1>2, <2>1
    <2>3. ~PageOpen(lsm)
      BY <2>2, StepsFit DEF PageOpen, PowerOnIsClear
    <2>4. QED
      BY <2>3 DEF PageInv
  <1>5. ASSUME NEW a \in Axes
        PROVE  RateOK(lsm, a) /\ AskedOK(asked[a], device[a], lsm, a)
    <2>1. 0 \in 0 .. 10
      OBVIOUS
    <2>2. IsRate(a, 0) \in SettingsOf(a)
      BY <2>1 DEF SettingsOf, RatesOf
    <2>3. Has(lsm, IsRate(a, 0))
      BY <1>3, <2>2, SettingIsStanding, StepsFit DEF PowerOnIsClear
    <2>4. RateOK(lsm, a)
      BY <2>1, <2>3 DEF RateOK
    <2>5. asked[a] = Nothing
      BY DEF LSMInit
    <2>6. QED
      BY <2>4, <2>5, NothingKnown
  <1>6. ASSUME NEW d \in Detections
        PROVE  DetectionOK(detection[d], lsm, d)
    <2>1. detection[d] = "off"
      BY DEF LSMInit
    <2>2. \A f \in RouteFields(d) : Standing(IsOff(f)) /\ IsOff(f).bits = {}
      BY FieldFacts, StepsFit DEF FieldsOfBits
    <2>3. QED
      BY <1>3, <2>1, <2>2 DEF DetectionOK
  <1>7. QED
    BY <1>1, <1>4, <1>5, <1>6 DEF LSMInv

LEMMA LSMStepKept == LSMInv /\ [LSMNext]_lsmVars => LSMInv'
  <1> SUFFICES ASSUME LSMInv, [LSMNext]_lsmVars PROVE LSMInv'
    OBVIOUS
  <1>1. CASE LSM_init
    BY <1>1, InitKeeps
  <1>2. ASSUME NEW a \in Axes, LSM_enable(a) PROVE LSMInv'
    BY <1>2, EnableKeeps
  <1>3. ASSUME NEW a \in Axes, LSM_disable(a) PROVE LSMInv'
    BY <1>3, DisableKeeps
  <1>4. ASSUME NEW a \in Axes, NEW odr \in LSMRates, LSM_setOdr(a, odr) PROVE LSMInv'
    BY <1>4, LSMAssumption, SetOdrKeeps
  <1>5. ASSUME NEW fs \in XScales, LSM_setFullScale("x", fs) PROVE LSMInv'
    BY <1>5, LSMAssumption, AxesAre, SetFullScaleKeeps
  <1>6. ASSUME NEW fs \in GScales, LSM_setFullScale("g", fs) PROVE LSMInv'
    BY <1>6, LSMAssumption, AxesAre, SetFullScaleKeeps
  <1>7. ASSUME NEW d \in Detections, NEW pin \in DOMAIN Routes[d], EnableDetection(d, pin) PROVE LSMInv'
    BY <1>7, EnableDetectionKeeps
  <1>8. ASSUME NEW d \in Detections, DisableDetection(d) PROVE LSMInv'
    BY <1>8, DisableDetectionKeeps
  <1>9. CASE SetParameter
    BY <1>9, SetParameterKeeps
  <1>10. CASE UNCHANGED lsmVars
    <2>1. /\ lsm' = lsm /\ device' = device /\ asked' = asked /\ detection' = detection
          /\ lsmCalls' = lsmCalls /\ lsmFaults' = lsmFaults
      BY <1>10 DEF lsmVars
    <2>2. QED
      BY <2>1 DEF LSMInv, LSMTypeOK, PageInv
  <1>11. QED
    BY <1>1, <1>2, <1>3, <1>4, <1>5, <1>6, <1>7, <1>8, <1>9, <1>10, Zenon DEF LSMNext

\* The chip's registers hold what was last asked for.
THEOREM LSMInvariant == LSMSpec => []LSMInv
  BY LSMInitInv, LSMStepKept, PTL DEF LSMSpec

\* What getXFullScale and getGFullScale read.
LEMMA GetFullScaleReads ==
    ASSUME NEW c, NEW a \in Axes, NEW t \in FullScales(a), \A s \in IsScale(a, t) : Has(c, s)
    PROVE  getFullScale(c, a) = t
  <1>1. CASE a = "x"
    <2>1. PICK s \in IsScale("x", t) :
            s.reg = "CTRL1_XL" /\ s.mask = CTRL1_XL_t.FS_XL.mask /\ XScale[NumberOf(s.bits)] = t
      BY <1>1, StepsFit, Zenon DEF XScalesDecoded
    <2>2. Masked(c.CTRL1_XL, CTRL1_XL_t.FS_XL.mask) = s.bits
      BY <1>1, <2>1, Zenon DEF Has
    <2>3. QED
      BY <1>1, <2>1, <2>2, Zenon DEF getFullScale
  <1>2. CASE a = "g"
    <2>1. PICK s \in IsScale("g", t) :
              /\ s.reg = "CTRL2_G" /\ s.mask = FS_125_t.mask /\ s.mask # {}
              /\ s.bits = IF t = 125 THEN s.mask ELSE {}
      BY <1>2, StepsFit, Zenon DEF GScalesDecoded
    <2>2. PICK mask, bits, byte : mask = FS_125_t.mask /\ bits = s.bits /\ byte = c.CTRL2_G
      OBVIOUS
    <2>3. byte \cap mask = bits /\ mask # {} /\ bits = IF t = 125 THEN mask ELSE {}
      BY <1>2, <2>1, <2>2 DEF Has, Masked
    <2>4. mask \subseteq byte <=> t = 125
      BY <2>3
    <2>5. CASE t = 125
      BY <1>2, <2>2, <2>4, <2>5, Zenon DEF getFullScale
    <2>6. CASE t # 125
      <3>1. PICK u \in IsScale("g", t) :
              u.reg = "CTRL2_G" /\ u.mask = CTRL2_G_t.FS_G.mask /\ GScale[NumberOf(u.bits)] = t
        BY <1>2, <2>6, StepsFit, Zenon DEF GScalesDecoded
      <3>2. Masked(c.CTRL2_G, CTRL2_G_t.FS_G.mask) = u.bits
        BY <1>2, <3>1, Zenon DEF Has
      <3>3. a # "x"
        BY <1>2
      <3>4. ~(FS_125_t.mask \subseteq c.CTRL2_G)
        BY <2>2, <2>4, <2>6
      <3>5. getFullScale(c, a) = GScale[NumberOf(Masked(c.CTRL2_G, CTRL2_G_t.FS_G.mask))]
        BY <3>3, <3>4, Zenon DEF getFullScale
      <3>6. QED
        BY <3>1, <3>2, <3>5
    <2>7. QED
      BY <2>5, <2>6
  <1>3. QED
    BY <1>1, <1>2 DEF Axes

LEMMA SensitivityFits ==
    ASSUME NEW a \in Axes, NEW t \in FullScales(a)
    PROVE  Sensitivity(t) * 33 >= 1000 * t /\ Sensitivity(t) * 33 <= 1200 * t
  <1>1. \/ t = 2 \/ t = 4 \/ t = 8 \/ t = 16
        \/ t = 125 \/ t = 245 \/ t = 500 \/ t = 1000 \/ t = 2000
    BY DEF FullScales, Axes
  <1>2. /\ Sensitivity(2) = 61 /\ Sensitivity(4) = 122 /\ Sensitivity(8) = 244 /\ Sensitivity(16) = 488
        /\ Sensitivity(125) = 4375 /\ Sensitivity(245) = 8750 /\ Sensitivity(500) = 17500
        /\ Sensitivity(1000) = 35000 /\ Sensitivity(2000) = 70000
    BY SMT DEF Sensitivity
  <1>3. QED
    BY <1>1, <1>2, SMT

\* The motion sensor runs at the slowest rate, and with the smallest full scale,
\* that is enough for what was last asked for.
THEOREM SettingsAreKept == LSMSpec => []SettingsKept
  <1>1. LSMInv => SettingsKept
    <2> SUFFICES ASSUME LSMInv, NEW a \in Axes
                 PROVE  /\ asked[a].odr # Unknown =>
                              (IF device[a].is_enabled THEN getOdr(lsm, a) ELSE device[a].last_odr)
                                  = Fastest(asked[a].odr)
                        /\ asked[a].scale # Unknown =>
                              /\ getFullScale(lsm, a) = Covering(a, asked[a].scale)
                              /\ getSensitivity(lsm, a) * 33 >= 1000 * getFullScale(lsm, a)
                              /\ getSensitivity(lsm, a) * 33 <= 1200 * getFullScale(lsm, a)
      BY Zenon DEF SettingsKept
    <2>1. ASSUME asked[a].odr # Unknown
          PROVE  (IF device[a].is_enabled THEN getOdr(lsm, a) ELSE device[a].last_odr) = Fastest(asked[a].odr)
      <3>1. PICK code \in 1 .. 10 : code = RateCode(asked[a].odr)
        BY <2>1, AxisFacts
      <3>2. Rates[code] = Fastest(asked[a].odr)
        BY <2>1, <3>1, AxisFacts, RateIsFastest
      <3>3. CASE device[a].is_enabled
        <4>1. Has(lsm, IsRate(a, code)) /\ code \in 0 .. 10 /\ code # 0
          BY <2>1, <3>1, <3>3, AxisFacts DEF RateAsked
        <4>2. QED
          BY <3>2, <3>3, <4>1, GetOdrReads
      <3>4. CASE ~device[a].is_enabled
        BY <2>1, <3>1, <3>2, <3>4, AxisFacts DEF RateAsked
      <3>5. QED
        BY <3>3, <3>4
    <2>2. ASSUME asked[a].scale # Unknown
          PROVE  /\ getFullScale(lsm, a) = Covering(a, asked[a].scale)
                 /\ getSensitivity(lsm, a) * 33 >= 1000 * getFullScale(lsm, a)
                 /\ getSensitivity(lsm, a) * 33 <= 1200 * getFullScale(lsm, a)
      <3>1. PICK t \in FullScales(a) : t = Covering(a, asked[a].scale)
        BY <2>2, AxisFacts, CoveringIsFullScale DEF Setting
      <3>2. \A s \in IsScale(a, t) : Has(lsm, s)
        BY <2>2, <3>1, AxisFacts DEF ScaleAsked
      <3>3. getFullScale(lsm, a) = t
        BY <3>2, GetFullScaleReads
      <3>4. QED
        BY <3>1, <3>3, SensitivityFits DEF getSensitivity
    <2>3. QED
      BY <2>1, <2>2
  <1>2. QED
    BY <1>1, LSMInvariant, PTL

\* A detection that was enabled is routed and has what it needs; one that was
\* disabled is routed to no pin.
THEOREM DetectionsAreHonest == LSMSpec => []DetectionsHonest
  <1>1. LSMInv => DetectionsHonest
    <2> SUFFICES ASSUME LSMInv, NEW d \in Detections
                 PROVE  /\ detection[d] = "off" => d \notin getEventStatus(lsm, Detections)
                        /\ detection[d] = "on" =>
                              /\ d \in getEventStatus(lsm, Detections)
                              /\ \A f \in Needs(d) : Holds(lsm, f)
      BY Zenon DEF DetectionsHonest
    <2>1. DetectionOK(detection[d], lsm, d)
      BY DEF LSMInv
    <2>2. ASSUME NEW f \in RouteFields(d) \cup Needs(d)
          PROVE  (Has(lsm, IsOn(f)) => Holds(lsm, f)) /\ (Has(lsm, IsOff(f)) => ~Holds(lsm, f))
      <3>1. f \in DetectionFields
        BY FieldFacts
      <3>2. /\ DOMAIN f.mask = {IsOn(f).reg} /\ f.mask[IsOn(f).reg] # {}
            /\ IsOn(f).mask = f.mask[IsOn(f).reg] /\ IsOn(f).bits = IsOn(f).mask
            /\ IsOff(f).reg = IsOn(f).reg /\ IsOff(f).mask = IsOn(f).mask /\ IsOff(f).bits = {}
        BY <3>1, StepsFit, Zenon DEF FieldsOfBits
      <3>3. PICK reg, mask, byte : reg = IsOn(f).reg /\ mask = IsOn(f).mask /\ byte = lsm[reg]
        OBVIOUS
      <3>4. Holds(lsm, f) <=> mask \subseteq byte
        BY <3>2, <3>3, Zenon DEF Holds
      <3>5. (Has(lsm, IsOn(f)) <=> byte \cap mask = mask) /\ (Has(lsm, IsOff(f)) <=> byte \cap mask = {})
        BY <3>2, <3>3 DEF Has, Masked
      <3>6. mask # {}
        BY <3>2, <3>3
      <3>7. QED
        BY <3>4, <3>5, <3>6
    <2>3. d \in getEventStatus(lsm, Detections) <=> \E f \in RouteFields(d) : Holds(lsm, f)
      BY DEF getEventStatus, RouteFields
    <2>4. QED
      BY <2>1, <2>2, <2>3 DEF DetectionOK
  <1>2. QED
    BY <1>1, LSMInvariant, PTL

-----------------------------------------------------------------------------

(* The humidity sensor's power.                                            *)

\* What a call may do to the chip: each stage is a chip, and one whose power is
\* what it was asked to be, if the call asks for what was asked before.
LEMMA HTSCallKeeps ==
    ASSUME HTSInv, NEW stages, NEW last \in DOMAIN stages, last = Len(stages),
           NEW wanted \in {"on", "off", "any"},
           \A i \in DOMAIN stages : stages[i] \in HTSChip /\ (wanted = power => PowerIs(stages[i], power)),
           PowerIs(stages[last], wanted), Call(stages, wanted)
    PROVE  HTSInv'
  <1>1. hts \in HTSChip /\ power \in {"on", "off", "any"} /\ PowerIs(hts, power)
        /\ htsCalls \in 0 .. HTSCalls /\ htsCalls < HTSCalls /\ htsCalls' = htsCalls + 1
    BY DEF HTSInv, HTSTypeOK, PowerAsAsked, Call
  <1>2. htsCalls' \in 0 .. HTSCalls
    BY <1>1, HTSAssumption
  <1>3. CASE hts' = stages[Len(stages)] /\ power' = wanted
    BY <1>2, <1>3 DEF HTSInv, HTSTypeOK, PowerAsAsked
  <1>4. CASE /\ hts' \in {hts} \cup { stages[i] : i \in DOMAIN stages }
             /\ power' = IF wanted = power THEN power ELSE "any"
    <2>1. hts' \in HTSChip
      BY <1>1, <1>4
    <2>2. wanted = power => PowerIs(hts', power)
      BY <1>1, <1>4
    <2>3. PowerIs(hts', power')
      BY <1>4, <2>2 DEF PowerIs
    <2>4. QED
      BY <1>1, <1>2, <1>4, <2>1, <2>3 DEF HTSInv, HTSTypeOK, PowerAsAsked
  <1>5. QED
    BY <1>3, <1>4 DEF Call

LEMMA BitsAreBits == \A n : Bits(n) \subseteq Bit
  BY DEF Bits

\* A write to the control register, of a field that is not the power bit.
LEMMA PutKeeps ==
    ASSUME NEW c \in HTSChip, NEW mask, NEW v \in SUBSET Bit
    PROVE  /\ Put(c, "CTRL_REG1", mask, v) \in HTSChip
           /\ PD \cap mask = {} /\ PD \cap v = {} =>
                 \A p : PowerIs(c, p) => PowerIs(Put(c, "CTRL_REG1", mask, v), p)
  <1>1. PICK new : new = Put(c, "CTRL_REG1", mask, v)
    OBVIOUS
  <1>2. new = [c EXCEPT !.CTRL_REG1 = (c.CTRL_REG1 \ mask) \cup v]
    BY <1>1 DEF Put, Merge
  <1>3. new \in HTSChip /\ new.CTRL_REG1 = (c.CTRL_REG1 \ mask) \cup v
    BY <1>2 DEF HTSChip
  <1>4. QED
    BY <1>1, <1>3 DEF PowerIs

\* What leaves the control register alone.
LEMMA SamePower ==
    ASSUME NEW c \in HTSChip, NEW new \in HTSChip, PD \cap new.CTRL_REG1 = PD \cap c.CTRL_REG1, NEW p
    PROVE  PowerIs(c, p) => PowerIs(new, p)
  BY DEF PowerIs

LEMMA SwitchFacts ==
    ASSUME NEW c \in HTSChip
    PROVE  /\ HTS221_Activate(c) \in HTSChip /\ PowerIs(HTS221_Activate(c), "on")
           /\ HTS221_DeActivate(c) \in HTSChip /\ PowerIs(HTS221_DeActivate(c), "off")
  <1>1. PD \in SUBSET Bit /\ {} \in SUBSET Bit
    BY BitsAreBits DEF PD
  <1>2. PICK on, off : on = HTS221_Activate(c) /\ off = HTS221_DeActivate(c)
    OBVIOUS
  <1>3. /\ on = [c EXCEPT !.CTRL_REG1 = (c.CTRL_REG1 \ PD) \cup PD]
        /\ off = [c EXCEPT !.CTRL_REG1 = (c.CTRL_REG1 \ PD) \cup {}]
    BY <1>2 DEF HTS221_Activate, HTS221_DeActivate, Put, Merge
  <1>4. /\ on \in HTSChip /\ on.CTRL_REG1 = (c.CTRL_REG1 \ PD) \cup PD
        /\ off \in HTSChip /\ off.CTRL_REG1 = (c.CTRL_REG1 \ PD) \cup {}
    BY <1>1, <1>3 DEF HTSChip
  <1>5. QED
    BY <1>2, <1>4 DEF PowerIs

LEMMA RateFacts ==
    ASSUME NEW c \in HTSChip, NEW odr
    PROVE  setOdr(c, odr) \in HTSChip /\ \A p : PowerIs(c, p) => PowerIs(setOdr(c, odr), p)
  <1>1. PICK n \in 1 .. 3 : n = IF odr <= 1 THEN 1 ELSE IF odr <= 7 THEN 2 ELSE 3
    <2>1. 1 \in 1 .. 3 /\ 2 \in 1 .. 3 /\ 3 \in 1 .. 3
      OBVIOUS
    <2>2. QED
      BY <2>1
  <1>2. setOdr(c, odr) = Put(c, "CTRL_REG1", Odr_et.mask, Bits(n))
    BY <1>1, Zenon DEF setOdr
  <1>3. QED
    BY <1>2, BitsAreBits, PowerBitApart, PutKeeps

\* Flags, and registers that are not about power.
LEMMA OtherRegisters ==
    ASSUME NEW c \in HTSChip, NEW av \in SUBSET Bit, NEW r2 \in SUBSET Bit, NEW r3 \in SUBSET Bit,
           NEW h \in BOOLEAN, NEW t \in BOOLEAN
    PROVE  /\ [c EXCEPT !.AV_CONF = av] \in HTSChip
           /\ [c EXCEPT !.AV_CONF = av].CTRL_REG1 = c.CTRL_REG1
           /\ [c EXCEPT !.CTRL_REG2 = r2] \in HTSChip
           /\ [c EXCEPT !.CTRL_REG2 = r2].CTRL_REG1 = c.CTRL_REG1
           /\ [c EXCEPT !.CTRL_REG2 = r2, !.HDA = h, !.TDA = t] \in HTSChip
           /\ [c EXCEPT !.CTRL_REG2 = r2, !.HDA = h, !.TDA = t].CTRL_REG1 = c.CTRL_REG1
           /\ [c EXCEPT !.TDA = t] \in HTSChip /\ [c EXCEPT !.TDA = t].CTRL_REG1 = c.CTRL_REG1
           /\ [c EXCEPT !.TDA = t, !.HDA = h] \in HTSChip
           /\ [c EXCEPT !.TDA = t, !.HDA = h].CTRL_REG1 = c.CTRL_REG1
  BY DEF HTSChip

\* A call of one stage.
LEMMA OneStage ==
    ASSUME HTSInv, NEW new \in HTSChip, NEW wanted \in {"on", "off", "any"}, PowerIs(new, wanted),
           Call(<<new>>, wanted)
    PROVE  HTSInv'
  <1>1. PICK stages : stages = <<new>>
    OBVIOUS
  <1>2. Len(stages) = 1 /\ DOMAIN stages = {1} /\ stages[1] = new
    BY <1>1
  <1>3. \A i \in DOMAIN stages : stages[i] \in HTSChip /\ (wanted = power => PowerIs(stages[i], power))
    BY <1>2
  <1>4. Call(stages, wanted)
    BY <1>1
  <1>5. QED
    BY <1>2, <1>3, <1>4, HTSCallKeeps

\* A call that is not about power.
LEMMA OneStageSame ==
    ASSUME HTSInv, NEW new \in HTSChip, PD \cap new.CTRL_REG1 = PD \cap hts.CTRL_REG1,
           Call(<<new>>, power)
    PROVE  HTSInv'
  <1>1. hts \in HTSChip /\ power \in {"on", "off", "any"} /\ PowerIs(hts, power)
    BY DEF HTSInv, HTSTypeOK, PowerAsAsked
  <1>2. PowerIs(new, power)
    BY <1>1, SamePower
  <1>3. QED
    BY <1>1, <1>2, OneStage

LEMMA HTSInitCallKeeps ==
    ASSUME HTSInv, HTS221_init
    PROVE  HTSInv'
  <1>1. hts \in HTSChip
    BY DEF HTSInv, HTSTypeOK
  <1>2. PICK down, bduOn, slow, stages :
            /\ down = HTS221_DeActivate(hts) /\ bduOn = AfterBdu(hts) /\ slow = setOdr(bduOn, 1)
            /\ stages = InitStages(hts)
    OBVIOUS
  <1>3. stages = <<down, bduOn, slow>>
    BY <1>2 DEF InitStages
  <1>4. down \in HTSChip /\ PowerIs(down, "off")
    BY <1>1, <1>2, SwitchFacts
  <1>5. bduOn \in HTSChip /\ PowerIs(bduOn, "off")
    BY <1>2, <1>4, BitsAreBits, PowerBitApart, PutKeeps DEF AfterBdu
  <1>6. slow \in HTSChip /\ PowerIs(slow, "off")
    BY <1>2, <1>5, RateFacts
  <1>7. Len(stages) = 3 /\ DOMAIN stages = 1 .. 3 /\ 3 \in 1 .. 3
        /\ stages[1] = down /\ stages[2] = bduOn /\ stages[3] = slow
    BY <1>3
  <1>8. \A i \in DOMAIN stages : stages[i] \in HTSChip /\ PowerIs(stages[i], "off")
    <2>1. \A i \in 1 .. 3 : i = 1 \/ i = 2 \/ i = 3
      OBVIOUS
    <2>2. QED
      BY <1>4, <1>5, <1>6, <1>7, <2>1
  <1>9. Call(stages, "off")
    BY <1>2 DEF HTS221_init
  <1>10. QED
    BY <1>7, <1>8, <1>9, HTSCallKeeps

LEMMA SetInitConfigKeeps ==
    ASSUME HTSInv, SetInitConfig
    PROVE  HTSInv'
  <1>1. hts \in HTSChip /\ power \in {"on", "off", "any"} /\ PowerIs(hts, power)
    BY DEF HTSInv, HTSTypeOK, PowerAsAsked
  <1> DEFINE Stages(a, z) ==
        <<a, [a EXCEPT !.CTRL_REG1 = z.CTRL_REG1], [z EXCEPT !.CTRL_REG3 = a.CTRL_REG3], z>>
  <1>2. PICK p \in InitParameters :
            Call(Stages(AfterAverages(hts, p), HTS221_Set_InitConfig(hts, p)), power)
    BY Zenon DEF SetInitConfig
  <1>3. PICK avg, ctrl, mask, r2, r3 :
            /\ avg = Merge(hts.AV_CONF, Avgh_et.mask \cup Avgt_et.mask, p.avg_h \cup p.avg_t)
            /\ mask = Bits(HTS221_CTRL_REG1.BDU) \cup Odr_et.mask /\ ctrl = p.odr \cup p.bdu
            /\ r2 = Merge(hts.CTRL_REG2, Bits(1), p.heater)
            /\ r3 = Merge(hts.CTRL_REG3, Bits(\hC4), Bits(NumberOf(p.irq_level) * 2^7)
                                           \cup p.irq_type \cup p.irq_enable)
    OBVIOUS
  <1>4. /\ p.avg_h \in SUBSET Bit /\ p.avg_t \in SUBSET Bit /\ p.heater \in SUBSET Bit
        /\ p.irq_type \in SUBSET Bit /\ p.irq_enable \in SUBSET Bit
        /\ ctrl \in SUBSET Bit /\ PD \cap mask = {} /\ PD \cap ctrl = {}
    <2>1. /\ p.avg_h \in {Bits(0), Bits(7)} /\ p.avg_t \in {Bits(\h18)} /\ p.odr \in {Bits(1)}
          /\ p.bdu \in {{}, Bits(HTS221_CTRL_REG1.BDU)} /\ p.heater \in {{}, Bits(HTS221_CTRL_REG2.HEATHER)}
          /\ p.irq_type \in {{}} /\ p.irq_enable \in {Bits(HTS221_CTRL_REG3.DRDY)}
      BY DEF InitParameters
    <2>2. 1 \in 1 .. 3
      OBVIOUS
    <2>3. QED
      BY <1>3, <2>1, <2>2, BitsAreBits, PowerBitApart
  <1>5. avg \in SUBSET Bit /\ r2 \in SUBSET Bit /\ r3 \in SUBSET Bit
    <2>1. /\ hts.AV_CONF \in SUBSET Bit /\ hts.CTRL_REG2 \in SUBSET Bit /\ hts.CTRL_REG3 \in SUBSET Bit
      BY <1>1 DEF HTSChip
    <2>2. PICK level : level = Bits(NumberOf(p.irq_level) * 2^7)
      OBVIOUS
    <2>3. level \subseteq Bit
      BY <2>2, BitsAreBits
    <2>4. QED
      BY <1>3, <1>4, <2>1, <2>2, <2>3 DEF Merge
  <1>6. PICK r1 : r1 = (hts.CTRL_REG1 \ mask) \cup ctrl
    OBVIOUS
  <1>7. r1 \in SUBSET Bit /\ PD \cap r1 = PD \cap hts.CTRL_REG1
    <2>1. hts.CTRL_REG1 \in SUBSET Bit
      BY <1>1 DEF HTSChip
    <2>2. QED
      BY <1>4, <1>6, <2>1
  <1>8. PICK a, z : a = AfterAverages(hts, p) /\ z = HTS221_Set_InitConfig(hts, p)
    OBVIOUS
  <1>9. a = [hts EXCEPT !.AV_CONF = avg]
    BY <1>3, <1>8, Zenon DEF AfterAverages, Put
  <1>10. a \in HTSChip /\ a.CTRL_REG1 = hts.CTRL_REG1 /\ a.CTRL_REG2 = hts.CTRL_REG2 /\ a.CTRL_REG3 = hts.CTRL_REG3
    BY <1>1, <1>5, <1>9 DEF HTSChip
  <1>11. z = [a EXCEPT !.CTRL_REG1 = r1, !.CTRL_REG2 = r2, !.CTRL_REG3 = r3]
    <2>1. z = [a EXCEPT !.CTRL_REG1 = Merge(a.CTRL_REG1, mask, ctrl), !.CTRL_REG2 = Merge(a.CTRL_REG2, Bits(1), p.heater),
                        !.CTRL_REG3 = Merge(a.CTRL_REG3, Bits(\hC4), Bits(NumberOf(p.irq_level) * 2^7)
                                           \cup p.irq_type \cup p.irq_enable)]
      BY <1>3, <1>8, Zenon DEF HTS221_Set_InitConfig
    <2>2. Merge(a.CTRL_REG1, mask, ctrl) = r1
      BY <1>6, <1>10 DEF Merge
    <2>3. Merge(a.CTRL_REG2, Bits(1), p.heater) = r2
      BY <1>3, <1>10
    <2>4. Merge(a.CTRL_REG3, Bits(\hC4), Bits(NumberOf(p.irq_level) * 2^7) \cup p.irq_type \cup p.irq_enable) = r3
      BY <1>3, <1>10
    <2>5. QED
      BY <2>1, <2>2, <2>3, <2>4
  <1>12. PICK first, second, stages :
            /\ first = [a EXCEPT !.CTRL_REG1 = z.CTRL_REG1] /\ second = [z EXCEPT !.CTRL_REG3 = a.CTRL_REG3]
            /\ stages = <<a, first, second, z>>
    OBVIOUS
  <1>13. z \in HTSChip /\ z.CTRL_REG1 = r1
    BY <1>5, <1>7, <1>10, <1>11 DEF HTSChip
  <1>14. first \in HTSChip /\ first.CTRL_REG1 = r1 /\ second \in HTSChip /\ second.CTRL_REG1 = r1
    BY <1>7, <1>10, <1>12, <1>13 DEF HTSChip
  <1>15. Len(stages) = 4 /\ DOMAIN stages = 1 .. 4 /\ 4 \in 1 .. 4
         /\ stages[1] = a /\ stages[2] = first /\ stages[3] = second /\ stages[4] = z
    BY <1>12
  <1>16. \A i \in DOMAIN stages : stages[i] \in HTSChip /\ PowerIs(stages[i], power)
    <2>1. \A i \in 1 .. 4 : i = 1 \/ i = 2 \/ i = 3 \/ i = 4
      OBVIOUS
    <2>2. \A c \in {a, first, second, z} : c \in HTSChip /\ PowerIs(c, power)
      BY <1>1, <1>7, <1>10, <1>13, <1>14, SamePower
    <2>3. QED
      BY <1>15, <2>1, <2>2
  <1>17. Call(stages, power)
    BY <1>2, <1>8, <1>12
  <1>18. QED
    BY <1>1, <1>15, <1>16, <1>17, HTSCallKeeps

LEMMA DeInitKeeps ==
    ASSUME HTSInv, DeInit
    PROVE  HTSInv'
  <1>1. hts \in HTSChip
    BY DEF HTSInv, HTSTypeOK
  <1>2. PICK d : d = HTS221_DeInit(hts)
    OBVIOUS
  <1>3. d = [hts EXCEPT !.CTRL_REG1 = hts.CTRL_REG1 \cup PD, !.CTRL_REG2 = hts.CTRL_REG2 \cup HTS_BOOT]
    BY <1>2 DEF HTS221_DeInit
  <1>4. PD \in SUBSET Bit /\ HTS_BOOT \in SUBSET Bit
    BY BitsAreBits DEF PD, HTS_BOOT
  <1>5. d \in HTSChip
    BY <1>1, <1>3, <1>4 DEF HTSChip
  <1>6. PICK first, third, stages :
            /\ first = [d EXCEPT !.CTRL_REG2 = hts.CTRL_REG2] /\ third = [d EXCEPT !.HDA = FALSE, !.TDA = FALSE]
            /\ stages = <<first, d, third>>
    OBVIOUS
  <1>7. first \in HTSChip /\ third \in HTSChip
    BY <1>1, <1>5, <1>6 DEF HTSChip
  <1>8. Len(stages) = 3 /\ DOMAIN stages = 1 .. 3 /\ 3 \in 1 .. 3
        /\ stages[1] = first /\ stages[2] = d /\ stages[3] = third
    BY <1>6
  <1>9. \A i \in DOMAIN stages : stages[i] \in HTSChip
    <2>1. \A i \in 1 .. 3 : i = 1 \/ i = 2 \/ i = 3
      OBVIOUS
    <2>2. QED
      BY <1>5, <1>7, <1>8, <2>1
  <1>10. \A c : PowerIs(c, "any")
    BY DEF PowerIs
  <1>11. Call(stages, "any")
    BY <1>2, <1>6, Zenon DEF DeInit
  <1>12. QED
    BY <1>8, <1>9, <1>10, <1>11, HTSCallKeeps

\* The chip's own steps, and a measurement, are not about its power.
LEMMA ChipStepKeeps ==
    ASSUME HTSInv, hts' \in HTSChip, hts'.CTRL_REG1 = hts.CTRL_REG1, UNCHANGED <<power, htsCalls>>
    PROVE  HTSInv'
  BY DEF HTSInv, HTSTypeOK, PowerAsAsked, PowerIs

LEMMA HTSStepKept == HTSInv /\ [HTSNext]_htsVars => HTSInv'
  <1> SUFFICES ASSUME HTSInv, [HTSNext]_htsVars PROVE HTSInv'
    OBVIOUS
  <1>0. /\ hts \in HTSChip /\ power \in {"on", "off", "any"} /\ PowerIs(hts, power)
        /\ hts.CTRL_REG2 \in SUBSET Bit /\ HTS_BOOT \in SUBSET Bit /\ ONE_SHOT \in SUBSET Bit
    BY BitsAreBits DEF HTSInv, HTSTypeOK, PowerAsAsked, HTSChip, HTS_BOOT, ONE_SHOT
  <1>1. CASE HTS221_init
    BY <1>1, HTSInitCallKeeps
  <1>2. CASE HTS221_enable
    BY <1>0, <1>2, SwitchFacts, OneStage DEF HTS221_enable
  <1>3. CASE HTS221_disable
    BY <1>0, <1>3, SwitchFacts, OneStage DEF HTS221_disable
  <1>4. CASE HTS221_reset
    <2>1. PICK r2 \in SUBSET Bit : r2 = hts.CTRL_REG2 \cup HTS_BOOT
      BY <1>0
    <2>2. Call(<<[hts EXCEPT !.CTRL_REG2 = r2]>>, power)
      BY <1>4, <2>1 DEF HTS221_reset
    <2>3. QED
      BY <1>0, <2>2, OtherRegisters, OneStageSame
  <1>5. CASE SetRate
    <2>1. PICK odr \in {1, 7, 12} : Call(<<setOdr(hts, odr)>>, power)
      BY <1>5 DEF SetRate
    <2>2. QED
      BY <1>0, <2>1, RateFacts, OneStage
  <1>6. CASE StartOneShotMeasurement
    <2>1. PICK r2 \in SUBSET Bit : r2 = hts.CTRL_REG2 \cup ONE_SHOT
      BY <1>0
    <2>2. Call(<<[hts EXCEPT !.CTRL_REG2 = r2]>>, power)
      BY <1>6, <2>1 DEF StartOneShotMeasurement
    <2>3. QED
      BY <1>0, <2>2, OtherRegisters, OneStageSame
  <1>7. CASE SetInitConfig
    BY <1>7, SetInitConfigKeeps
  <1>8. CASE DeInit
    BY <1>8, DeInitKeeps
  <1>9. CASE GetMeasurement
    BY <1>0, <1>9, OtherRegisters, ChipStepKeeps DEF GetMeasurement
  <1>10. CASE ChipConverts
    <2>1. PICK r2 \in SUBSET Bit : r2 = hts.CTRL_REG2 \ ONE_SHOT
      BY <1>0
    <2>2. hts' = [hts EXCEPT !.CTRL_REG2 = r2, !.HDA = TRUE, !.TDA = TRUE]
      BY <1>10, <2>1 DEF ChipConverts
    <2>3. hts' \in HTSChip /\ hts'.CTRL_REG1 = hts.CTRL_REG1
      BY <1>0, <2>2 DEF HTSChip
    <2>4. UNCHANGED <<power, htsCalls>>
      BY <1>10 DEF ChipConverts
    <2>5. QED
      BY <2>3, <2>4, ChipStepKeeps
  <1>11. CASE ChipBoots
    <2>1. PICK r2 \in SUBSET Bit : r2 = hts.CTRL_REG2 \ HTS_BOOT
      BY <1>0
    <2>2. hts' = [hts EXCEPT !.CTRL_REG2 = r2]
      BY <1>11, <2>1 DEF ChipBoots
    <2>3. hts' \in HTSChip /\ hts'.CTRL_REG1 = hts.CTRL_REG1
      BY <1>0, <2>2 DEF HTSChip
    <2>4. UNCHANGED <<power, htsCalls>>
      BY <1>11 DEF ChipBoots
    <2>5. QED
      BY <2>3, <2>4, ChipStepKeeps
  <1>12. CASE UNCHANGED htsVars
    BY <1>12 DEF htsVars, HTSInv, HTSTypeOK, PowerAsAsked, PowerIs
  <1>13. QED
    BY <1>1, <1>2, <1>3, <1>4, <1>5, <1>6, <1>7, <1>8, <1>9, <1>10, <1>11, <1>12, Zenon DEF HTSNext

LEMMA HTSInitInv == HTSInit => HTSInv
  <1> SUFFICES ASSUME HTSInit PROVE HTSInv
    OBVIOUS
  <1>1. PICK av : av = Bits(\h1B)
    OBVIOUS
  <1>2. av \in SUBSET Bit
    BY <1>1, BitsAreBits
  <1>3. hts = [AV_CONF |-> av, CTRL_REG1 |-> {}, CTRL_REG2 |-> {}, CTRL_REG3 |-> {}, HDA |-> FALSE, TDA |-> FALSE]
    BY <1>1 DEF HTSInit, HTS221_PowerOn
  <1>4. hts \in HTSChip /\ hts.CTRL_REG1 = {}
    BY <1>2, <1>3 DEF HTSChip
  <1>5. QED
    BY <1>4, HTSAssumption DEF HTSInit, HTSInv, HTSTypeOK, PowerAsAsked, PowerIs

\* The humidity sensor is on, or off, as the last call about its power asked.
THEOREM HTSInvariant == HTSSpec => []HTSInv
  BY HTSInitInv, HTSStepKept, PTL DEF HTSSpec

-----------------------------------------------------------------------------

LEMMA LPSInitTyped == LPSInit => LPSTypeOK
  <1> SUFFICES ASSUME LPSInit PROVE LPSTypeOK
    OBVIOUS
  <1>1. P_DA \in BOOLEAN /\ T_DA \in BOOLEAN
    BY Zenon DEF LPSInit
  <1>2. lps \in [CTRL_REG1 : SUBSET Bit, RES_CONF : SUBSET Bit]
    BY DEF LPSInit
  <1>3. QED
    BY <1>1, <1>2 DEF LPSInit, LPSTypeOK, Failed

\* The output registers come from conversions that were started.
LEMMA LPSStepKept == LPSTypeOK /\ [LPSNext]_lpsVars => LPSTypeOK'
  <1> SUFFICES ASSUME LPSTypeOK, [LPSNext]_lpsVars PROVE LPSTypeOK'
    OBVIOUS
  <1>1. ASSUME NEW c \in {"init", "deinit", "pressure", "temperature"}, LPSCall(c) PROVE LPSTypeOK'
    BY <1>1 DEF LPSTypeOK, LPSCall, chip
  <1>2. CASE LPSBusError
    BY <1>2 DEF LPSTypeOK, LPSBusError, chip, Failed
  <1>3. CASE PowerOn_LPS \/ Configure \/ Resolution \/ PowerOff
    <2>1. MODE_ACTIVE \subseteq Bit /\ LPS_ODR.ONE_SHOT \cup LPS_DIFF_EN \cup LPS_BDU \subseteq Bit
          /\ P_RES.AVG_32 \cup T_RES.AVG_32 \subseteq Bit
      BY DEF MODE_ACTIVE, LPS_ODR, LPS_DIFF_EN, LPS_BDU, P_RES, T_RES, Bits
    <2>2. lps' \in [CTRL_REG1 : SUBSET Bit, RES_CONF : SUBSET Bit]
      <3>1. CASE PowerOn_LPS
        BY <2>1, <3>1 DEF PowerOn_LPS, LPSTypeOK
      <3>2. CASE Configure
        <4>1. PICK mask, new : /\ mask = LPS_ODR.mask \cup LPS_DIFF_EN \cup LPS_BDU \cup LPS_SIM
                               /\ new = LPS_ODR.ONE_SHOT \cup LPS_DIFF_EN \cup LPS_BDU
          OBVIOUS
        <4>2. lps' = [lps EXCEPT !.CTRL_REG1 = (lps.CTRL_REG1 \ mask) \cup new]
          BY <3>2, <4>1 DEF Configure, Merge
        <4>3. QED
          BY <2>1, <4>1, <4>2 DEF LPSTypeOK
      <3>3. CASE Resolution
        <4>1. PICK mask, new : mask = P_RES.mask \cup T_RES.mask /\ new = P_RES.AVG_32 \cup T_RES.AVG_32
          OBVIOUS
        <4>2. lps' = [lps EXCEPT !.RES_CONF = (lps.RES_CONF \ mask) \cup new]
          BY <3>3, <4>1 DEF Resolution, Merge
        <4>3. QED
          BY <2>1, <4>1, <4>2 DEF LPSTypeOK
      <3>4. CASE PowerOff
        BY <2>1, <3>4 DEF PowerOff, LPSTypeOK
      <3>5. QED
        BY <1>3, <3>1, <3>2, <3>3, <3>4
    <2>3. /\ UNCHANGED <<running, P_DA, T_DA, P_OUT, T_OUT, started, call_, before>>
          /\ reading' \in {reading, 0} /\ lpsAt' \in {"configure", "resolution", "idle"}
      BY <1>3 DEF PowerOn_LPS, Configure, Resolution, PowerOff, Step
    <2>4. QED
      BY <2>2, <2>3 DEF LPSTypeOK, Failed
  <1>4. CASE Trigger \/ TriggerRaw
    <2>1. /\ UNCHANGED <<lps, P_DA, T_DA, P_OUT, T_OUT, reading, call_, before>>
          /\ lpsAt' \in {"wait", "wait_raw"}
          /\ \/ running' = started + 1 /\ started' = started + 1
             \/ UNCHANGED <<running, started>>
      BY <1>4 DEF Trigger, TriggerRaw, SetOneShot, Step
    <2>2. QED
      BY <2>1 DEF LPSTypeOK, Failed
  <1>5. CASE Wait \/ WaitRaw
    BY <1>5 DEF LPSTypeOK, Wait, WaitRaw, Step, chip
  <1>6. CASE ReadOutput
    <2>1. /\ UNCHANGED <<lps, running, P_OUT, T_OUT, started, call_, before>>
          /\ lpsAt' = "idle" /\ reading' \in {P_OUT, T_OUT}
      BY <1>6 DEF ReadOutput, Step
    <2>2. P_DA' \in BOOLEAN /\ T_DA' \in BOOLEAN
      BY <1>6, Zenon DEF ReadOutput, LPSTypeOK
    <2>3. QED
      BY <2>1, <2>2 DEF LPSTypeOK, Failed
  <1>7. CASE LPSChip
    <2>1. /\ UNCHANGED <<lpsAt, call_, lps, started, before, reading>>
          /\ running' \in {running, 0} /\ P_OUT' \in {P_OUT, running} /\ T_OUT' \in {T_OUT, running}
      BY <1>7 DEF LPSChip, ChipPressure, ChipTemperature
    <2>2. P_DA' \in BOOLEAN /\ T_DA' \in BOOLEAN
      BY <1>7, Zenon DEF LPSChip, ChipPressure, ChipTemperature, LPSTypeOK
    <2>3. QED
      BY <2>1, <2>2 DEF LPSTypeOK
  <1>8. CASE UNCHANGED lpsVars
    BY <1>8 DEF lpsVars, LPSTypeOK
  <1>9. QED
    BY <1>1, <1>2, <1>3, <1>4, <1>5, <1>6, <1>7, <1>8, Zenon DEF LPSNext, LPSThread

LEMMA BoardInitInv == BoardInit => BoardInv
  <1> SUFFICES ASSUME BoardInit PROVE BoardInv
    OBVIOUS
  <1>1. user \in [time : -MaxGap .. Infinite, since : 0 .. MaxGap, stat : BOOLEAN, lit : BOOLEAN]
    BY GapIsEnough DEF BoardInit, Infinite
  <1>2. rgb \in [time : -MaxGap .. Infinite, since : 0 .. MaxGap,
                colour : 0 .. Colours - 1, shown : Dark .. Colours - 1]
    BY GapIsEnough DEF BoardInit, Infinite, Colours, Dark
  <1>3. QED
    BY <1>1, <1>2 DEF BoardInit, BoardInv, BoardTypeOK

LEMMA BoardStepKept == BoardInv /\ [BoardNext]_boardVars => BoardInv'
  <1> SUFFICES ASSUME BoardInv, [BoardNext]_boardVars PROVE BoardInv'
    OBVIOUS
  <1> DEFINE RGB == [time : -MaxGap .. Infinite, since : 0 .. MaxGap,
                     colour : 0 .. Colours - 1, shown : Dark .. Colours - 1]
  <1> DEFINE User == [time : -MaxGap .. Infinite, since : 0 .. MaxGap, stat : BOOLEAN, lit : BOOLEAN]
  <1>0. rgb \in RGB /\ user \in User /\ MaxGap \in Nat /\ Infinite = 1000 /\ Colours = 3 /\ Dark = -1
    BY GapIsEnough DEF BoardInv, BoardTypeOK, Infinite, Colours, Dark
  <1>10. PICK T, S, C, D : /\ T = -MaxGap .. Infinite /\ S = 0 .. MaxGap
                          /\ C = 0 .. Colours - 1 /\ D = Dark .. Colours - 1
    OBVIOUS
  <1>11. RGB = [time : T, since : S, colour : C, shown : D] /\ User = [time : T, since : S, stat : BOOLEAN, lit : BOOLEAN]
    BY <1>10
  <1>12. /\ 0 \in S /\ 0 \in C /\ 0 \in D /\ Dark \in D
    BY <1>0, <1>10
  <1>13. rgb \in RGB /\ user \in User
    BY <1>0
  <1>1. CASE InitPart
    <2>1. PICK n \in 1 .. 7 : n = initAt + 1
      BY <1>1 DEF InitPart, BoardInv, BoardTypeOK
    <2>2. n # 7 => Parts[n] # "WiFi"
      BY <2>1 DEF Parts
    <2>3. /\ works' \in {works, works \cup {Parts[n]}}
          /\ \/ initResult' = PartFailed[n]
             \/ initResult' = initResult /\ Parts[n] # "WiFi"
             \/ initResult' \in {0, 1}
      BY <1>1, <2>1, Zenon DEF InitPart, initWiFi
    <2>4. Parts[7] = "WiFi"
      BY DEF Parts
    <2>5. initAt' = n /\ UNCHANGED <<rgb, user>>
      BY <1>1, <2>1 DEF InitPart
    <2>6. initResult' \in {NotReturned, 0, 1} \cup { PartFailed[i] : i \in 1 .. 7 }
      BY <2>3 DEF BoardInv, BoardTypeOK
    <2>7. works' \subseteq { Parts[i] : i \in 1 .. 7 }
      BY <2>3 DEF BoardInv, BoardTypeOK
    <2>8. initResult' = NotReturned => n # 7
      <3>1. PartFailed[7] = -100
        BY DEF PartFailed
      <3>2. QED
        BY <2>3, <2>4, <3>1 DEF NotReturned
    <2>9. QED
      BY <1>0, <2>5, <2>6, <2>7, <2>8 DEF BoardInv, BoardTypeOK
  <1>2. ASSUME rgb' \in RGB, user' \in User, UNCHANGED <<initAt, initResult, works>> PROVE BoardInv'
    BY <1>2 DEF BoardInv, BoardTypeOK
  <1>3. CASE turnOnUserLED \/ turnOffUserLED
    <2>1. /\ user' = [user EXCEPT !.lit = TRUE] \/ user' = [user EXCEPT !.lit = FALSE]
          /\ rgb' = rgb /\ UNCHANGED <<initAt, initResult, works>>
      BY <1>3 DEF turnOnUserLED, turnOffUserLED, LedCall
    <2> HIDE DEF RGB, User
    <2>2. user' \in User
      BY <1>11, <1>13, <2>1
    <2>3. QED
      BY <1>2, <1>13, <2>1, <2>2
  <1>4. CASE turnOnRGBLED \/ turnOffRGBLED
    <2>1. rgb' \in RGB /\ user' = user /\ UNCHANGED <<initAt, initResult, works>>
      BY <1>0, <1>4 DEF turnOnRGBLED, turnOffRGBLED, LedCall
    <2>2. QED
      BY <1>0, <1>2, <2>1
  <1>5. ASSUME NEW duration \in {0, 1, 5, Infinite},
               startBlinkDevKitUserLED(duration) \/ startBlinkDevKitRGBLED(duration)
        PROVE  BoardInv'
    <2>1. duration \in -MaxGap .. Infinite /\ 0 \in 0 .. MaxGap /\ 0 \in 0 .. Colours - 1 /\ 0 \in Dark .. Colours - 1
      BY <1>0
    <2>2. rgb' \in RGB
      BY <1>0, <1>5, <2>1 DEF startBlinkDevKitUserLED, startBlinkDevKitRGBLED
    <2>3. user' \in User
      <3>1. \/ user' = [time |-> duration, since |-> 0, stat |-> TRUE, lit |-> TRUE]
            \/ user' = user
        BY <1>5 DEF startBlinkDevKitUserLED, startBlinkDevKitRGBLED
      <3>2. duration \in T
        BY <1>10, <2>1
      <3> HIDE DEF RGB, User
      <3>3. CASE user' = [time |-> duration, since |-> 0, stat |-> TRUE, lit |-> TRUE]
        <4>1. QED
          BY <1>11, <1>12, <3>2, <3>3
      <3>4. QED
        BY <1>13, <3>1, <3>3
    <2>4. UNCHANGED <<initAt, initResult, works>>
      BY <1>5 DEF startBlinkDevKitUserLED, startBlinkDevKitRGBLED, LedCall
    <2>5. QED
      BY <1>2, <2>2, <2>3, <2>4
  <1>6. CASE invokeDevKitPeripheral
    <2>1. rgb' \in RGB
      <3>1. PICK left : left = Minus(rgb.time, rgb.since)
        OBVIOUS
      <3>2. rgb.time > 0 => left \in -MaxGap .. Infinite
        BY <1>0, <3>1 DEF Minus
      <3>3. PICK next : next = NextColour
        OBVIOUS
      <3>4. next \in 0 .. Colours - 1 /\ next \in Dark .. Colours - 1
        BY <1>0, <3>3 DEF NextColour
      <3>5. \/ rgb' = rgb
            \/ /\ rgb.time > 0
               /\ \/ rgb' = [rgb EXCEPT !.time = left, !.colour = next, !.shown = Dark]
                  \/ rgb' = [time |-> left, since |-> 0, colour |-> next, shown |-> next]
        BY <1>0, <1>6, <3>1, <3>3 DEF invokeDevKitPeripheral, _blinkRGBLED
      <3>6. (rgb.time > 0 => left \in T) /\ next \in C /\ next \in D
        BY <1>10, <3>2, <3>4
      <3> HIDE DEF RGB, User
      <3>7. CASE rgb.time > 0 /\ rgb' = [rgb EXCEPT !.time = left, !.colour = next, !.shown = Dark]
        BY <1>11, <1>12, <1>13, <3>6, <3>7
      <3>8. CASE rgb.time > 0 /\ rgb' = [time |-> left, since |-> 0, colour |-> next, shown |-> next]
        BY <1>11, <1>12, <3>6, <3>8
      <3>9. QED
        BY <1>13, <3>5, <3>7, <3>8
    <2>2. user' \in User
      <3>1. PICK left : left = Minus(user.time, user.since)
        OBVIOUS
      <3>2. user.time >= 0 => left \in -MaxGap .. Infinite
        BY <1>0, <3>1 DEF Minus
      <3>3. PICK stat \in BOOLEAN : stat = ~user.stat
        OBVIOUS
      <3>4. \/ user' = user
            \/ /\ user.time >= 0
               /\ \/ user' = [user EXCEPT !.time = left, !.stat = stat, !.lit = FALSE]
                  \/ user' = [time |-> left, since |-> 0, stat |-> stat, lit |-> stat]
        BY <1>0, <1>6, <3>1, <3>3 DEF invokeDevKitPeripheral, _blinkUserLED
      <3>5. user.time >= 0 => left \in T
        BY <1>10, <3>2
      <3> HIDE DEF RGB, User
      <3>6. CASE user.time >= 0 /\ user' = [user EXCEPT !.time = left, !.stat = stat, !.lit = FALSE]
        BY <1>11, <1>12, <1>13, <3>5, <3>6
      <3>7. CASE user.time >= 0 /\ user' = [time |-> left, since |-> 0, stat |-> stat, lit |-> stat]
        BY <1>11, <1>12, <3>5, <3>7
      <3>8. QED
        BY <1>13, <3>4, <3>6, <3>7
    <2>3. QED
      BY <1>2, <1>6, <2>1, <2>2 DEF invokeDevKitPeripheral
  <1>7. CASE QuarterSecond
    <2>1. rgb' \in RGB /\ user' \in User
      BY <1>0, <1>7 DEF QuarterSecond, Later
    <2>2. QED
      BY <1>2, <1>7, <2>1 DEF QuarterSecond
  <1>8. CASE UNCHANGED boardVars
    BY <1>0, <1>2, <1>8 DEF boardVars
  <1>9. QED
    BY <1>1, <1>3, <1>4, <1>5, <1>6, <1>7, <1>8 DEF BoardNext

-----------------------------------------------------------------------------

(* The components side by side.                                            *)

\* A behaviour of the bundle is one of each of its components.
LEMMA EachComponent ==
    /\ SensorsSpec => RegistersSpec
    /\ SensorsSpec => LSMSpec
    /\ SensorsSpec => HTSSpec
    /\ SensorsSpec => LPSSpec
    /\ SensorsSpec => BoardInit /\ [][BoardNext]_boardVars
    /\ SensorsSpec => ReadingSpec
  <1>1. SensorsInit => RegistersInit /\ LSMInit /\ HTSInit /\ LPSInit /\ BoardInit /\ ReadingInit
    BY Zenon DEF SensorsInit
  <1>2. UNCHANGED sensorVars => UNCHANGED <<registerVars, lsmVars, htsVars, lpsVars, boardVars, readingVars>>
    BY Zenon DEF sensorVars
  <1>3. SensorsNext =>
          /\ [RegistersNext]_registerVars /\ [LSMNext]_lsmVars /\ [HTSNext]_htsVars
          /\ [LPSNext]_lpsVars /\ [BoardNext]_boardVars /\ [ReadingNext]_readingVars
    <2> SUFFICES ASSUME SensorsNext
                 PROVE  /\ [RegistersNext]_registerVars /\ [LSMNext]_lsmVars /\ [HTSNext]_htsVars
                        /\ [LPSNext]_lpsVars /\ [BoardNext]_boardVars /\ [ReadingNext]_readingVars
      OBVIOUS
    <2>1. CASE RegistersStep
      BY <2>1 DEF RegistersStep, OtherSensors
    <2>2. CASE LSMStep
      BY <2>2 DEF LSMStep, OtherSensors
    <2>3. CASE HTSStep
      BY <2>3 DEF HTSStep, OtherSensors
    <2>4. CASE LPSStep
      BY <2>4 DEF LPSStep, OtherSensors
    <2>5. CASE BoardStep
      BY <2>5 DEF BoardStep, OtherSensors
    <2>6. CASE ReadingStep
      BY <2>6 DEF ReadingStep, OtherSensors
    <2>7. QED
      BY <2>1, <2>2, <2>3, <2>4, <2>5, <2>6 DEF SensorsNext
  <1>4. [SensorsNext]_sensorVars =>
          /\ [RegistersNext]_registerVars /\ [LSMNext]_lsmVars /\ [HTSNext]_htsVars
          /\ [LPSNext]_lpsVars /\ [BoardNext]_boardVars /\ [ReadingNext]_readingVars
    BY <1>2, <1>3
  <1>5. QED
    BY <1>1, <1>4, PTL DEF SensorsSpec, RegistersSpec, LSMSpec, HTSSpec, LPSSpec, ReadingSpec

(* The motion sensor runs at the rate and with the full scale that were    *)
(* asked for, the humidity sensor is on exactly when it was asked to be,   *)
(* and the state of every sensor is well-formed, through every order of    *)
(* calls and lost transfers.                                               *)
THEOREM SensorsAreAsAsked == SensorsSpec => []SensorsAsAsked
  <1>1. LPSSpec => []LPSTypeOK
    BY LPSInitTyped, LPSStepKept, PTL DEF LPSSpec
  <1>2. BoardInit /\ [][BoardNext]_boardVars => []BoardInv
    BY BoardInitInv, BoardStepKept, PTL
  <1>3. /\ RegistersInv => RegistersTypeOK
        /\ LSMInv => LSMTypeOK
        /\ HTSInv => HTSTypeOK /\ PowerAsAsked
        /\ BoardInv => BoardTypeOK
        /\ ReadingInv => ReadingTypeOK
    BY Zenon DEF RegistersInv, LSMInv, HTSInv, BoardInv, ReadingInv
  <1>4. /\ RegistersTypeOK /\ LSMTypeOK /\ HTSTypeOK /\ LPSTypeOK /\ BoardTypeOK /\ ReadingTypeOK
        /\ SettingsKept /\ PowerAsAsked
        => SensorsAsAsked
    BY Zenon DEF SensorsAsAsked, SensorsTypeOK
  <1>5. QED
    BY <1>1, <1>2, <1>3, <1>4, EachComponent, RegistersInvariant, LSMInvariant, SettingsAreKept,
       HTSInvariant, ReadingInvariant, PTL

=============================================================================
