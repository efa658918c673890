--------------------------- MODULE SensorReadings ---------------------------
(***************************************************************************)
(* Reading a measurement.  The drivers read an output a byte at a time     *)
(* while the chip goes on measuring, put the bytes together and convert    *)
(* them with the sensitivity or the calibration the chip reports.  Block   *)
(* data update, which every init asks for, keeps an output as it is from   *)
(* the read of its first byte to the read of its last.  A behaviour is     *)
(* about one chip; its samples are the values of a wave, chosen so that    *)
(* the bytes of two neighbours put together are neither of them.           *)
(***************************************************************************)
EXTENDS Integers, Sequences

CONSTANTS Wave,          \* values the chip measures, by bytes of the output
          Calibrations,  \* points of the HTS221's calibration: out0, out1, at0, at1
          Undefined,     \* what an output parameter no one wrote holds
          MaxReadings,   \* bound: readings in a behaviour
          MaxSamples,    \* bound: samples the chip makes
          ReadingFaults  \* bound: failed transfers

\* A wave has a value, and all its values are from low to high.
InRange(wave, low, high) ==
    wave \in Seq(Int) /\ wave # <<>> /\ \A i \in DOMAIN wave : low <= wave[i] /\ wave[i] <= high

ASSUME WavesFit ==
    /\ InRange(Wave[1], 0, 255)
    /\ InRange(Wave[2], -32768, 32767)
    /\ InRange(Wave[3], 0, 8388607)    \* the LPS22HB's range ends far below 2^23

ASSUME ReadingBounds == MaxSamples \in Nat \ {0} /\ {MaxReadings, ReadingFaults} \subseteq Nat

ASSUME SlopesAreDefined ==
    \A c \in Calibrations : {c.out0, c.out1, c.at0, c.at1} \subseteq Int /\ c.out0 # c.out1

VARIABLES measuring,     \* the chip this behaviour is about
          bdu, configured, \* its block data update, and whether an init ran to its end
          scale, cal, phase, \* full scale, calibration and start of the wave
          made, out, held, \* samples made, the sample in each output, outputs kept
          op, bytes,     \* the running call and the bytes it has read
          begin,         \* the sample in each output when the call began
          result,        \* the last call: its name, status and values
          readings, readingFaults

readingVars == <<measuring, bdu, configured, scale, cal, phase, made, out, held, op, bytes,
                 begin, result, readings, readingFaults>>
chosen == <<measuring, scale, cal, phase>>

\* A call: its chip, the outputs it reads in their order, the bytes of each.
Op(chip_, parts, width) == [chip |-> chip_, parts |-> parts, width |-> width]
XYZ == <<"X", "Y", "Z">>
Faces == <<"XL", "XH", "YL", "YH", "ZL", "ZH">>
GetRawAccData == Op("XL", XYZ, 2)
GetRawGyroData == Op("G", XYZ, 2)
LIS2MDL_M_GetAxesRaw == Op("LIS2MDL", XYZ, 2)
Get_HumidityRaw == Op("HTS221", <<"H">>, 2)
Get_TemperatureRaw == Op("HTS221", <<"T">>, 2)
Get_Measurement == Op("HTS221", <<"T", "H">>, 2)
Get_RawMeasurement == Op("HTS221", <<"H", "T">>, 2)
ReadRawPressure == Op("LPS22HB", <<"P">>, 3)
ReadRawTemperature == Op("LPS22HB", <<"T">>, 2)
R_D6D == Op("D6D", Faces, 1)
Ops ==
    [getXAxes |-> GetRawAccData, getXAxesRaw |-> GetRawAccData,
     Get_Acceleration |-> GetRawAccData,
     getGAxes |-> GetRawGyroData, getGAxesRaw |-> GetRawGyroData,
     Get_AngularRate |-> GetRawGyroData,
     getMAxes |-> LIS2MDL_M_GetAxesRaw,
     getHumidity |-> Get_HumidityRaw, Get_HumidityRaw |-> Get_HumidityRaw,
     getTemperature |-> Get_TemperatureRaw, Get_TemperatureRaw |-> Get_TemperatureRaw,
     Get_Measurement |-> Get_Measurement, Get_RawMeasurement |-> Get_RawMeasurement,
     getPressure |-> ReadRawPressure, LPS_getTemperature |-> ReadRawTemperature,
     get6dOrientation |-> R_D6D]
Chips == { Ops[o].chip : o \in DOMAIN Ops }
Channels == UNION { { Ops[o].parts[i] : i \in DOMAIN Ops[o].parts } : o \in DOMAIN Ops }

\* The driver's own conversions look at no result of a read.
IgnoresErrors == {"Get_Acceleration", "Get_AngularRate"}

Idle_ == "none"

\* The full scales of the chip.
Scales == 1 .. (IF measuring = "XL" THEN 4 ELSE IF measuring = "G" THEN 5 ELSE 1)

ReadingInit ==
    /\ measuring \in Chips
    /\ bdu = FALSE /\ configured = FALSE
    /\ scale \in Scales
    /\ cal \in (IF measuring = "HTS221" THEN Calibrations
               ELSE {CHOOSE c \in Calibrations : TRUE})
    /\ phase \in 0 .. 2
    /\ made = 1
    /\ out = [c \in Channels |-> 1] /\ held = [c \in Channels |-> FALSE] /\ begin = out
    /\ op = Idle_ /\ bytes = <<>>
    /\ result = [op |-> Idle_, status |-> 1, values |-> Undefined, sure |-> FALSE]
    /\ readings = 0 /\ readingFaults = 0

(* Bytes and units.                                                        *)

\* The k-th sample of an output of the given width, and its bytes, low first.
Sample(width, k) == Wave[width][((k + phase) % Len(Wave[width])) + 1]
Weight == <<1, 256, 65536>>
Byte(v, i) == (v \div Weight[i]) % 256

\* The bytes put together again: an int16_t, or 24 bits of a pressure.
Signed(v, half) == IF v < half THEN v ELSE v - 2 * half
Build(b) ==
    CASE Len(b) = 1 -> b[1]
      [] Len(b) = 2 -> Signed(b[1] + 256 * b[2], 32768)
      [] Len(b) = 3 -> Signed(b[1] + 256 * b[2] + 65536 * b[3], 8388608)

\* Integer division as C has it, towards zero.
Quotient(n, d) == IF n >= 0 THEN n \div d ELSE -((-n) \div d)

\* Micro-g for a digit, and eighths of a milli-degree per second for a digit,
\* by full scale: 2, 4, 8, 16 g and 125, 245, 500, 1000, 2000 dps.
XSensitivity == <<61, 122, 244, 488>>
GSensitivity == <<35, 70, 140, 280, 560>>

\* The class cuts off what is behind the point; the driver adds one half first,
\* whatever the sign, and is called with from_fifo 0.  (raw * 560 + 4) / 8 is
\* (raw * 70000 + 500) / 1000.
getXAxes(raw) == Quotient(raw * XSensitivity[scale], 1000)
getGAxes(raw) == Quotient(raw * GSensitivity[scale], 8)
Get_Acceleration(raw) == Quotient(raw * XSensitivity[scale] + 500, 1000)
Get_AngularRate(raw) == Quotient(raw * GSensitivity[scale] + 4, 8)

\* The magnetometer's digits are milli-gauss as they are.
LIS2MDL_M_GetAxes(raw) == raw

\* The barometer's digits are divided by 4096 and by 100, in a float that holds
\* them all: the digits are kept.
GetPressure(raw) == raw
GetTemperature(raw) == raw

\* The HTS221's line through its two points of calibration, in tenths; the
\* points are kept in halves of a per cent or eighths of a degree, and cut to
\* whole ones.  The sum is made in single precision: a whole number of tenths
\* may come out a little nearer to zero, and lose one.
Slope == cal.out1 - cal.out0
TenthsTimesSlope(raw, unit) ==
    LET at0 == cal.at0 \div unit
        at1 == cal.at1 \div unit
    IN  10 * ((raw - cal.out0) * (at1 - at0) + at0 * Slope)
Tenths(raw, unit) ==
    LET n == TenthsTimesSlope(raw, unit)
        t == IF Slope > 0 THEN Quotient(n, Slope) ELSE Quotient(-n, -Slope)
        nearer == IF t > 0 THEN t - 1 ELSE IF t < 0 THEN t + 1 ELSE t
    IN  IF t * Slope = n THEN {t, nearer} ELSE {t}
Get_Humidity(raw) ==
    { IF t > 1000 THEN 1000 ELSE IF t < 0 THEN 0 ELSE t : t \in Tenths(raw, 2) }
Get_Temperature(raw) == Tenths(raw, 8)

\* One bit of D6D_SRC becomes 1 or 0.  Each face has a call of its own; the
\* sketch that asks for all six makes six calls.
FaceMask(face) == CASE face = "XL" -> 1 [] face = "XH" -> 2 [] face = "YL" -> 4
                    [] face = "YH" -> 8 [] face = "ZL" -> 16 [] face = "ZH" -> 32
get6dOrientation(face, byte) == (byte \div FaceMask(face)) % 2

\* What call o may return for the value raw of output c: milli-g, milli-dps,
\* milli-gauss, tenths of a per cent or of a degree, or the digits.
Converted(o, c, raw) ==
    CASE o = "getXAxes" -> {getXAxes(raw)}
      [] o = "getGAxes" -> {getGAxes(raw)}
      [] o = "Get_Acceleration" -> {Get_Acceleration(raw)}
      [] o = "Get_AngularRate" -> {Get_AngularRate(raw)}
      [] o = "getMAxes" -> {LIS2MDL_M_GetAxes(raw)}
      [] o \in {"getHumidity", "Get_Measurement"} /\ c = "H" -> Get_Humidity(raw)
      [] o \in {"getTemperature", "Get_Measurement"} /\ c = "T" -> Get_Temperature(raw)
      [] o = "getPressure" -> {GetPressure(raw)}
      [] o = "LPS_getTemperature" -> {GetTemperature(raw)}
      [] o = "get6dOrientation" -> {get6dOrientation(c, raw)}
      [] OTHER -> {raw}

(* The chip and its callers.                                               *)

\* The chip measures.  An output that is being read keeps what it has, if block
\* data update is on.
ChipSamples ==
    /\ made < MaxSamples /\ made' = made + 1
    /\ out' = [c \in Channels |-> IF bdu /\ held[c] THEN out[c] ELSE made + 1]
    /\ UNCHANGED <<chosen, bdu, configured, held, op, bytes, begin, result, readings,
                   readingFaults>>

\* Mutation: init leaves block data update off.
SensorInit_NoBDU ==
    /\ op = Idle_ /\ ~configured
    /\ configured' = TRUE
    /\ UNCHANGED <<chosen, bdu, made, out, held, op, bytes, begin, result, readings,
                   readingFaults>>

\* The chip's init: block data update is one of the registers it writes, and a
\* transfer that fails ends it before or after that one.
SensorInit ==
    /\ op = Idle_ /\ ~configured
    /\ \/ bdu' = TRUE /\ configured' = TRUE /\ UNCHANGED readingFaults
       \/ /\ readingFaults < ReadingFaults /\ readingFaults' = readingFaults + 1
          /\ bdu' \in {bdu, TRUE} /\ UNCHANGED configured
    /\ UNCHANGED <<chosen, made, out, held, op, bytes, begin, result, readings>>

\* A call begins; the calibration and the full scale it reads on its way do not
\* change meanwhile.
ReadingCall(o) ==
    /\ op = Idle_ /\ Ops[o].chip = measuring
    /\ readings < MaxReadings /\ readings' = readings + 1
    /\ op' = o /\ bytes' = <<>> /\ begin' = out
    /\ result' = [op |-> o, status |-> 1, values |-> Undefined, sure |-> configured]
    /\ UNCHANGED <<chosen, bdu, configured, made, out, held, readingFaults>>

\* The output the next byte belongs to, and which of its bytes that is.
Width == Ops[op].width
Part == Ops[op].parts[(Len(bytes) \div Width) + 1]
Index == (Len(bytes) % Width) + 1
HeldAfterRead == [held EXCEPT ![Part] = Index < Width]

\* What the call may return for all the bytes it has read.
Returned(o, all) ==
    LET parts == Ops[o].parts
        w == Ops[o].width
        from(i) == Converted(o, parts[i], Build(SubSeq(all, (i - 1) * w + 1, i * w)))
    IN  { v \in [DOMAIN parts -> UNION { from(i) : i \in DOMAIN parts }] :
              \A i \in DOMAIN parts : v[i] \in from(i) }

\* One byte is read; after the last one the call returns.
ReadByte ==
    /\ op # Idle_
    /\ held' = HeldAfterRead
    /\ LET all == Append(bytes, Byte(Sample(Width, out[Part]), Index))
       IN  \/ /\ Len(all) < Width * Len(Ops[op].parts)
              /\ bytes' = all
              /\ UNCHANGED <<op, result>>
           \/ /\ Len(all) = Width * Len(Ops[op].parts)
              /\ bytes' = <<>> /\ op' = Idle_
              /\ \E v \in Returned(op, all) :
                     result' = [result EXCEPT !.status = 0, !.values = v]
    /\ UNCHANGED <<chosen, bdu, configured, made, out, begin, readings, readingFaults>>

\* What the sketch is left with when a call returns without having written: the
\* board's functions start a single value from zero, and axes from nothing.
Left(o) == IF Len(Ops[o].parts) = 1 THEN <<0>> ELSE Undefined

\* A transfer fails, with its byte read by the chip's count or not: the call
\* returns an error, or, in the driver's conversions, success and anything.
ReadFails ==
    /\ op # Idle_
    /\ readingFaults < ReadingFaults /\ readingFaults' = readingFaults + 1
    /\ held' \in {held, HeldAfterRead}
    /\ op' = Idle_ /\ bytes' = <<>>
    /\ result' = [result EXCEPT !.status = IF op \in IgnoresErrors THEN 0 ELSE 1,
                                !.values = Left(op)]
    /\ UNCHANGED <<chosen, bdu, configured, made, out, begin, readings>>

ReadingNext ==
    \/ ChipSamples
    \/ SensorInit
    \/ \E o \in DOMAIN Ops : ReadingCall(o)
    \/ ReadByte
    \/ ReadFails

ReadingSpec == ReadingInit /\ [][ReadingNext]_readingVars

(* Types.                                                                  *)
ReadingTypeOK ==
    /\ measuring \in Chips /\ {bdu, configured} \subseteq BOOLEAN
    /\ scale \in Scales /\ phase \in 0 .. 2 /\ (measuring = "HTS221" => cal \in Calibrations)
    /\ made \in 1 .. MaxSamples
    /\ out \in [Channels -> 1 .. made] /\ begin \in [Channels -> 1 .. made]
    /\ held \in [Channels -> BOOLEAN]
    /\ op \in DOMAIN Ops \cup {Idle_}
    /\ bytes \in Seq(0 .. 255)
    /\ DOMAIN result = {"op", "status", "values", "sure"} /\ result.status \in {0, 1}
    /\ result.op \in DOMAIN Ops \cup {Idle_} /\ result.sure \in BOOLEAN

\* v states the value raw of output c to within one of its units, on its side
\* of zero, and a humidity is a percentage.  The driver's conversions, which
\* round a negative value the wrong way, are allowed a unit and a half.
Within(v, n, d, e) == -e <= v * d - n /\ v * d - n <= e
SameSide(v, raw) == (v >= 0 /\ raw >= 0) \/ (v <= 0 /\ raw <= 0)
AbsSlope == IF Slope > 0 THEN Slope ELSE -Slope
TenthsTimesAbs(raw, unit) ==
    IF Slope > 0 THEN TenthsTimesSlope(raw, unit) ELSE -TenthsTimesSlope(raw, unit)
States(v, o, c, raw) ==
    CASE o = "getXAxes" -> SameSide(v, raw) /\ Within(v, raw * XSensitivity[scale], 1000, 999)
      [] o = "getGAxes" -> SameSide(v, raw) /\ Within(v, raw * GSensitivity[scale], 8, 7)
      [] o = "Get_Acceleration" ->
             SameSide(v, raw) /\ Within(v, raw * XSensitivity[scale], 1000, 1499)
      [] o = "Get_AngularRate" -> SameSide(v, raw) /\ Within(v, raw * GSensitivity[scale], 8, 11)
      [] o \in {"getHumidity", "Get_Measurement"} /\ c = "H" ->
             LET n == TenthsTimesAbs(raw, 2)
             IN  /\ 0 <= v /\ v <= 1000
                 /\ \/ Within(v, n, AbsSlope, AbsSlope)
                    \/ v = 0 /\ n < 0
                    \/ v = 1000 /\ n > 1000 * AbsSlope
      [] o \in {"getTemperature", "Get_Measurement"} /\ c = "T" ->
             Within(v, TenthsTimesAbs(raw, 8), AbsSlope, AbsSlope)
      [] o = "get6dOrientation" -> v = IF (raw \div FaceMask(c)) % 2 = 1 THEN 1 ELSE 0
      [] OTHER -> v = raw

(* Once a chip's init has run to its end, what a reading returns as success *)
(* is true: every axis states one sample the chip made, the one its output *)
(* held when the call began or a later one, and never the low byte of one  *)
(* sample with the high byte of the next, however the chip's samples,      *)
(* earlier calls that broke off half-way and the bytes of this call fall.  *)
ReadingsTrue ==
    result.status = 0 /\ result.sure =>
        \/ result.op \in IgnoresErrors /\ result.values = Undefined
        \/ LET o == Ops[result.op]
           IN  \A i \in DOMAIN o.parts :
                   \E k \in begin[o.parts[i]] .. made :
                       States(result.values[i], result.op, o.parts[i], Sample(o.width, k))

(* The inductive invariant behind it.  A call that runs has the bytes of   *)
(* one sample of each output it is through with; the output it is in the   *)
(* middle of is held, and the bytes read are those of the sample in it.    *)
BytesOf(width, k, from, n) == \A j \in 1 .. n : bytes[from + j] = Byte(Sample(width, k), j)
ReadWhole ==
    \A i \in 1 .. Len(bytes) \div Width :
        \E k \in begin[Ops[op].parts[i]] .. made : BytesOf(Width, k, (i - 1) * Width, Width)
ReadInPart ==
    Index > 1 => held[Part] /\ BytesOf(Width, out[Part], Len(bytes) - (Index - 1), Index - 1)
Reading ==
    op # Idle_ =>
        /\ Ops[op].chip = measuring /\ result.op = op /\ result.status = 1
        /\ Len(bytes) < Width * Len(Ops[op].parts)
        /\ result.sure => bdu /\ ReadWhole /\ ReadInPart
ReadingInv ==
    /\ ReadingTypeOK
    /\ configured => bdu
    /\ \A c \in Channels : begin[c] <= out[c]
    /\ Reading
    /\ result.status = 0 => result.op \in DOMAIN Ops
    /\ ReadingsTrue

=============================================================================
