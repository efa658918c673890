--------------------------- MODULE LSM6DSLSensor ---------------------------
(***************************************************************************)
(* The motion sensor as the sketch sees it: the LSM6DSLSensor object over  *)
(* the register accessors of its driver.  A call is a list of register     *)
(* accesses made one after the other by the only thread that uses the      *)
(* sensor.  An access may fail, with its byte in the chip or not: most     *)
(* lists end there and the call returns an error, but inside               *)
(* W_PedoThreshold results are ignored and the list goes on.               *)
(***************************************************************************)
EXTENDS LSM6DSLAccessors

CONSTANTS LSMRates,     \* the rates a sketch asks for
          XScales,      \* the full scales it asks for, in g
          GScales,      \* and in dps
          LSMCalls,     \* bound: calls in a behaviour
          LSMFaults     \* bound: failed accesses of the bus

ASSUME LSMAssumption ==
    /\ LSMRates \subseteq Nat /\ XScales \subseteq Nat /\ GScales \subseteq Nat
    /\ LSMCalls \in Nat /\ LSMFaults \in Nat

VARIABLES lsm,          \* the chip's registers, each a byte
          device,       \* the object: for "x" and "g", is_enabled and last_odr
          asked,        \* for "x" and "g", the rate and full scale last asked for
          detection,    \* for each detection, "on", "off" or "any"
          lsmCalls, lsmFaults

lsmVars == <<lsm, device, asked, detection, lsmCalls, lsmFaults>>

Axes == {"x", "g"}
Unknown == -1

LSMRegister ==
    {"FUNC_CFG_ACCESS", "CONFIG_PEDO_THS_MIN", "FIFO_CTRL5", "INT1_CTRL", "CTRL1_XL", "CTRL2_G",
     "CTRL3_C", "CTRL10_C", "TAP_CFG1", "TAP_THS_6D", "INT_DUR2", "WAKE_UP_THS", "WAKE_UP_DUR",
     "FREE_FALL", "MD1_CFG", "MD2_CFG"}

(* Accesses.                                                               *)

\* The setter of field f stores the bits of n, in one step for each register.
To(f, n) ==
    [i \in DOMAIN f.order |->
        [reg |-> f.order[i], mask |-> f.mask[f.order[i]],
         bits |-> Bits(n) \cap f.mask[f.order[i]], checked |-> TRUE]]

On(f) == To(f, 255)
Off(f) == To(f, 0)

\* W_FF_Duration: five bits in FREE_FALL, the sixth in WAKE_UP_DUR.
W_FF_Duration(n) ==
    LET parts == To(FF_Duration, 0)
    IN  <<[parts[1] EXCEPT !.bits = Coerced(\hF8, 3, n % 32)],
          [parts[2] EXCEPT !.bits = Coerced(\h80, 7, (n \div 32) % 2)]>>

\* W_PedoThreshold opens the page of the embedded functions, stores five bits
\* there and closes it again; no result is looked at.
Unchecked(steps) == [i \in DOMAIN steps |-> [steps[i] EXCEPT !.checked = FALSE]]
W_PedoThreshold(n) ==
    Unchecked(On(EmbeddedAccess)
              \o <<[reg |-> "CONFIG_PEDO_THS_MIN", mask |-> Bits(\h1F), bits |-> Bits(n % 32),
                    checked |-> FALSE]>>
              \o Off(EmbeddedAccess))

\* While that page is open the chip has other registers at most addresses: a
\* write meant for a register of the page that is closed changes none of ours.
PageOpen(c) == EMB_ACC_t.mask \subseteq c.FUNC_CFG_ACCESS
Reaches(c, reg) ==
    \/ reg = "FUNC_CFG_ACCESS"
    \/ PageOpen(c) <=> (reg \in DOMAIN EmbeddedAddress)

Access(c, s) ==
    IF Reaches(c, s.reg) THEN [c EXCEPT ![s.reg] = Merge(@, s.mask, s.bits)] ELSE c

\* The chip after the first n of the steps, without the step at skip.
After(c, steps, n, skip) ==
    LET chipAt[i \in 0 .. n] ==
            IF i = 0 THEN c
            ELSE IF i = skip THEN chipAt[i - 1] ELSE Access(chipAt[i - 1], steps[i])
    IN  chipAt[n]

(* Rates and scales.                                                       *)

Rates == <<13, 26, 52, 104, 208, 416, 833, 1660, 3330, 6660>>

\* The member of the enumeration for a rate: the first that is fast enough.
RateCode(odr) ==
    IF odr > 3330 THEN 10 ELSE CHOOSE i \in 1 .. 9 : odr <= Rates[i] /\ (i = 1 \/ odr > Rates[i - 1])

OdrField(a) == IF a = "x" THEN ODR_XL ELSE ODR_G

\* setXOdrWhenEnabled and setGOdrWhenEnabled.
setOdrWhenEnabled(a, odr) == To(OdrField(a), RateCode(odr) * 16)

\* setXOdrWhenDisabled and setGOdrWhenDisabled: a rate that can be set later.
setOdrWhenDisabled(odr) == Rates[RateCode(odr)]

\* getXOdr and getGOdr: 0 is power down.
OdrCode(c, a) == NumberOf(Masked(c[OdrField(a).order[1]], OdrField(a).mask[OdrField(a).order[1]])) \div 16
getOdr(c, a) == IF OdrCode(c, a) = 0 THEN 0 ELSE Rates[OdrCode(c, a)]

\* setXOdr is either a write or an assignment.
OdrSteps(a, odr) == IF device[a].is_enabled THEN setOdrWhenEnabled(a, odr) ELSE <<>>
Remember(a, odr) ==
    IF device[a].is_enabled THEN device
    ELSE [device EXCEPT ![a].last_odr = setOdrWhenDisabled(odr)]

\* setXFullScale and setGFullScale: 125 dps has a bit of its own.
setXFullScale(g) == To(FS_XL, IF g <= 2 THEN 0 ELSE IF g <= 4 THEN 8 ELSE IF g <= 8 THEN 12 ELSE 4)
setGFullScale(dps) ==
    IF dps <= 125 THEN On(FS_125)
    ELSE Off(FS_125)
         \o To(FS_G, IF dps <= 245 THEN 0 ELSE IF dps <= 500 THEN 4 ELSE IF dps <= 1000 THEN 8 ELSE 12)

FullScaleSteps(a, scale) == IF a = "x" THEN setXFullScale(scale) ELSE setGFullScale(scale)

\* getXFullScale and getGFullScale.
XScale == [n \in {0, 4, 8, 12} |-> CASE n = 0 -> 2 [] n = 8 -> 4 [] n = 12 -> 8 [] n = 4 -> 16]
GScale == [n \in {0, 4, 8, 12} |-> CASE n = 0 -> 245 [] n = 4 -> 500 [] n = 8 -> 1000 [] n = 12 -> 2000]
getFullScale(c, a) ==
    IF a = "x" THEN XScale[NumberOf(Masked(c.CTRL1_XL, CTRL1_XL_t.FS_XL.mask))]
    ELSE IF FS_125_t.mask \subseteq c.CTRL2_G THEN 125
    ELSE GScale[NumberOf(Masked(c.CTRL2_G, CTRL2_G_t.FS_G.mask))]

\* getXSensitivity and getGSensitivity: millionths of a g or a dps for a digit.
Sensitivity(scale) ==
    CASE scale = 2 -> 61 [] scale = 4 -> 122 [] scale = 8 -> 244 [] scale = 16 -> 488
      [] scale = 125 -> 4375 [] scale = 245 -> 8750 [] scale = 500 -> 17500
      [] scale = 1000 -> 35000 [] scale = 2000 -> 70000
getSensitivity(c, a) == Sensitivity(getFullScale(c, a))

(* Calls.                                                                  *)

Detections == {"freefall", "wakeup", "singletap", "doubletap", "sixd", "pedometer", "tilt"}

\* What each detection needs besides its route to an interrupt pin.
Taps == {"singletap", "doubletap"}
Embedded == {"pedometer", "tilt"}
SameBlock(d, e) == (d \in Embedded) <=> (e \in Embedded)

Routes ==
    [freefall |-> <<FFEvOnInt1, FFEvOnInt2>>, wakeup |-> <<WUEvOnInt1, WUEvOnInt2>>,
     singletap |-> <<SingleTapOnInt1, SingleTapOnInt2>>, doubletap |-> <<TapEvOnInt1, TapEvOnInt2>>,
     sixd |-> <<D6EvOnInt1, D6EvOnInt2>>, pedometer |-> <<STEP_DET_on_INT1>>,
     tilt |-> <<TiltEvOnInt1, TiltEvOnInt2>>]

enableFreeFallDetection ==
    To(FS_XL, 0) \o W_FF_Duration(6) \o To(WAKE_DUR, 0) \o To(TIMER_HR, 0) \o To(SLEEP_DUR, 0)
    \o To(FF_THS, 3) \o On(BASIC_INT)
disableFreeFallDetection ==
    Off(FFEvOnInt1) \o Off(FFEvOnInt2) \o Off(BASIC_INT) \o W_FF_Duration(0) \o To(FF_THS, 0)

enableWakeUpDetection == setXFullScale(2) \o To(WAKE_DUR, 0) \o To(WK_THS, 2) \o On(BASIC_INT)
disableWakeUpDetection ==
    Off(WUEvOnInt1) \o Off(WUEvOnInt2) \o Off(BASIC_INT) \o To(WAKE_DUR, 0) \o To(WK_THS, 0)

TapAxesOn == On(TAP_X_EN) \o On(TAP_Y_EN) \o On(TAP_Z_EN)
TapAxesOff == Off(TAP_Z_EN) \o Off(TAP_Y_EN) \o Off(TAP_X_EN)
enableSingleTapDetection ==
    setXFullScale(2) \o TapAxesOn \o To(TAP_THS, 8) \o To(SHOCK_Duration, 2)
    \o To(QUIET_Duration, 4) \o On(BASIC_INT)
disableSingleTapDetection ==
    Off(SingleTapOnInt1) \o Off(SingleTapOnInt2) \o Off(BASIC_INT) \o To(TAP_THS, 0)
    \o To(SHOCK_Duration, 0) \o To(QUIET_Duration, 0) \o TapAxesOff
enableDoubleTapDetection ==
    setXFullScale(2) \o TapAxesOn \o To(TAP_THS, 8) \o To(SHOCK_Duration, 3)
    \o To(QUIET_Duration, 12) \o To(DUR, \h80) \o On(SINGLE_DOUBLE_TAP_EV) \o On(BASIC_INT)
disableDoubleTapDetection ==
    Off(TapEvOnInt1) \o Off(TapEvOnInt2) \o Off(BASIC_INT) \o To(TAP_THS, 0)
    \o To(SHOCK_Duration, 0) \o To(QUIET_Duration, 0) \o To(DUR, 0) \o Off(SINGLE_DOUBLE_TAP_EV)
    \o TapAxesOff

enable6dOrientation == setXFullScale(2) \o To(SIXD_THS, \h40) \o On(BASIC_INT)
disable6dOrientation ==
    Off(D6EvOnInt1) \o Off(D6EvOnInt2) \o Off(BASIC_INT) \o To(SIXD_THS, 0)

enablePedometer == setXFullScale(2) \o W_PedoThreshold(\h17) \o On(FUNC_EN) \o On(PEDO)
disablePedometer ==
    Off(STEP_DET_on_INT1) \o Off(PEDO) \o Off(FUNC_EN) \o W_PedoThreshold(0)

enableTiltDetection == setXFullScale(2) \o On(FUNC_EN) \o On(TILT)
disableTiltDetection == Off(TiltEvOnInt1) \o Off(TiltEvOnInt2) \o Off(TILT) \o Off(FUNC_EN)

EnableSteps ==
    [freefall |-> enableFreeFallDetection, wakeup |-> enableWakeUpDetection,
     singletap |-> enableSingleTapDetection, doubletap |-> enableDoubleTapDetection,
     sixd |-> enable6dOrientation, pedometer |-> enablePedometer, tilt |-> enableTiltDetection]
DisableSteps ==
    [freefall |-> disableFreeFallDetection, wakeup |-> disableWakeUpDetection,
     singletap |-> disableSingleTapDetection, doubletap |-> disableDoubleTapDetection,
     sixd |-> disable6dOrientation, pedometer |-> disablePedometer, tilt |-> disableTiltDetection]
DetectionRate == [d \in Detections |-> IF d \in Embedded THEN 26 ELSE 416]

\* A call makes its accesses in order.  On success the object, the settings
\* asked for and the detections are as given.  A failure reported at step i
\* leaves the object as failed[i]; nothing is known then of what the call was to
\* change, nor of the axes it switches, nor of anything after a call made while
\* the page of the embedded functions is open.
Nothing == [odr |-> Unknown, scale |-> Unknown]

Known(settings, detected) ==
    IF PageOpen(lsm) \/ PageOpen(lsm')
    THEN asked' = [a \in Axes |-> Nothing] /\ detection' = [d \in Detections |-> "any"]
    ELSE asked' = settings /\ detection' = detected

Perform(steps, success, failed, settings, detected, switched) ==
    /\ lsmCalls < LSMCalls /\ lsmCalls' = lsmCalls + 1
    /\ \/ /\ lsm' = After(lsm, steps, Len(steps), 0)
          /\ device' = success
          /\ Known(settings, detected)
          /\ UNCHANGED lsmFaults
       \/ \E i \in DOMAIN steps, late \in BOOLEAN :
            /\ lsmFaults < LSMFaults /\ lsmFaults' = lsmFaults + 1
            /\ \/ /\ steps[i].checked
                  /\ lsm' = After(lsm, steps, IF late THEN i ELSE i - 1, 0)
                  /\ device' = failed[i]
                  /\ Known([a \in Axes |-> IF a \in switched \/ settings[a] # asked[a]
                                            THEN Nothing ELSE asked[a]],
                           [d \in Detections |-> IF detected[d] # detection[d]
                                                  THEN "any" ELSE detection[d]])
               \/ /\ ~steps[i].checked
                  /\ lsm' = After(lsm, steps, Len(steps), IF late THEN 0 ELSE i)
                  /\ device' = success
                  /\ Known(settings, detected)

\* The object is not touched when a call fails.
Same(steps) == [i \in DOMAIN steps |-> device]

\* LSM6DSLSensor::init.  Its detections are left as they are.
InitSteps ==
    On(IF_Addr_Incr) \o On(BDU) \o To(FIFO_MODE, 0) \o To(ODR_XL, 0) \o setXFullScale(2)
    \o To(ODR_G, 0) \o setGFullScale(2000)
LSM_init ==
    Perform(InitSteps, [a \in Axes |-> [is_enabled |-> FALSE, last_odr |-> 104]], Same(InitSteps),
            [x |-> [odr |-> 104, scale |-> 2], g |-> [odr |-> 104, scale |-> 2000]], detection, Axes)

\* enableAccelerator and enableGyroscope.
LSM_enable(a) ==
    /\ ~device[a].is_enabled
    /\ LET steps == setOdrWhenEnabled(a, device[a].last_odr)
       IN  Perform(steps, [device EXCEPT ![a].is_enabled = TRUE], Same(steps), asked, detection, {a})

\* Mutation: the rate is not saved before the power-down.
LSM_disable_RateLost(a) ==
    /\ device[a].is_enabled
    /\ Perform(To(OdrField(a), 0), [device EXCEPT ![a].is_enabled = FALSE], <<device>>, asked,
               detection, {a})

\* disableAccelerator and disableGyroscope: the rate is read, then the power
\* goes down.
ReadOdr(a) == [To(OdrField(a), 0) EXCEPT ![1].mask = {}]
ReadAndPowerDown(a) == ReadOdr(a) \o To(OdrField(a), 0)
LSM_disable(a) ==
    /\ device[a].is_enabled
    /\ LET saved == [device EXCEPT ![a].last_odr = getOdr(lsm, a)]
       IN  Perform(ReadAndPowerDown(a), [saved EXCEPT ![a].is_enabled = FALSE],
                   <<device, saved>>, asked, detection, {a})

LSM_setOdr(a, odr) ==
    Perform(OdrSteps(a, odr), Remember(a, odr), Same(OdrSteps(a, odr)),
            [asked EXCEPT ![a].odr = odr], detection, {})

LSM_setFullScale(a, scale) ==
    LET steps == FullScaleSteps(a, scale)
    IN  Perform(steps, device, Same(steps), [asked EXCEPT ![a].scale = scale], detection, {})

\* The detections set the accelerometer's rate and scale for themselves.
EnableList(odrSteps, d, pin) == odrSteps \o EnableSteps[d] \o On(Routes[d][pin])
EnableDetection(d, pin) ==
    LET steps == EnableList(OdrSteps("x", DetectionRate[d]), d, pin)
    IN  Perform(steps, Remember("x", DetectionRate[d]),
                [i \in DOMAIN steps |-> Remember("x", DetectionRate[d])],
                [asked EXCEPT !.x = [odr |-> DetectionRate[d], scale |-> 2]],
                [detection EXCEPT ![d] = "on"], {})

\* Mutation: the second pin stays routed.
DisableDetection_Int1Only(d) ==
    LET all == DisableSteps[d]
        steps == IF Len(Routes[d]) = 1 THEN all ELSE <<all[1]>> \o SubSeq(all, 3, Len(all))
    IN  Perform(steps, device, Same(steps), asked, [detection EXCEPT ![d] = "off"], {})

\* Disabling one detection also switches off what others of its block need.
DisableDetection(d) ==
    Perform(DisableSteps[d], device, Same(DisableSteps[d]), asked,
            [e \in Detections |-> IF e = d THEN "off"
                                  ELSE IF SameBlock(d, e) /\ detection[e] = "on" THEN "any"
                                  ELSE detection[e]], {})

\* The thresholds and times, and resetStepCounter.
setTapParameters ==
    {To(TAP_THS, \h1F), To(SHOCK_Duration, 3), To(QUIET_Duration, 12), To(DUR, \hF0)}
resetStepCounter == On(PedoStepReset) \o Off(PedoStepReset)
setFreeFallThreshold == To(FF_THS, 7)
setPedometerThreshold == W_PedoThreshold(\h1F)
setWakeUpThreshold == To(WK_THS, \h3F)
ParameterLists ==
    {setFreeFallThreshold, setPedometerThreshold, setWakeUpThreshold, resetStepCounter}
    \cup setTapParameters
SetParameter ==
    \E steps \in ParameterLists :
        Perform(steps, device, Same(steps), asked, detection, {})

\* The object is allocated without being initialised; the chip has just been
\* powered.
LSMInit ==
    /\ lsm = [r \in LSMRegister |-> {}]
    /\ device \in [Axes -> [is_enabled : BOOLEAN, last_odr : {0}]]
    /\ asked = [a \in Axes |-> Nothing]
    /\ detection = [d \in Detections |-> "off"]
    /\ lsmCalls = 0 /\ lsmFaults = 0

LSMNext ==
    \/ LSM_init
    \/ \E a \in Axes : LSM_enable(a) \/ LSM_disable(a)
    \/ \E a \in Axes, odr \in LSMRates : LSM_setOdr(a, odr)
    \/ \E scale \in XScales : LSM_setFullScale("x", scale)
    \/ \E scale \in GScales : LSM_setFullScale("g", scale)
    \/ \E d \in Detections : \E pin \in DOMAIN Routes[d] : EnableDetection(d, pin)
    \/ \E d \in Detections : DisableDetection(d)
    \/ SetParameter

LSMSpec == LSMInit /\ [][LSMNext]_lsmVars

(* Types.                                                                  *)
LSMChips == [LSMRegister -> SUBSET Bit]
Device == [is_enabled : BOOLEAN, last_odr : Nat]
Setting == [odr : Nat \cup {Unknown}, scale : Nat \cup {Unknown}]
LSMTypeOK ==
    /\ lsm \in LSMChips
    /\ device \in [Axes -> Device] /\ asked \in [Axes -> Setting]
    /\ detection \in [Detections -> {"on", "off", "any"}]
    /\ lsmCalls \in 0 .. LSMCalls /\ lsmFaults \in 0 .. LSMFaults

\* The slowest rate that is fast enough.
Fastest(odr) == IF odr > 6660 THEN 6660 ELSE CHOOSE r \in { Rates[i] : i \in 1 .. 10 } :
                    r >= odr /\ \A i \in 1 .. 10 : Rates[i] >= odr => r <= Rates[i]

\* The full scales of the chip, and the smallest that is large enough.
FullScales(a) == IF a = "x" THEN {2, 4, 8, 16} ELSE {125, 245, 500, 1000, 2000}
Covering(a, scale) ==
    LET enough == { t \in FullScales(a) : t >= scale }
    IN  IF enough = {} THEN IF a = "x" THEN 16 ELSE 2000
        ELSE CHOOSE t \in enough : \A u \in enough : t <= u

(* A sensor that is enabled runs at the slowest rate that is fast enough   *)
(* for what was last asked for, and one that is disabled will when it is   *)
(* enabled again; its full scale is the smallest that covers the one last   *)
(* asked for, and its readings are scaled by it.  Disabling and enabling,  *)
(* the detections and the other sensor change neither.                     *)
SettingsKept ==
    \A a \in Axes :
        /\ asked[a].odr # Unknown =>
              (IF device[a].is_enabled THEN getOdr(lsm, a) ELSE device[a].last_odr)
                  = Fastest(asked[a].odr)
        /\ asked[a].scale # Unknown =>
              /\ getFullScale(lsm, a) = Covering(a, asked[a].scale)
              /\ getSensitivity(lsm, a) * 33 >= 1000 * getFullScale(lsm, a)
              /\ getSensitivity(lsm, a) * 33 <= 1200 * getFullScale(lsm, a)

\* getEventStatus reports what has happened, if it is routed to a pin.
Holds(c, f) == \A r \in DOMAIN f.mask : f.mask[r] \subseteq c[r]
getEventStatus(c, happened) ==
    { d \in happened : \E pin \in DOMAIN Routes[d] : Holds(c, Routes[d][pin]) }

\* What a detection needs to raise its interrupt, besides a route to a pin.
Needs(d) ==
    IF d \in Embedded THEN {FUNC_EN, IF d = "tilt" THEN TILT ELSE PEDO}
    ELSE {BASIC_INT} \cup (IF d \in Taps THEN {TAP_X_EN, TAP_Y_EN, TAP_Z_EN} ELSE {})

(* A detection that was enabled, with no other of its block disabled       *)
(* since, has all it needs to raise its interrupt and is reported; one     *)
(* that was disabled is not, on whichever pins it was enabled before.      *)
DetectionsHonest ==
    \A d \in Detections :
        /\ detection[d] = "off" => d \notin getEventStatus(lsm, Detections)
        /\ detection[d] = "on" =>
              /\ d \in getEventStatus(lsm, Detections)
              /\ \A f \in Needs(d) : Holds(lsm, f)

(* Why they hold.  A step also says what a register is to hold: Has(c, s). *)
(* A list keeps that, if each of its steps leaves those bits or stores     *)
(* them again; and it establishes it, if one of its steps stores them, no  *)
(* later one undoes it, and the page is known to be closed at that step    *)
(* because it is closed before or after the call and not touched between.  *)

Has(c, s) == Masked(c[s.reg], s.mask) = s.bits
Agrees(step, s) == step.reg = s.reg => (s.bits \ step.mask) \cup (step.bits \cap s.mask) = s.bits
Keeps(steps, s) == \A i \in DOMAIN steps : Agrees(steps[i], s)
Establishes(steps, s) ==
    \E j \in DOMAIN steps :
        /\ steps[j].checked /\ steps[j].reg = s.reg /\ s.mask \subseteq steps[j].mask
        /\ steps[j].bits \cap s.mask = s.bits
        /\ \A i \in DOMAIN steps : i > j => Agrees(steps[i], s)
        /\ \/ \A i \in DOMAIN steps : i < j => steps[i].reg # "FUNC_CFG_ACCESS"
           \/ \A i \in DOMAIN steps : i > j => steps[i].reg # "FUNC_CFG_ACCESS"

\* What the registers are to hold: of a field, of a rate, of a full scale.
IsOn(f) == On(f)[1]
IsOff(f) == Off(f)[1]
IsRate(a, code) == To(OdrField(a), code * 16)[1]
IsScale(a, scale) == { FullScaleSteps(a, scale)[i] : i \in DOMAIN FullScaleSteps(a, scale) }
ScalesOf(a) == UNION { IsScale(a, scale) : scale \in FullScales(a) }
RatesOf(a) == { IsRate(a, code) : code \in 0 .. 10 }
SettingsOf(a) == RatesOf(a) \cup ScalesOf(a)
RouteFields(d) == { Routes[d][pin] : pin \in DOMAIN Routes[d] }
DetectionFields == UNION { RouteFields(d) \cup Needs(d) : d \in Detections }

\* The lists of every call.
RateLists(a) == { To(OdrField(a), code * 16) : code \in 1 .. 10 }
ScaleLists(a) == { FullScaleSteps(a, scale) : scale \in FullScales(a) }
EnableLists(d) ==
    { EnableList(odr, d, pin) :
        odr \in {<<>>, setOdrWhenEnabled("x", DetectionRate[d])}, pin \in DOMAIN Routes[d] }
SettingLists ==
    {<<>>, InitSteps}
    \cup UNION { RateLists(a) \cup ScaleLists(a) \cup {ReadAndPowerDown(a)} : a \in Axes }
StepLists ==
    SettingLists \cup ParameterLists \cup { DisableSteps[d] : d \in Detections }
    \cup UNION { EnableLists(d) : d \in Detections }

Steps == [reg : LSMRegister, mask : SUBSET Bit, bits : SUBSET Bit, checked : BOOLEAN]
Standing(s) ==
    /\ s \in Steps /\ s.reg # "FUNC_CFG_ACCESS" /\ s.reg \notin DOMAIN EmbeddedAddress

\* The lists are of steps, and every field is bits of one register, in which its
\* setter stores what its getter finds.
ListsOfSteps == \A steps \in StepLists : steps \in Seq(Steps)
SettingsStanding == \A a \in Axes : \A s \in SettingsOf(a) : Standing(s)
FieldsOfBits ==
    \A f \in DetectionFields :
        /\ DOMAIN f.mask = {IsOn(f).reg} /\ f.mask[IsOn(f).reg] # {}
        /\ Standing(IsOn(f)) /\ IsOn(f).mask = f.mask[IsOn(f).reg] /\ IsOn(f).bits = IsOn(f).mask
        /\ Standing(IsOff(f)) /\ IsOff(f).reg = IsOn(f).reg /\ IsOff(f).mask = IsOn(f).mask
        /\ IsOff(f).bits = {}
RatesDecoded ==
    \A a \in Axes, code \in 0 .. 10 :
        /\ IsRate(a, code).reg = OdrField(a).order[1]
        /\ IsRate(a, code).mask = OdrField(a).mask[OdrField(a).order[1]]
        /\ NumberOf(IsRate(a, code).bits) \div 16 = code
XScalesDecoded ==
    \A scale \in FullScales("x") : \E s \in IsScale("x", scale) :
        s.reg = "CTRL1_XL" /\ s.mask = CTRL1_XL_t.FS_XL.mask /\ XScale[NumberOf(s.bits)] = scale
GScalesDecoded ==
    \A scale \in FullScales("g") :
        /\ \E s \in IsScale("g", scale) :
              /\ s.reg = "CTRL2_G" /\ s.mask = FS_125_t.mask /\ s.mask # {}
              /\ s.bits = IF scale = 125 THEN s.mask ELSE {}
        /\ scale # 125 => \E s \in IsScale("g", scale) :
              s.reg = "CTRL2_G" /\ s.mask = CTRL2_G_t.FS_G.mask /\ GScale[NumberOf(s.bits)] = scale
PowerOnIsClear == EMB_ACC_t.mask # {} /\ \A a \in Axes : IsRate(a, 0).bits = {}
ASSUME StepsFit ==
    /\ ListsOfSteps /\ SettingsStanding /\ FieldsOfBits /\ PowerOnIsClear
    /\ RatesDecoded /\ XScalesDecoded /\ GScalesDecoded

\* What each list does to the rates and full scales: one of a rate or a scale
\* stores it and keeps the other settings of both axes, and so on.
OtherAxis(a) == IF a = "x" THEN "g" ELSE "x"
RateStored ==
    \A a \in Axes, code \in 1 .. 10 :
        LET steps == To(OdrField(a), code * 16)
        IN  /\ Establishes(steps, IsRate(a, code)) /\ Keeps(steps, IsRate(a, code))
            /\ \A s \in SettingsOf(OtherAxis(a)) \cup ScalesOf(a) : Keeps(steps, s)
ScaleStored ==
    \A a \in Axes : \A scale \in FullScales(a) :
        LET steps == FullScaleSteps(a, scale)
        IN  /\ \A s \in IsScale(a, scale) : Establishes(steps, s) /\ Keeps(steps, s)
            /\ \A s \in SettingsOf(OtherAxis(a)) \cup RatesOf(a) : Keeps(steps, s)
PowerDownKeeps ==
    \A a \in Axes :
        /\ Len(ReadAndPowerDown(a)) = 2
        /\ \A s \in SettingsOf(OtherAxis(a)) \cup ScalesOf(a) : Keeps(ReadAndPowerDown(a), s)
InitStores == \A s \in IsScale("x", 2) \cup IsScale("g", 2000) : Establishes(InitSteps, s)
OthersKeepSettings ==
    \A steps \in ParameterLists \cup {<<>>} \cup { DisableSteps[d] : d \in Detections } :
        \A a \in Axes : \A s \in SettingsOf(a) : Keeps(steps, s)
EnablesStore ==
    \A d \in Detections :
        LET rate == IsRate("x", RateCode(DetectionRate[d]))
        IN  /\ \A steps \in EnableLists(d) :
                  /\ \A s \in SettingsOf("g") \cup {rate} : Keeps(steps, s)
                  /\ \A s \in IsScale("x", 2) : Establishes(steps, s) /\ Keeps(steps, s)
            /\ \A pin \in DOMAIN Routes[d] :
                  Establishes(EnableList(setOdrWhenEnabled("x", DetectionRate[d]), d, pin), rate)
\* Whatever is written to a rate is the code of one, or power-down.
RatesStayRates ==
    \A steps \in StepLists, a \in Axes : \A i \in DOMAIN steps, code \in 0 .. 10 :
        \/ Agrees(steps[i], IsRate(a, code))
        \/ /\ IsRate(a, code).mask \subseteq steps[i].mask
           /\ \E new \in 0 .. 10 : steps[i].bits \cap IsRate(a, new).mask = IsRate(a, new).bits
ASSUME SettingsFit ==
    /\ RateStored /\ ScaleStored /\ PowerDownKeeps /\ InitStores /\ OthersKeepSettings
    /\ EnablesStore /\ RatesStayRates

\* And to the detections.
OthersKeepDetections ==
    \A steps \in SettingLists \cup ParameterLists, f \in DetectionFields :
        Keeps(steps, IsOn(f)) /\ Keeps(steps, IsOff(f))
EnablesRoute ==
    \A d \in Detections :
        /\ \A pin \in DOMAIN Routes[d], odr \in {<<>>, setOdrWhenEnabled("x", DetectionRate[d])} :
              \A f \in Needs(d) \cup {Routes[d][pin]} : Establishes(EnableList(odr, d, pin), IsOn(f))
        /\ \A steps \in EnableLists(d) :
              /\ \A f \in DetectionFields : Keeps(steps, IsOn(f))
              /\ \A e \in Detections \ {d} : \A f \in RouteFields(e) : Keeps(steps, IsOff(f))
DisablesRoute ==
    \A d \in Detections :
        /\ \A f \in RouteFields(d) : Establishes(DisableSteps[d], IsOff(f))
        /\ \A e \in Detections : \A f \in RouteFields(e) :
              Keeps(DisableSteps[d], IsOff(f)) /\ (e # d => Keeps(DisableSteps[d], IsOn(f)))
        /\ \A e \in Detections : ~SameBlock(d, e) =>
              \A f \in Needs(e) : Keeps(DisableSteps[d], IsOn(f))
ASSUME DetectionsFit == OthersKeepDetections /\ EnablesRoute /\ DisablesRoute

\* While the page is open nothing is known; a rate is always one of the codes.
PageInv ==
    PageOpen(lsm) => /\ asked = [a \in Axes |-> Nothing]
                     /\ detection = [d \in Detections |-> "any"]
RateOK(c, a) == \E code \in 0 .. 10 : Has(c, IsRate(a, code))
\* What is known of an axis, and of a detection, is so in chip c.
RateAsked(setting, dev, c, a) ==
    setting.odr # Unknown =>
        IF dev.is_enabled THEN Has(c, IsRate(a, RateCode(setting.odr)))
        ELSE dev.last_odr = Rates[RateCode(setting.odr)]
ScaleAsked(setting, c, a) ==
    setting.scale # Unknown => \A s \in IsScale(a, Covering(a, setting.scale)) : Has(c, s)
AskedOK(setting, dev, c, a) == RateAsked(setting, dev, c, a) /\ ScaleAsked(setting, c, a)
DetectionOK(known, c, d) ==
    /\ known = "off" => \A f \in RouteFields(d) : Has(c, IsOff(f))
    /\ known = "on" => /\ \E f \in RouteFields(d) : Has(c, IsOn(f))
                       /\ \A f \in Needs(d) : Has(c, IsOn(f))
LSMInv ==
    /\ LSMTypeOK /\ PageInv
    /\ \A a \in Axes : RateOK(lsm, a) /\ AskedOK(asked[a], device[a], lsm, a)
    /\ \A d \in Detections : DetectionOK(detection[d], lsm, d)

=============================================================================
