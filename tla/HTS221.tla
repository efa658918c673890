------------------------------- MODULE HTS221 -------------------------------
(***************************************************************************)
(* The humidity sensor as the sketch sees it: HTS221Sensor over its        *)
(* driver, over a bus that may fail.  A call is one step, because only one *)
(* thread uses the sensor and the chip changes nothing but its own flags   *)
(* between two accesses; a call of several setters may end after any of    *)
(* them.  The chip's completion of a conversion or of a reboot is a step   *)
(* of its own.  Its registers and their fields come first.                 *)
(***************************************************************************)
EXTENDS RegisterFields

CONSTANT HTSCalls       \* bound: calls in a behaviour

ASSUME HTSAssumption == HTSCalls \in Nat

VARIABLES hts,          \* the chip: its four control registers and status flags
          power,        \* what the last call asked for: "on", "off" or "any"
          htsCalls

htsVars == <<hts, power, htsCalls>>

\* The masks of each register.
HTS221_AV_CONF == [AVGH |-> \h07, AVGT |-> \h38]
HTS221_CTRL_REG1 == [PD |-> \h80, BDU |-> \h04, ODR |-> \h03]
HTS221_CTRL_REG2 == [BOOT |-> \h80, HEATHER |-> \h02, ONE_SHOT |-> \h01]
HTS221_CTRL_REG3 == [DRDY_H_L |-> \h80, PP_OD |-> \h40, DRDY |-> \h04]
HTS221_STATUS == [HDA |-> \h02, TDA |-> \h01]

\* The types of the fields.
Avgh_et == Enum(HTS221_AV_CONF.AVGH, 0 .. 7)
Avgt_et == Enum(HTS221_AV_CONF.AVGT, {\h00, \h08, \h10, \h18, \h20, \h28, \h30, \h38})
Odr_et == Enum(HTS221_CTRL_REG1.ODR, 0 .. 3)
OutputType_et == Flag(HTS221_CTRL_REG3.PP_OD)
DrdyLevel_et == Flag(HTS221_CTRL_REG3.DRDY_H_L)

\* A State_et or BitStatus_et, shifted to its position by the setter.
State_et(mask) == Flag(mask)

HTS221_AvgH == Field("HTS221_AV_CONF", Avgh_et)
HTS221_AvgT == Field("HTS221_AV_CONF", Avgt_et)
HTS221_BduMode == Field("HTS221_CTRL_REG1", State_et(HTS221_CTRL_REG1.BDU))
HTS221_PowerDownMode == Field("HTS221_CTRL_REG1", State_et(HTS221_CTRL_REG1.PD))
HTS221_Odr == Field("HTS221_CTRL_REG1", Odr_et)
HTS221_HeaterState == Field("HTS221_CTRL_REG2", State_et(HTS221_CTRL_REG2.HEATHER))
HTS221_IrqActiveLevel == Field("HTS221_CTRL_REG3", DrdyLevel_et)
HTS221_IrqOutputType == Field("HTS221_CTRL_REG3", OutputType_et)
HTS221_IrqEnable == Field("HTS221_CTRL_REG3", State_et(HTS221_CTRL_REG3.DRDY))

\* Set_AvgHT writes both averages in one go.
HTS221_AvgHT ==
    Field("HTS221_AV_CONF",
          [mask |-> Avgh_et.mask \cup Avgt_et.mask,
           values |-> { h \cup t : h \in Avgh_et.values, t \in Avgt_et.values }])

HTS221Writable ==
    {HTS221_AvgH, HTS221_AvgT, HTS221_AvgHT, HTS221_BduMode, HTS221_PowerDownMode,
     HTS221_Odr, HTS221_HeaterState, HTS221_IrqActiveLevel, HTS221_IrqOutputType,
     HTS221_IrqEnable}

PD == Bits(HTS221_CTRL_REG1.PD)
ONE_SHOT == Bits(HTS221_CTRL_REG2.ONE_SHOT)
HTS_BOOT == Bits(HTS221_CTRL_REG2.BOOT)

\* The chip at power on.
HTS221_PowerOn ==
    [AV_CONF |-> Bits(\h1B), CTRL_REG1 |-> {}, CTRL_REG2 |-> {}, CTRL_REG3 |-> {},
     HDA |-> FALSE, TDA |-> FALSE]

HTSInit ==
    /\ hts = HTS221_PowerOn
    /\ power = "off" /\ htsCalls = 0

\* One field of register reg written on chip c.
Put(c, reg, mask, v) == [c EXCEPT ![reg] = Merge(@, mask, v)]

\* HTS221_Activate and HTS221_DeActivate.
HTS221_Activate(c) == Put(c, "CTRL_REG1", PD, PD)
HTS221_DeActivate(c) == Put(c, "CTRL_REG1", PD, {})

\* HTS221Sensor::setOdr never asks for one shot.
setOdr(c, odr) ==
    Put(c, "CTRL_REG1", Odr_et.mask, Bits(IF odr <= 1 THEN 1 ELSE IF odr <= 7 THEN 2 ELSE 3))

\* HTS221_Set_InitConfig: AV_CONF first, then the three control registers in
\* one transfer.  The heater's bit number stands where its mask is meant, so
\* ONE_SHOT is cleared and the heater is only ever switched on; the interrupt
\* level, already in place, is shifted out of its byte.
AfterAverages(c, p) ==
    Put(c, "AV_CONF", Avgh_et.mask \cup Avgt_et.mask, p.avg_h \cup p.avg_t)
HTS221_Set_InitConfig(c, p) ==
    [AfterAverages(c, p) EXCEPT
        !.CTRL_REG1 = Merge(@, Bits(HTS221_CTRL_REG1.BDU) \cup Odr_et.mask, p.odr \cup p.bdu),
        !.CTRL_REG2 = Merge(@, Bits(1), p.heater),
        !.CTRL_REG3 = Merge(@, Bits(\hC4), Bits(NumberOf(p.irq_level) * 2^7)
                                           \cup p.irq_type \cup p.irq_enable)]

\* The parameters tried: the extremes of every field, each on its own.
InitParameters ==
    [avg_h : {Bits(0), Bits(7)}, avg_t : {Bits(\h18)}, odr : {Bits(1)},
     bdu : {{}, Bits(HTS221_CTRL_REG1.BDU)}, heater : {{}, Bits(HTS221_CTRL_REG2.HEATHER)},
     irq_level : DrdyLevel_et.values, irq_type : {{}}, irq_enable : {Bits(HTS221_CTRL_REG3.DRDY)}]

\* HTS221_DeInit: both bits are set in one transfer, then the outputs are read.
\* The bit that is set to power the chip down is the one that powers it up.
HTS221_DeInit(c) ==
    [c EXCEPT !.CTRL_REG1 = @ \cup PD, !.CTRL_REG2 = @ \cup HTS_BOOT]

\* HTS221Sensor::init, after one, two and all three of its setters.
AfterBdu(c) == Put(HTS221_DeActivate(c), "CTRL_REG1", Bits(HTS221_CTRL_REG1.BDU),
                   Bits(HTS221_CTRL_REG1.BDU))
InitStages(c) == <<HTS221_DeActivate(c), AfterBdu(c), setOdr(AfterBdu(c), 1)>>

\* A call that changes the chip in the given stages ends with all of them done,
\* or, when the bus fails, with some of them done and an error: the power is
\* then only known if every outcome agrees.
Call(stages, wanted) ==
    /\ htsCalls < HTSCalls /\ htsCalls' = htsCalls + 1
    /\ \/ /\ hts' = stages[Len(stages)]
          /\ power' = wanted
       \/ /\ hts' \in {hts} \cup { stages[i] : i \in DOMAIN stages }
          /\ power' = IF wanted = power THEN power ELSE "any"

HTS221_init == Call(InitStages(hts), "off")
HTS221_enable == Call(<<HTS221_Activate(hts)>>, "on")
HTS221_disable == Call(<<HTS221_DeActivate(hts)>>, "off")
HTS221_reset == Call(<<[hts EXCEPT !.CTRL_REG2 = @ \cup HTS_BOOT]>>, power)
SetRate == \E odr \in {1, 7, 12} : Call(<<setOdr(hts, odr)>>, power)
StartOneShotMeasurement == Call(<<[hts EXCEPT !.CTRL_REG2 = @ \cup ONE_SHOT]>>, power)
SetInitConfig ==
    \E p \in InitParameters :
        LET a == AfterAverages(hts, p)
            z == HTS221_Set_InitConfig(hts, p)
        IN  Call(<<a, [a EXCEPT !.CTRL_REG1 = z.CTRL_REG1], [z EXCEPT !.CTRL_REG3 = a.CTRL_REG3], z>>,
                 power)
DeInit ==
    LET d == HTS221_DeInit(hts)
    IN  Call(<<[d EXCEPT !.CTRL_REG2 = hts.CTRL_REG2], d, [d EXCEPT !.HDA = FALSE, !.TDA = FALSE]>>,
             "any")

\* HTS221_Get_Measurement reads the temperature, then the humidity, and the
\* chip clears the flag of an output that was read.
GetMeasurement ==
    /\ hts' \in {hts, [hts EXCEPT !.TDA = FALSE], [hts EXCEPT !.TDA = FALSE, !.HDA = FALSE]}
    /\ UNCHANGED <<power, htsCalls>>

\* The chip finishes a conversion it was to make, or a reboot.
ChipConverts ==
    /\ PD \subseteq hts.CTRL_REG1
    /\ \/ Masked(hts.CTRL_REG1, Odr_et.mask) # {}
       \/ ONE_SHOT \subseteq hts.CTRL_REG2
    /\ hts' = [hts EXCEPT !.CTRL_REG2 = @ \ ONE_SHOT, !.HDA = TRUE, !.TDA = TRUE]
    /\ UNCHANGED <<power, htsCalls>>
ChipBoots ==
    /\ HTS_BOOT \subseteq hts.CTRL_REG2
    /\ hts' = [hts EXCEPT !.CTRL_REG2 = @ \ HTS_BOOT]
    /\ UNCHANGED <<power, htsCalls>>

HTSNext ==
    \/ HTS221_init \/ HTS221_enable \/ HTS221_disable \/ HTS221_reset \/ SetRate
    \/ StartOneShotMeasurement
    \/ SetInitConfig \/ DeInit \/ GetMeasurement \/ ChipConverts \/ ChipBoots

HTSSpec == HTSInit /\ [][HTSNext]_htsVars

(* Types.                                                                  *)
HTSChip ==
    [AV_CONF : SUBSET Bit, CTRL_REG1 : SUBSET Bit, CTRL_REG2 : SUBSET Bit, CTRL_REG3 : SUBSET Bit,
     HDA : BOOLEAN, TDA : BOOLEAN]
HTSTypeOK ==
    /\ hts \in HTSChip
    /\ power \in {"on", "off", "any"}
    /\ htsCalls \in 0 .. HTSCalls

\* Chip c is on, off, or either.
PowerIs(c, asks) ==
    /\ asks = "on" => PD \subseteq c.CTRL_REG1
    /\ asks = "off" => PD \cap c.CTRL_REG1 = {}

(* The chip measures exactly when the last call that was about power asked *)
(* for it: rates, averages, the heater, a reboot and failed calls do not   *)
(* switch it on or off behind the sketch's back.                           *)
PowerAsAsked == PowerIs(hts, power)

\* Its power bit is in no other field of its register.
ASSUME PowerBitApart ==
    /\ PD \cap Bits(HTS221_CTRL_REG1.BDU) = {} /\ PD \cap Odr_et.mask = {}
    /\ \A n \in 1 .. 3 : PD \cap Bits(n) = {}

HTSInv == HTSTypeOK /\ PowerAsAsked

=============================================================================
