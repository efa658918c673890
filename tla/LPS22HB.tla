------------------------------ MODULE LPS22HB ------------------------------
(***************************************************************************)
(* The pressure sensor: LPS22HBSensor over its driver, in the one-shot     *)
(* mode lps22hb_sensor_init selects.  A read of pressure or temperature    *)
(* starts a conversion, polls the status register and reads the output;    *)
(* every access of the bus is a step, because the chip converts meanwhile. *)
(***************************************************************************)
EXTENDS RegisterFields

CONSTANTS LPSReads,     \* bound: calls in a behaviour
          LPSFaults     \* bound: failed accesses of the bus

VARIABLES lpsAt,        \* the step of the running call
          call_,        \* "pressure", "temperature", "init" or "deinit"
          lps,          \* CTRL_REG1 and RES_CONF
          running,      \* the number of the conversion the chip is making, 0 if none
          P_DA, T_DA,   \* status: new pressure, new temperature
          P_OUT, T_OUT, \* the conversion the output registers come from
          started,      \* conversions started so far
          before,       \* conversions started before the running call
          reading,      \* what the last call returned: its conversion, or Failed
          lpsReads, lpsFaults

lpsVars == <<lpsAt, call_, lps, running, P_DA, T_DA, P_OUT, T_OUT, started, before, reading,
             lpsReads, lpsFaults>>
chip == <<lps, running, P_DA, T_DA, P_OUT, T_OUT, started>>

Failed == -1

\* The masks and members the driver's header gives.
MODE_ACTIVE == Bits(\h80)
LPS_ODR == [mask |-> Bits(\h70), ONE_SHOT |-> {}]
LPS_DIFF_EN == Bits(\h08)
LPS_BDU == Bits(\h04)
LPS_SIM == Bits(\h01)
P_RES == [mask |-> Bits(\h03), AVG_32 |-> Bits(\h01)]
T_RES == [mask |-> Bits(\h0C), AVG_32 |-> Bits(\h08)]

LPSInit ==
    /\ lpsAt = "idle" /\ call_ = "init"
    /\ lps = [CTRL_REG1 |-> {}, RES_CONF |-> {}]
    /\ running = 0 /\ started = 0 /\ before = 0
    /\ P_DA = FALSE /\ T_DA = FALSE /\ P_OUT = 0 /\ T_OUT = 0
    /\ reading = Failed /\ lpsReads = 0 /\ lpsFaults = 0

\* A call begins.
LPSCall(c) ==
    /\ lpsAt = "idle" /\ lpsReads < LPSReads
    /\ call_' = c
    /\ lpsAt' = CASE c = "init" -> "power_on" [] c = "deinit" -> "power_off"
                  [] OTHER -> "trigger"
    /\ lpsReads' = lpsReads + 1
    /\ before' = started
    /\ UNCHANGED <<chip, reading, lpsFaults>>

\* An access of the bus fails: every function on the way up returns an error.
LPSBusError ==
    /\ lpsAt # "idle" /\ lpsFaults < LPSFaults
    /\ lpsAt' = "idle" /\ reading' = Failed /\ lpsFaults' = lpsFaults + 1
    /\ UNCHANGED <<call_, chip, before, lpsReads>>

Step(from, to) ==
    /\ lpsAt = from /\ lpsAt' = to
    /\ UNCHANGED <<call_, before, lpsReads, lpsFaults>>

\* LPS22HB_Init: PowerOn, then both configuration registers.
PowerOn_LPS ==
    /\ Step("power_on", "configure")
    /\ lps' = [lps EXCEPT !.CTRL_REG1 = @ \cup MODE_ACTIVE]
    /\ UNCHANGED <<running, P_DA, T_DA, P_OUT, T_OUT, started, reading>>
Configure ==
    /\ Step("configure", "resolution")
    /\ lps' = [lps EXCEPT !.CTRL_REG1 =
                  Merge(@, LPS_ODR.mask \cup LPS_DIFF_EN \cup LPS_BDU \cup LPS_SIM,
                        LPS_ODR.ONE_SHOT \cup LPS_DIFF_EN \cup LPS_BDU)]
    /\ UNCHANGED <<running, P_DA, T_DA, P_OUT, T_OUT, started, reading>>
Resolution ==
    /\ Step("resolution", "idle")
    /\ lps' = [lps EXCEPT !.RES_CONF = Merge(@, P_RES.mask \cup T_RES.mask,
                                             P_RES.AVG_32 \cup T_RES.AVG_32)]
    /\ reading' = 0
    /\ UNCHANGED <<running, P_DA, T_DA, P_OUT, T_OUT, started>>

\* LPS22HB_PowerOff.
PowerOff ==
    /\ Step("power_off", "idle")
    /\ lps' = [lps EXCEPT !.CTRL_REG1 = @ \ MODE_ACTIVE]
    /\ reading' = 0
    /\ UNCHANGED <<running, P_DA, T_DA, P_OUT, T_OUT, started>>

\* In one-shot mode ONE_SHOT is set; a chip that is converting already takes
\* no notice.  ReadRawPressure, called by GetPressure, does the same again.
SetOneShot ==
    /\ LPS_ODR.mask \cap lps.CTRL_REG1 = {}
    /\ IF running = 0 THEN running' = started + 1 /\ started' = started + 1
                      ELSE UNCHANGED <<running, started>>
    /\ UNCHANGED <<lps, P_DA, T_DA, P_OUT, T_OUT, reading>>
Trigger == Step("trigger", "wait") /\ SetOneShot
TriggerRaw == Step("trigger_raw", "wait_raw") /\ SetOneShot

\* Mutation: both flags are waited for.
StatusReady_Both == P_DA /\ T_DA

\* do { read STATUS } while(!(tmp&&0x01)): any bit of the status ends the wait.
StatusReady == P_DA \/ T_DA
Wait ==
    /\ StatusReady
    /\ Step("wait", IF call_ = "pressure" THEN "trigger_raw" ELSE "read")
    /\ UNCHANGED <<chip, reading>>
WaitRaw ==
    /\ StatusReady
    /\ Step("wait_raw", "read")
    /\ UNCHANGED <<chip, reading>>

\* The output registers are read, which clears their flag.
ReadOutput ==
    /\ Step("read", "idle")
    /\ \/ /\ call_ = "pressure"
          /\ reading' = P_OUT /\ P_DA' = FALSE /\ UNCHANGED T_DA
       \/ /\ call_ = "temperature"
          /\ reading' = T_OUT /\ T_DA' = FALSE /\ UNCHANGED P_DA
    /\ UNCHANGED <<lps, running, P_OUT, T_OUT, started>>

\* The chip, when it is powered, finishes the pressure of a conversion and then
\* its temperature.
ChipPressure ==
    /\ running # 0 /\ P_OUT # running
    /\ P_OUT' = running /\ P_DA' = TRUE
    /\ UNCHANGED <<lpsAt, call_, lps, running, T_DA, T_OUT, started, before, reading, lpsReads,
                   lpsFaults>>
ChipTemperature ==
    /\ running # 0 /\ P_OUT = running
    /\ T_OUT' = running /\ T_DA' = TRUE /\ running' = 0
    /\ UNCHANGED <<lpsAt, call_, lps, P_DA, P_OUT, started, before, reading, lpsReads, lpsFaults>>

LPSThread ==
    \/ PowerOn_LPS \/ Configure \/ Resolution \/ PowerOff
    \/ Trigger \/ TriggerRaw \/ Wait \/ WaitRaw \/ ReadOutput
LPSChip == ChipPressure \/ ChipTemperature
LPSNext ==
    \/ \E c \in {"init", "deinit", "pressure", "temperature"} : LPSCall(c)
    \/ LPSBusError
    \/ LPSThread
    \/ LPSChip

LPSSpec == LPSInit /\ [][LPSNext]_lpsVars

(* Types.                                                                  *)
LPSTypeOK ==
    /\ lpsAt \in {"idle", "power_on", "configure", "resolution", "power_off", "trigger", "wait",
                  "trigger_raw", "wait_raw", "read"}
    /\ call_ \in {"init", "deinit", "pressure", "temperature"}
    /\ lps \in [CTRL_REG1 : SUBSET Bit, RES_CONF : SUBSET Bit]
    /\ P_DA \in BOOLEAN /\ T_DA \in BOOLEAN /\ started \in Nat
    /\ {running, P_OUT, T_OUT, before} \subseteq 0 .. started
    /\ reading \in Failed .. started

(* A read of pressure or temperature ends: the chip answers every trigger, *)
(* or the flag the poll waits for is still set from an earlier read.       *)
LPSReturns == [](lpsAt # "idle" => <>(lpsAt = "idle"))

=============================================================================
