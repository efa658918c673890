----------------------------- MODULE MC_Sensors -----------------------------
(***************************************************************************)
(* The sensors and the board's C interface, each with its own small        *)
(* instance: a behaviour is one component's, chosen in the initial state,  *)
(* and the variables of the others never change.                           *)
(***************************************************************************)
EXTENDS SensorRegisters, LSM6DSLSensor, HTS221, LPS22HB, DevKitBoard,
        SensorReadings

CONSTANT Sensors        \* the components this run is about

VARIABLE sensor

\* Every field of the motion and the humidity sensor that has a setter, over
\* registers that are all zeros or all ones at power on.
MC_Accessors == LSM6DSLWritable \cup HTS221Writable
MC_Registers == UNION { DOMAIN f.mask : f \in MC_Accessors }
MC_PowerOn == { [r \in MC_Registers |-> {}], [r \in MC_Registers |-> Bit] }

\* Neighbouring samples differ in both bytes, and the extremes are among them;
\* one calibration rises, the other falls.
MC_Wave == << <<0, 63, 21>>, <<255, 256, -1, 32767, -32768>>, <<65535, 65536, 4194303>> >>
MC_Calibrations ==
    { [out0 |-> -20, out1 |-> 300, at0 |-> 41, at1 |-> 150],
      [out0 |-> 500, out1 |-> -32000, at0 |-> 160, at1 |-> 301] }

OtherSensors(name) ==
    /\ sensor' = sensor
    /\ name # "registers" => UNCHANGED registerVars
    /\ name # "LSM6DSL" => UNCHANGED lsmVars
    /\ name # "HTS221" => UNCHANGED htsVars
    /\ name # "LPS22HB" => UNCHANGED lpsVars
    /\ name # "board" => UNCHANGED boardVars
    /\ name # "readings" => UNCHANGED readingVars

sensorVars == <<sensor, registerVars, lsmVars, htsVars, lpsVars, boardVars,
                readingVars>>

RegistersStep == sensor = "registers" /\ RegistersNext /\ OtherSensors("registers")
LSMStep == sensor = "LSM6DSL" /\ LSMNext /\ OtherSensors("LSM6DSL")
HTSStep == sensor = "HTS221" /\ HTSNext /\ OtherSensors("HTS221")
LPSStep == sensor = "LPS22HB" /\ LPSNext /\ OtherSensors("LPS22HB")
BoardStep == sensor = "board" /\ BoardNext /\ OtherSensors("board")
ReadingStep == sensor = "readings" /\ ReadingNext /\ OtherSensors("readings")

SensorsInit ==
    /\ sensor \in Sensors
    /\ RegistersInit
    /\ sensor # "registers" => watched = BDU /\ regs = [r \in MC_Registers |-> {}]
    /\ LSMInit /\ (sensor # "LSM6DSL" => \A a \in Axes : ~device[a].is_enabled)
    /\ HTSInit /\ LPSInit /\ BoardInit
    /\ ReadingInit
    /\ sensor # "readings" => measuring = "LIS2MDL" /\ phase = 0
    /\ scale > 1 => phase = 2   \* the extremes, at every full scale

SensorsNext == RegistersStep \/ LSMStep \/ HTSStep \/ LPSStep \/ BoardStep \/ ReadingStep

\* The thread that called the sensor runs on, the chip finishes what it has
\* started, and the sketch's loop goes round.
SensorsFair ==
    /\ WF_sensorVars(sensor = "LPS22HB" /\ LPSThread /\ OtherSensors("LPS22HB"))
    /\ WF_sensorVars(sensor = "LPS22HB" /\ LPSChip /\ OtherSensors("LPS22HB"))
    /\ WF_sensorVars(sensor = "board" /\ invokeDevKitPeripheral /\ OtherSensors("board"))
    /\ WF_sensorVars(sensor = "board" /\ QuarterSecond /\ OtherSensors("board"))

SensorsSpec == SensorsInit /\ [][SensorsNext]_sensorVars /\ SensorsFair

(* Types, of every component.                                              *)
SensorsTypeOK ==
    RegistersTypeOK /\ LSMTypeOK /\ HTSTypeOK /\ LPSTypeOK /\ BoardTypeOK /\ ReadingTypeOK

(* The motion sensor runs at the rate and with the full scale its caller   *)
(* asked for, and the humidity sensor measures exactly when it was asked   *)
(* to, through every order of calls and lost transfers.                    *)
SensorsAsAsked == SensorsTypeOK /\ SettingsKept /\ PowerAsAsked

(* A reading of the barometer returns, and an RGB LED that was set to blink *)
(* for a time is dark in the end.                                          *)
SensorsLive == LPSReturns /\ RGBBlinkEnds

=============================================================================
