-------------------------- MODULE LSM6DSLAccessors --------------------------
(***************************************************************************)
(* The fields the LSM6DSL's driver can set and read: one definition for    *)
(* each W_ and R_ pair, with the register both of them name.  The fields   *)
(* that have only an R_ function are one definition for each register.     *)
(***************************************************************************)
EXTENDS LSM6DSLTypes

WHO_AM_I == Field("WHO_AM_I", WHO_AM_I_BIT_n)
BDU == Field("CTRL3_C", BDU_t)
FS_XL == Field("CTRL1_XL", CTRL1_XL_t.FS_XL)
ODR_XL == Field("CTRL1_XL", CTRL1_XL_t.ODR_XL)
FS_G == Field("CTRL2_G", CTRL2_G_t.FS_G)
ODR_G == Field("CTRL2_G", CTRL2_G_t.ODR_G)
BW_SEL == Field("CTRL1_XL", BW_SEL_t)
FS_125 == Field("CTRL2_G", FS_125_t)
BLE == Field("CTRL3_C", BLE_t)
EmbeddedAccess == Field("FUNC_CFG_ACCESS", EMB_ACC_t)
Stamping_Time_Frame == Field("SENSOR_SYNC_TIME", TPH_n)
SYNC_RES_RATIO == Field("SENSOR_RES_RATIO", SYNC_RES_RATIO_t)
FIFO_TEMP == Field("FIFO_CTRL2", FIFO_CTRL2_t.FIFO_TEMP)
TIM_PEDO_FIFO_Write_En == Field("FIFO_CTRL2", FIFO_CTRL2_t.TIM_PEDO_FIFO_DRDY)
TIM_PEDO_FIFO_En == Field("FIFO_CTRL2", FIFO_CTRL2_t.TIM_PEDO_FIFO_EN)
DEC_FIFO_XL == Field("FIFO_CTRL3", FIFO_CTRL3_t.DEC_FIFO_XL)
DEC_FIFO_G == Field("FIFO_CTRL3", FIFO_CTRL3_t.DEC_FIFO_G)
DEC_FIFO_DS3 == Field("FIFO_CTRL4", FIFO_CTRL4_t.DEC_FIFO_DS3)
DEC_FIFO_DS4 == Field("FIFO_CTRL4", FIFO_CTRL4_t.DEC_FIFO_DS4)
HI_DATA_ONLY == Field("FIFO_CTRL4", FIFO_CTRL4_t.HI_DATA_ONLY)
STOP_ON_FTH == Field("FIFO_CTRL4", FIFO_CTRL4_t.STOP_ON_FTH)
FIFO_MODE == Field("FIFO_CTRL5", FIFO_CTRL5_t.FIFO_MODE)
ODR_FIFO == Field("FIFO_CTRL5", FIFO_CTRL5_t.ODR_FIFO)
DRDY_PULSE == Field("DRDY_PULSE_CFG_G", DRDY_PULSE_t)
DRDY_XL_on_INT1 == Field("INT1_CTRL", INT1_CTRL_t.INT1_DRDY_XL)
DRDY_G_on_INT1 == Field("INT1_CTRL", INT1_CTRL_t.INT1_DRDY_G)
BOOT_on_INT1 == Field("INT1_CTRL", INT1_CTRL_t.INT1_BOOT)
FIFO_TSHLD_on_INT1 == Field("INT1_CTRL", INT1_CTRL_t.INT1_FTH)
OVERRUN_on_INT1 == Field("INT1_CTRL", INT1_CTRL_t.INT1_OVR)
FULL_FLAG_on_INT1 == Field("INT1_CTRL", INT1_CTRL_t.INT1_FULL_FLAG)
SIGN_MOT_on_INT1 == Field("INT1_CTRL", INT1_CTRL_t.INT1_SIGN_MOT)
STEP_DET_on_INT1 == Field("INT1_CTRL", INT1_CTRL_t.INT1_PEDO)
DRDY_XL_on_INT2 == Field("INT2_CTRL", INT2_CTRL_t.INT2_DRDY_XL)
DRDY_G_on_INT2 == Field("INT2_CTRL", INT2_CTRL_t.INT2_DRDY_G)
DRDY_TEMP_on_INT2 == Field("INT2_CTRL", INT2_CTRL_t.INT2_DRDY_TEMP)
FIFO_TSHLD_on_INT2 == Field("INT2_CTRL", INT2_CTRL_t.INT2_FTH)
OVERRUN_on_INT2 == Field("INT2_CTRL", INT2_CTRL_t.INT2_OVR)
FULL_FLAG_on_INT2 == Field("INT2_CTRL", INT2_CTRL_t.INT2_FULL_FLAG)
STEP_COUNT_OV_on_INT2 == Field("INT2_CTRL", INT2_CTRL_t.INT2_STEP_COUNT_OV)
STEP_DELTA_on_INT2 == Field("INT2_CTRL", INT2_CTRL_t.INT2_STEP_DELTA)
SW_RESET == Field("CTRL3_C", CTRL3_C_t.SW_RESET)
IF_Addr_Incr == Field("CTRL3_C", CTRL3_C_t.IF_INC)
SPI_Mode == Field("CTRL3_C", CTRL3_C_t.SIM)
PadSel == Field("CTRL3_C", CTRL3_C_t.PP_OD)
INT_ACT_LEVEL == Field("CTRL3_C", CTRL3_C_t.INT_ACT_LEVEL)
BOOT == Field("CTRL3_C", CTRL3_C_t.BOOT)
LPF1_SEL_G == Field("CTRL4_C", CTRL4_C_t.LPF1_SEL_G)
I2C_DISABLE == Field("CTRL4_C", CTRL4_C_t.I2C_DISABLE)
DRDY_MSK == Field("CTRL4_C", CTRL4_C_t.DRDY_MSK)
INT2_ON_INT1 == Field("CTRL4_C", CTRL4_C_t.INT2_ON_INT1)
SleepMode_G == Field("CTRL4_C", CTRL4_C_t.SLEEP_G)
SelfTest_XL == Field("CTRL5_C", CTRL5_C_t.ST_XL)
SelfTest_G == Field("CTRL5_C", CTRL5_C_t.ST_G)
DEN_Polarity == Field("CTRL5_C", CTRL5_C_t.DEN_LH)
CircularBurstMode == Field("CTRL5_C", CTRL5_C_t.ROUNDING)
LP_BW_G == Field("CTRL6_G", CTRL6_G_t.FTYPE)
UserOffsetWeight == Field("CTRL6_G", CTRL6_G_t.USR_OFF_W)
LowPower_XL == Field("CTRL6_G", CTRL6_G_t.LP_XL)
DEN_LVL2_EN == Field("CTRL6_G", CTRL6_G_t.DEN_LVL2_EN)
DEN_LVL_EN == Field("CTRL6_G", CTRL6_G_t.DEN_LVL_EN)
ExternalTrigger == Field("CTRL6_G", CTRL6_G_t.DEN_EDGE_EN)
RoundingOnStatusRegisters == Field("CTRL7_G", CTRL7_G_t.RND_STATUS)
HPM_G == Field("CTRL7_G", CTRL7_G_t.HPM_G)
HPFilter_En == Field("CTRL7_G", CTRL7_G_t.HP_EN)
LP_Mode == Field("CTRL7_G", CTRL7_G_t.LP_EN)
ROUNDING_STATUS == Field("CTRL7_G", CTRL7_G_t.ROUNDING_STATUS)
HP_G_RST == Field("CTRL7_G", CTRL7_G_t.HP_G_RST)
LOW_PASS_ON_6D == Field("CTRL8_XL", CTRL8_XL_t.LOW_PASS_ON_6D)
HP_SLOPE_XL == Field("CTRL8_XL", CTRL8_XL_t.HP_SLOPE_XL)
InComposit == Field("CTRL8_XL", CTRL8_XL_t.IN_COMP)
HPfilterReference == Field("CTRL8_XL", CTRL8_XL_t.HP_REF_MODE)
HPCF_XL == Field("CTRL8_XL", CTRL8_XL_t.HPCF_XL)
LowPassFiltSel_XL == Field("CTRL8_XL", CTRL8_XL_t.LPF2_XL)
SOFT == Field("CTRL9_XL", SOFT_t)
SignificantMotion == Field("CTRL10_C", CTRL10_C_t.SIGN_MOTION_EN)
PedoStepReset == Field("CTRL10_C", CTRL10_C_t.PEDO_RST_STEP)
FUNC_EN == Field("CTRL10_C", CTRL10_C_t.FUNC_EN)
TILT == Field("CTRL10_C", CTRL10_C_t.TILT_G)
PEDO == Field("CTRL10_C", CTRL10_C_t.PEDO)
TIMER == Field("CTRL10_C", CTRL10_C_t.TIMER)
I2C_MASTER_Enable == Field("MASTER_CONFIG", MASTER_CONFIG_t.MASTER_ON)
IronCorrection_EN == Field("MASTER_CONFIG", MASTER_CONFIG_t.IRON_EN)
PASS_THRU_MODE == Field("MASTER_CONFIG", MASTER_CONFIG_t.PASS_THRU_MODE)
PULL_UP_EN == Field("MASTER_CONFIG", MASTER_CONFIG_t.PULL_UP_EN)
SensorHUB_Trigger_Sel == Field("MASTER_CONFIG", MASTER_CONFIG_t.START_CONFIG)
DATA_VAL_SEL_FIFO == Field("MASTER_CONFIG", MASTER_CONFIG_t.DATA_VAL_SEL_FIFO)
DRDY_ON_INT1 == Field("MASTER_CONFIG", MASTER_CONFIG_t.DRDY_ON_INT1)
WAKE_UP_SRC == Fields("WAKE_UP_SRC", WAKE_UP_SRC_t)
TAP_SRC == Fields("TAP_SRC", TAP_SRC_t)
D6D_SRC == Fields("D6D_SRC", D6D_SRC_t)
STATUS_REG == Fields("STATUS_REG", STATUS_REG_t)
FIFO_STATUS2 == Fields("FIFO_STATUS2", FIFO_STATUS2_t)
FUNC_SRC == Fields("FUNC_SRC", FUNC_SRC_t)
LIR == Field("TAP_CFG1", TAP_CFG1_t.LIR)
TAP_Z_EN == Field("TAP_CFG1", TAP_CFG1_t.TAP_Z_EN)
TAP_Y_EN == Field("TAP_CFG1", TAP_CFG1_t.TAP_Y_EN)
TAP_X_EN == Field("TAP_CFG1", TAP_CFG1_t.TAP_X_EN)
SLOPE_FDS == Field("TAP_CFG1", TAP_CFG1_t.SLOPE_FDS)
BASIC_INT == Field("TAP_CFG1", TAP_CFG1_t.INT_EN)
TAP_THS == Field("TAP_THS_6D", TAP_THS_6D_t.TAP_THS)
SIXD_THS == Field("TAP_THS_6D", TAP_THS_6D_t.SIXD_THS)
D4D == Field("TAP_THS_6D", TAP_THS_6D_t.D4D)
SHOCK_Duration == Field("INT_DUR2", INT_DUR2_t.SHOCK)
QUIET_Duration == Field("INT_DUR2", INT_DUR2_t.QUIET)
DUR == Field("INT_DUR2", INT_DUR2_t.DUR)
WK_THS == Field("WAKE_UP_THS", WAKE_UP_THS_t.WK_THS)
SINGLE_DOUBLE_TAP_EV == Field("WAKE_UP_THS", WAKE_UP_THS_t.SINGLE_DOUBLE_TAP)
SLEEP_DUR == Field("WAKE_UP_DUR", WAKE_UP_DUR_t.SLEEP_DUR)
TIMER_HR == Field("WAKE_UP_DUR", WAKE_UP_DUR_t.TIMER_HR)
WAKE_DUR == Field("WAKE_UP_DUR", WAKE_UP_DUR_t.WAKE_DUR)
FF_THS == Field("FREE_FALL", FF_THS_t)
TimerEvRouteInt1 == Field("MD1_CFG", MD1_CFG_t.INT1_TIMER)
TiltEvOnInt1 == Field("MD1_CFG", MD1_CFG_t.INT1_TILT)
D6EvOnInt1 == Field("MD1_CFG", MD1_CFG_t.INT1_6D)
TapEvOnInt1 == Field("MD1_CFG", MD1_CFG_t.INT1_TAP)
FFEvOnInt1 == Field("MD1_CFG", MD1_CFG_t.INT1_FF)
WUEvOnInt1 == Field("MD1_CFG", MD1_CFG_t.INT1_WU)
SingleTapOnInt1 == Field("MD1_CFG", MD1_CFG_t.INT1_SINGLE_TAP)
SleepEvOnInt1 == Field("MD1_CFG", MD1_CFG_t.INT1_SLEEP)
MagCorrection_Int2 == Field("MD2_CFG", MD2_CFG_t.INT2_IRON)
TiltEvOnInt2 == Field("MD2_CFG", MD2_CFG_t.INT2_TILT)
D6EvOnInt2 == Field("MD2_CFG", MD2_CFG_t.INT2_6D)
TapEvOnInt2 == Field("MD2_CFG", MD2_CFG_t.INT2_TAP)
FFEvOnInt2 == Field("MD2_CFG", MD2_CFG_t.INT2_FF)
WUEvOnInt2 == Field("MD2_CFG", MD2_CFG_t.INT2_WU)
SingleTapOnInt2 == Field("MD2_CFG", MD2_CFG_t.INT2_SINGLE_TAP)
SleepEvOnInt2 == Field("MD2_CFG", MD2_CFG_t.INT2_SLEEP)

\* Fields in two registers.
FIFO_Watermark == Pair("FIFO_CTRL1", WTM_FIFO_n[1], "FIFO_CTRL2", WTM_FIFO_n[2])
FIFONumOfEntries == Pair("FIFO_STATUS1", DIFF_FIFO_n[1], "FIFO_STATUS2", DIFF_FIFO_n[2])
FIFOPattern == Pair("FIFO_STATUS3", FIFO_PATTERN_n[1], "FIFO_STATUS4", FIFO_PATTERN_n[2])
FF_Duration == Pair("FREE_FALL", FF_DUR_n[1], "WAKE_UP_DUR", FF_DUR_n[2])

LSM6DSLWritable ==
    {BDU, FS_XL, ODR_XL, FS_G, ODR_G, BW_SEL, FS_125, BLE, EmbeddedAccess,
     Stamping_Time_Frame, SYNC_RES_RATIO, FIFO_TEMP, TIM_PEDO_FIFO_Write_En,
     TIM_PEDO_FIFO_En, DEC_FIFO_XL, DEC_FIFO_G, DEC_FIFO_DS3, DEC_FIFO_DS4, HI_DATA_ONLY,
     STOP_ON_FTH, FIFO_MODE, ODR_FIFO, DRDY_PULSE, DRDY_XL_on_INT1, DRDY_G_on_INT1,
     BOOT_on_INT1, FIFO_TSHLD_on_INT1, OVERRUN_on_INT1, FULL_FLAG_on_INT1,
     SIGN_MOT_on_INT1, STEP_DET_on_INT1, DRDY_XL_on_INT2, DRDY_G_on_INT2,
     DRDY_TEMP_on_INT2, FIFO_TSHLD_on_INT2, OVERRUN_on_INT2, FULL_FLAG_on_INT2,
     STEP_COUNT_OV_on_INT2, STEP_DELTA_on_INT2, SW_RESET, IF_Addr_Incr, SPI_Mode, PadSel,
     INT_ACT_LEVEL, BOOT, LPF1_SEL_G, I2C_DISABLE, DRDY_MSK, INT2_ON_INT1, SleepMode_G,
     SelfTest_XL, SelfTest_G, DEN_Polarity, CircularBurstMode, LP_BW_G, UserOffsetWeight,
     LowPower_XL, DEN_LVL2_EN, DEN_LVL_EN, ExternalTrigger, RoundingOnStatusRegisters,
     HPM_G, HPFilter_En, LP_Mode, ROUNDING_STATUS, HP_G_RST, LOW_PASS_ON_6D, HP_SLOPE_XL,
     InComposit, HPfilterReference, HPCF_XL, LowPassFiltSel_XL, SOFT, SignificantMotion,
     PedoStepReset, FUNC_EN, TILT, PEDO, TIMER, I2C_MASTER_Enable, IronCorrection_EN,
     PASS_THRU_MODE, PULL_UP_EN, SensorHUB_Trigger_Sel, DATA_VAL_SEL_FIFO, DRDY_ON_INT1,
     LIR, TAP_Z_EN, TAP_Y_EN, TAP_X_EN, SLOPE_FDS, BASIC_INT, TAP_THS, SIXD_THS, D4D,
     SHOCK_Duration, QUIET_Duration, DUR, WK_THS, SINGLE_DOUBLE_TAP_EV, SLEEP_DUR,
     TIMER_HR, WAKE_DUR, FF_THS, TimerEvRouteInt1, TiltEvOnInt1, D6EvOnInt1, TapEvOnInt1,
     FFEvOnInt1, WUEvOnInt1, SingleTapOnInt1, SleepEvOnInt1, MagCorrection_Int2,
     TiltEvOnInt2, D6EvOnInt2, TapEvOnInt2, FFEvOnInt2, WUEvOnInt2, SingleTapOnInt2,
     SleepEvOnInt2, FIFO_Watermark, FF_Duration}
LSM6DSLReadOnly ==
    {WHO_AM_I, FIFONumOfEntries, FIFOPattern}
    \cup UNION { { fields[n] : n \in DOMAIN fields } :
                 fields \in {WAKE_UP_SRC, TAP_SRC, D6D_SRC, STATUS_REG, FIFO_STATUS2, FUNC_SRC} }

=============================================================================
