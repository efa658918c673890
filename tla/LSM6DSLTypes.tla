---------------------------- MODULE LSM6DSLTypes ----------------------------
(***************************************************************************)
(* The LSM6DSL's registers and the types of its fields, from the header of *)
(* its driver.  One definition per register, or per field where the  *)
(* header keeps a register's fields apart: the mask, and the members of    *)
(* the enumeration or the position of the number.                          *)
(***************************************************************************)
EXTENDS RegisterFields

\* The addresses of the registers, and of those that take their place while the
\* page of the embedded functions is open.
Address ==
    [FUNC_CFG_ACCESS |-> \h01, SENSOR_SYNC_TIME |-> \h04, SENSOR_RES_RATIO |-> \h05,
     FIFO_CTRL1 |-> \h06, FIFO_CTRL2 |-> \h07, FIFO_CTRL3 |-> \h08,
     FIFO_CTRL4 |-> \h09, FIFO_CTRL5 |-> \h0A, DRDY_PULSE_CFG_G |-> \h0B,
     INT1_CTRL |-> \h0D, INT2_CTRL |-> \h0E, WHO_AM_I |-> \h0F, CTRL1_XL |-> \h10,
     CTRL2_G |-> \h11, CTRL3_C |-> \h12, CTRL4_C |-> \h13, CTRL5_C |-> \h14,
     CTRL6_G |-> \h15, CTRL7_G |-> \h16, CTRL8_XL |-> \h17, CTRL9_XL |-> \h18,
     CTRL10_C |-> \h19, MASTER_CONFIG |-> \h1A, WAKE_UP_SRC |-> \h1B, TAP_SRC |-> \h1C,
     D6D_SRC |-> \h1D, STATUS_REG |-> \h1E, OUT_TEMP_L |-> \h20, OUT_TEMP_H |-> \h21,
     OUTX_L_G |-> \h22, OUTX_H_G |-> \h23, OUTY_L_G |-> \h24, OUTY_H_G |-> \h25,
     OUTZ_L_G |-> \h26, OUTZ_H_G |-> \h27, OUTX_L_XL |-> \h28, OUTX_H_XL |-> \h29,
     OUTY_L_XL |-> \h2A, OUTY_H_XL |-> \h2B, OUTZ_L_XL |-> \h2C, OUTZ_H_XL |-> \h2D,
     SENSORHUB1_REG |-> \h2E, SENSORHUB2_REG |-> \h2F, SENSORHUB3_REG |-> \h30,
     SENSORHUB4_REG |-> \h31, SENSORHUB5_REG |-> \h32, SENSORHUB6_REG |-> \h33,
     SENSORHUB7_REG |-> \h34, SENSORHUB8_REG |-> \h35, SENSORHUB9_REG |-> \h36,
     SENSORHUB10_REG |-> \h37, SENSORHUB11_REG |-> \h38, SENSORHUB12_REG |-> \h39,
     FIFO_STATUS1 |-> \h3A, FIFO_STATUS2 |-> \h3B, FIFO_STATUS3 |-> \h3C,
     FIFO_STATUS4 |-> \h3D, FIFO_DATA_OUT_L |-> \h3E, FIFO_DATA_OUT_H |-> \h3F,
     TIMESTAMP0_REG |-> \h40, TIMESTAMP1_REG |-> \h41, TIMESTAMP2_REG |-> \h42,
     TIMESTAMP_L |-> \h49, TIMESTAMP_H |-> \h4A, STEP_COUNTER_L |-> \h4B,
     STEP_COUNTER_H |-> \h4C, SENSORHUB13_REG |-> \h4D, SENSORHUB14_REG |-> \h4E,
     SENSORHUB15_REG |-> \h4F, SENSORHUB16_REG |-> \h50, SENSORHUB17_REG |-> \h51,
     SENSORHUB18_REG |-> \h52, FUNC_SRC |-> \h53, TAP_CFG1 |-> \h58,
     TAP_THS_6D |-> \h59, INT_DUR2 |-> \h5A, WAKE_UP_THS |-> \h5B,
     WAKE_UP_DUR |-> \h5C, FREE_FALL |-> \h5D, MD1_CFG |-> \h5E, MD2_CFG |-> \h5F,
     OUT_MAG_RAW_X_L |-> \h66, OUT_MAG_RAW_X_H |-> \h67, OUT_MAG_RAW_Y_L |-> \h68,
     OUT_MAG_RAW_Y_H |-> \h69, OUT_MAG_RAW_Z_L |-> \h6A, OUT_MAG_RAW_Z_H |-> \h6B,
     X_OFS_USR |-> \h73, Y_OFS_USR |-> \h74, Z_OFS_USR |-> \h75]
EmbeddedAddress ==
    [SLV0_ADD |-> \h02, SLV0_SUBADD |-> \h03, SLAVE0_CONFIG |-> \h04,
     SLV1_ADD |-> \h05, SLV1_SUBADD |-> \h06, SLAVE1_CONFIG |-> \h07,
     SLV2_ADD |-> \h08, SLV2_SUBADD |-> \h09, SLAVE2_CONFIG |-> \h0A,
     SLV3_ADD |-> \h0B, SLV3_SUBADD |-> \h0C, SLAVE3_CONFIG |-> \h0D,
     DATAWRITE_SRC_MODE_SUB_SLV0 |-> \h0E, CONFIG_PEDO_THS_MIN |-> \h0F,
     SM_STEP_THS |-> \h13, PEDO_DEB_REG |-> \h14, STEP_COUNT_DELTA |-> \h15,
     MAG_SI_XX |-> \h24, MAG_SI_XY |-> \h25, MAG_SI_XZ |-> \h26, MAG_SI_YX |-> \h27,
     MAG_SI_YY |-> \h28, MAG_SI_YZ |-> \h29, MAG_SI_ZX |-> \h2A, MAG_SI_ZY |-> \h2B,
     MAG_SI_ZZ |-> \h2C, MAG_OFFX_L |-> \h2D, MAG_OFFX_H |-> \h2E, MAG_OFFY_L |-> \h2F,
     MAG_OFFY_H |-> \h30, MAG_OFFZ_L |-> \h31, MAG_OFFZ_H |-> \h32]

\* The fields of each register.
WHO_AM_I_BIT_n == Number(\hFF, 0)
BDU_t == Flag(\h40)
CTRL1_XL_t ==
    [FS_XL |-> Enum(\h0C, {\h00, \h04, \h08, \h0C}),
     ODR_XL |-> Enum(\hF0, {\h00, \h10, \h20, \h30, \h40, \h50, \h60, \h70, \h80, \h90, \hA0})]
CTRL2_G_t ==
    [FS_G |-> Enum(\h0C, {\h00, \h04, \h08, \h0C}),
     ODR_G |-> Enum(\hF0, {\h00, \h10, \h20, \h30, \h40, \h50, \h60, \h70, \h80, \h90, \hA0})]
BW_SEL_t == Flag(\h02)
FS_125_t == Flag(\h02)
BLE_t == Flag(\h02)
EMB_ACC_t == Flag(\h80)
TPH_n == Number(\hFF, 0)
SYNC_RES_RATIO_t == Enum(\h03, {\h00, \h01, \h02, \h03})
FIFO_CTRL2_t ==
    [FIFO_TEMP |-> Flag(\h08), TIM_PEDO_FIFO_DRDY |-> Flag(\h40),
     TIM_PEDO_FIFO_EN |-> Flag(\h80)]
FIFO_CTRL3_t ==
    [DEC_FIFO_XL |-> Enum(\h07, {\h00, \h01, \h02, \h03, \h04, \h05, \h06, \h07}),
     DEC_FIFO_G |-> Enum(\h38, {\h00, \h08, \h10, \h18, \h20, \h28, \h30, \h38})]
FIFO_CTRL4_t ==
    [DEC_FIFO_DS3 |-> Enum(\h07, {\h00, \h01, \h02, \h03, \h04, \h05, \h06, \h07}),
     DEC_FIFO_DS4 |-> Enum(\h38, {\h00, \h08, \h10, \h18, \h20, \h28, \h30, \h38}),
     HI_DATA_ONLY |-> Flag(\h40), STOP_ON_FTH |-> Flag(\h80)]
FIFO_CTRL5_t ==
    [FIFO_MODE |-> Enum(\h07, {\h00, \h01, \h02, \h03, \h04, \h05, \h06, \h07}),
     ODR_FIFO |-> Enum(\h78, {\h08, \h10, \h18, \h20, \h28, \h30, \h38, \h40, \h48, \h50, \h58})]
DRDY_PULSE_t == Flag(\h80)
INT1_CTRL_t ==
    [INT1_DRDY_XL |-> Flag(\h01), INT1_DRDY_G |-> Flag(\h02), INT1_BOOT |-> Flag(\h04),
     INT1_FTH |-> Flag(\h08), INT1_OVR |-> Flag(\h10), INT1_FULL_FLAG |-> Flag(\h20),
     INT1_SIGN_MOT |-> Flag(\h40), INT1_PEDO |-> Flag(\h80)]
INT2_CTRL_t ==
    [INT2_DRDY_XL |-> Flag(\h01), INT2_DRDY_G |-> Flag(\h02),
     INT2_DRDY_TEMP |-> Flag(\h04), INT2_FTH |-> Flag(\h08), INT2_OVR |-> Flag(\h10),
     INT2_FULL_FLAG |-> Flag(\h20), INT2_STEP_COUNT_OV |-> Flag(\h40),
     INT2_STEP_DELTA |-> Flag(\h80)]
CTRL3_C_t ==
    [SW_RESET |-> Flag(\h01), IF_INC |-> Flag(\h04), SIM |-> Flag(\h08),
     PP_OD |-> Flag(\h10), INT_ACT_LEVEL |-> Flag(\h20), BOOT |-> Flag(\h80)]
CTRL4_C_t ==
    [LPF1_SEL_G |-> Flag(\h02), I2C_DISABLE |-> Flag(\h04), DRDY_MSK |-> Flag(\h08),
     INT2_ON_INT1 |-> Flag(\h20), SLEEP_G |-> Flag(\h40)]
CTRL5_C_t ==
    [ST_XL |-> Enum(\h03, {\h00, \h01, \h02, \h03}),
     ST_G |-> Enum(\h0C, {\h00, \h04, \h08, \h0C}), DEN_LH |-> Flag(\h10),
     ROUNDING |-> Enum(\hE0, {\h00, \h20, \h40, \h60, \h80, \hA0, \hC0, \hE0})]
CTRL6_G_t ==
    [FTYPE |-> Enum(\h03, {\h00, \h01, \h02, \h03}), USR_OFF_W |-> Flag(\h08),
     LP_XL |-> Flag(\h10), DEN_LVL2_EN |-> Flag(\h20), DEN_LVL_EN |-> Flag(\h40),
     DEN_EDGE_EN |-> Flag(\h80)]
CTRL7_G_t ==
    [RND_STATUS |-> Flag(\h04), HPM_G |-> Enum(\h30, {\h00, \h10, \h20, \h30}),
     HP_EN |-> Flag(\h40), LP_EN |-> Flag(\h80), ROUNDING_STATUS |-> Flag(\h04),
     HP_G_RST |-> Flag(\h08)]
CTRL8_XL_t ==
    [LOW_PASS_ON_6D |-> Flag(\h01), HP_SLOPE_XL |-> Flag(\h04), IN_COMP |-> Flag(\h80),
     HP_REF_MODE |-> Flag(\h10), HPCF_XL |-> Enum(\h60, {\h00, \h20, \h40, \h60}),
     LPF2_XL |-> Flag(\h80)]
SOFT_t == Flag(\h04)
CTRL10_C_t ==
    [SIGN_MOTION_EN |-> Flag(\h01), PEDO_RST_STEP |-> Flag(\h02),
     FUNC_EN |-> Flag(\h04), TILT_G |-> Flag(\h08), PEDO |-> Flag(\h10),
     TIMER |-> Flag(\h20)]
MASTER_CONFIG_t ==
    [MASTER_ON |-> Flag(\h01), IRON_EN |-> Flag(\h02), PASS_THRU_MODE |-> Flag(\h04),
     PULL_UP_EN |-> Flag(\h08), START_CONFIG |-> Flag(\h10),
     DATA_VAL_SEL_FIFO |-> Flag(\h40), DRDY_ON_INT1 |-> Flag(\h80)]
WAKE_UP_SRC_t ==
    [Z_WU |-> Flag(\h01), Y_WU |-> Flag(\h02), X_WU |-> Flag(\h04),
     WU_EV_STATUS |-> Flag(\h08), SLEEP_EV_STATUS |-> Flag(\h10),
     FF_EV_STATUS |-> Flag(\h20)]
TAP_SRC_t ==
    [Z_TAP |-> Flag(\h01), Y_TAP |-> Flag(\h02), X_TAP |-> Flag(\h04),
     TAP_SIGN |-> Flag(\h08), DOUBLE_TAP_EV_STATUS |-> Flag(\h10),
     SINGLE_TAP_EV_STATUS |-> Flag(\h20), TAP_EV_STATUS |-> Flag(\h40)]
D6D_SRC_t ==
    [DSD_XL |-> Flag(\h01), DSD_XH |-> Flag(\h02), DSD_YL |-> Flag(\h04),
     DSD_YH |-> Flag(\h08), DSD_ZL |-> Flag(\h10), DSD_ZH |-> Flag(\h20),
     D6D_EV_STATUS |-> Flag(\h40)]
STATUS_REG_t ==
    [XLDA |-> Flag(\h01), GDA |-> Flag(\h02), TDA |-> Flag(\h04)]
FIFO_STATUS2_t ==
    [FIFO_EMPTY |-> Flag(\h10), FIFO_FULL |-> Flag(\h20), OVERRUN |-> Flag(\h40),
     WTM |-> Flag(\h80)]
FUNC_SRC_t ==
    [SENS_HUB_END |-> Flag(\h01), SOFT_IRON_END |-> Flag(\h02),
     SOFT_HARD_IRON_STAT |-> Flag(\h04), STEP_OVERFLOW |-> Flag(\h08),
     PEDO_EV_STATUS |-> Flag(\h10), TILT_EV_STATUS |-> Flag(\h20),
     SIGN_MOT_EV_STATUS |-> Flag(\h40), STEP_COUNT_DELTA |-> Flag(\h80)]
TAP_CFG1_t ==
    [LIR |-> Flag(\h01), TAP_Z_EN |-> Flag(\h02), TAP_Y_EN |-> Flag(\h04),
     TAP_X_EN |-> Flag(\h08), SLOPE_FDS |-> Flag(\h10), INT_EN |-> Flag(\h80)]
TAP_THS_6D_t ==
    [TAP_THS |-> Number(\h1F, 0), SIXD_THS |-> Enum(\h60, {\h00, \h20, \h40, \h60}),
     D4D |-> Flag(\h80)]
INT_DUR2_t ==
    [SHOCK |-> Number(\h03, 0), QUIET |-> Number(\h0C, 2), DUR |-> Number(\hF0, 4)]
WAKE_UP_THS_t ==
    [WK_THS |-> Number(\h3F, 0), SINGLE_DOUBLE_TAP |-> Flag(\h80)]
WAKE_UP_DUR_t ==
    [SLEEP_DUR |-> Number(\h0F, 0), TIMER_HR |-> Flag(\h10),
     WAKE_DUR |-> Number(\h60, 5)]
FF_THS_t == Enum(\h07, {\h00, \h01, \h02, \h03, \h04, \h05, \h06, \h07})
MD1_CFG_t ==
    [INT1_TIMER |-> Flag(\h01), INT1_TILT |-> Flag(\h02), INT1_6D |-> Flag(\h04),
     INT1_TAP |-> Flag(\h08), INT1_FF |-> Flag(\h10), INT1_WU |-> Flag(\h20),
     INT1_SINGLE_TAP |-> Flag(\h40), INT1_SLEEP |-> Flag(\h80)]
MD2_CFG_t ==
    [INT2_IRON |-> Flag(\h01), INT2_TILT |-> Flag(\h02), INT2_6D |-> Flag(\h04),
     INT2_TAP |-> Flag(\h08), INT2_FF |-> Flag(\h10), INT2_WU |-> Flag(\h20),
     INT2_SINGLE_TAP |-> Flag(\h40), INT2_SLEEP |-> Flag(\h80)]

\* The types of fields that lie in two registers.
WTM_FIFO_n == <<Number(\hFF, 0), Number(\h07, 0)>>
DIFF_FIFO_n == <<Number(\hFF, 0), Number(\h0F, 0)>>
FIFO_PATTERN_n == <<Number(\hFF, 0), Number(\h03, 0)>>
FF_DUR_n == <<Number(\hF8, 3), Number(\h80, 7)>>

=============================================================================
