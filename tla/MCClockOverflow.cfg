\* A clock that outgrows an int of 6 bits.
SPECIFICATION ClockSpec
CONSTANTS
  PROCESSOR_CLK_MULTIPLIER = 2
  BIG_ACTIVATION_WINDOW = 15
  INT_MAX = 31
  LastCycle = 100
  MaxRefreshes = 3
  NUM_RANKS = 1
  NUM_BANKS = 1
  Rows = {r1}
  NoRow = NoRow
  T_RCD = 1
  T_RP = 1
  T_CAS = 1
  T_RAS = 2
  T_RC = 3
  T_CWD = 1
  T_WR = 1
  T_WTR = 1
  T_RTRS = 1
  T_DATA_TRANS = 1
  T_RTP = 1
  T_CCD = 1
  T_XP = 1
  T_XP_DLL = 1
  T_PD_MIN = 1
  T_RRD = 1
  T_FAW = 5
  T_RFC = 2
  T_REFI = 6
  REFRESHES = 2
\* The model stops at LastCycle.
CHECK_DEADLOCK FALSE
PROPERTIES AutoRefreshGoesOn
