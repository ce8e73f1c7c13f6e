\* Two ranks, one of them refreshed ahead of time.
SPECIFICATION HSpec
CONSTANTS
  NUM_RANKS = 2
  NUM_BANKS = 1
  Rows = {r1, r2}
  NoRow = NoRow
  T_RCD = 2
  T_RP = 2
  T_CAS = 2
  T_RAS = 3
  T_RC = 5
  T_CWD = 2
  T_WR = 2
  T_WTR = 1
  T_RTRS = 1
  T_DATA_TRANS = 1
  T_RTP = 1
  T_CCD = 2
  T_XP = 2
  T_XP_DLL = 3
  T_PD_MIN = 2
  T_RRD = 1
  T_FAW = 6
  T_RFC = 2
  T_REFI = 8
  REFRESHES = 2
SYMMETRY RowSymmetry
PROPERTIES PowerupMeetsDeadline
