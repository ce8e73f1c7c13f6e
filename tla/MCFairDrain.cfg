\* A drain that begins for the number of writes, after one for want of reads.
SPECIFICATION SimulatorSpec
CONSTANTS
  Policies = {"fair"}
  Cores = {1, 2}
  TraceNames <- MCTraceNames
  ROBSIZE = 2
  MAX_RETIRE = 2
  MAX_FETCH = 2
  PIPELINEDEPTH = 1
  PROCESSOR_CLK_MULTIPLIER = 2
  BIGNUM = 100
  Lines <- MCLateLines
  TraceLength = 3
  WQ_CAPACITY = 2
  WQ_LOOKUP_LATENCY = 2
  HI_WM = 1
  LO_WM = 0
  PWRN = 1
  CAPN = 2
  MAX_CREDITS = 8
  MIN_WRITES_ONCE_WRITING_HAS_BEGUN = 1
  NUM_CHANNELS = 1
  NUM_RANKS = 2
  NUM_BANKS = 2
  NUM_ROWS = 2
  NUM_COLUMNS = 2
  CACHE_LINE_SIZE = 2
  ADDRESS_MAPPING = 0
  ADDRESS_BITS = 5
  Rows = {0, 1, 2, 3}
  NoRow = NoRow
  T_RCD = 2
  T_RP = 2
  T_CAS = 2
  T_RAS = 3
  T_RC = 5
  T_CWD = 1
  T_WR = 2
  T_WTR = 1
  T_RTRS = 1
  T_DATA_TRANS = 1
  T_RTP = 1
  T_CCD = 1
  T_XP = 1
  T_XP_DLL = 2
  T_PD_MIN = 1
  T_RRD = 1
  T_FAW = 4
  T_RFC = 2
  T_REFI = 12
  REFRESHES = 2
PROPERTIES FlagTellsReason
