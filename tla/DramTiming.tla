----------------------------- MODULE DramTiming -----------------------------
(***************************************************************************)
(* The timing side of src/memory_controller.c: what each DRAM command does *)
(* to the record the controller keeps of one bank (dram_state), and the    *)
(* constants of params.h.                                                  *)
(*                                                                         *)
(* Time.  The memory controller runs once every PROCESSOR_CLK_MULTIPLIER   *)
(* processor cycles and configfile.h multiplies every T_* by that same     *)
(* number, so one unit of this model is one DRAM cycle.  The source keeps  *)
(* every next_<cmd> as an absolute cycle, compares it only with CYCLE_VAL  *)
(* and overwrites it only with max(CYCLE_VAL + T, next_<cmd>).  Here a     *)
(* next_<cmd> is the number of cycles still to wait, 0 once the wait is    *)
(* over: CYCLE_VAL >= next is next = 0, and max(CYCLE_VAL + T, next) is    *)
(* Later(T, next).                                                         *)
(***************************************************************************)
EXTENDS Integers, FiniteSets

CONSTANTS
  NUM_RANKS, NUM_BANKS,   \* ranks of the channel, banks of a rank
  Rows, NoRow,            \* rows of a bank; active_row = -1
  T_RCD, T_RP, T_CAS, T_RAS, T_RC, T_CWD, T_WR, T_WTR, T_RTRS, T_DATA_TRANS,
  T_RTP, T_CCD, T_XP, T_XP_DLL, T_PD_MIN, T_RRD, T_FAW, T_RFC, T_REFI,
  REFRESHES               \* refreshes owed per window: the literal 8 of the source

Ranks == 0 .. NUM_RANKS - 1
Banks == 0 .. NUM_BANKS - 1

Timings == {T_RCD, T_RP, T_CAS, T_RAS, T_RC, T_CWD, T_WR, T_WTR, T_RTRS,
            T_DATA_TRANS, T_RTP, T_CCD, T_XP, T_XP_DLL, T_PD_MIN, T_RRD,
            T_FAW, T_RFC, T_REFI}

ASSUME SizesAssumption ==
  /\ NUM_RANKS \in Nat \ {0} /\ NUM_BANKS \in Nat \ {0} /\ REFRESHES \in Nat \ {0}
  /\ NoRow \notin Rows

ASSUME TimingsAssumption == Timings \subseteq Nat

\* Length of a refresh window, and the part of it that owes m refreshes must keep free.
RefreshWindow == REFRESHES * T_REFI
RefreshTail(m) == T_RP + m * T_RFC

\* A window is longer than the refreshes owed in it; otherwise the deadline
\* computed at its start would already have passed and never be met.
ASSUME WindowAssumption == RefreshTail(REFRESHES) < RefreshWindow

\* A precharge takes time, so the deadline for issuing refreshes comes strictly
\* before the end of the window.
ASSUME PrechargeAssumption == T_RP > 0

\* Leaving slow power-down takes at least as long as leaving fast power-down.
ASSUME ExitAssumption == T_XP <= T_XP_DLL

-----------------------------------------------------------------------------
\* dram_state_t of memory_controller.h

Closed      == {"IDLE", "PRECHARGING", "REFRESHING"}
PoweredUp   == Closed \cup {"ROW_ACTIVE"}
PrePwrDown  == {"PRECHARGE_POWER_DOWN_SLOW", "PRECHARGE_POWER_DOWN_FAST"}
PoweredDown == PrePwrDown \cup {"ACTIVE_POWER_DOWN"}

BankRecord ==
  [state : PoweredUp \cup PoweredDown, active_row : Rows \cup {NoRow},
   next_pre : Nat, next_act : Nat, next_read : Nat, next_write : Nat,
   next_powerdown : Nat, next_powerup : Nat, next_refresh : Nat]

IdleBank ==
  [state |-> "IDLE", active_row |-> NoRow,
   next_pre |-> 0, next_act |-> 0, next_read |-> 0, next_write |-> 0,
   next_powerdown |-> 0, next_powerup |-> 0, next_refresh |-> 0]

Later(t, next) == IF t > next THEN t ELSE next

\* CYCLE_VAL++ as a bank sees it.
Elapsed(next) == IF next > 0 THEN next - 1 ELSE 0
Aged(k) ==
  [k EXCEPT !.next_pre = Elapsed(@), !.next_act = Elapsed(@),
            !.next_read = Elapsed(@), !.next_write = Elapsed(@),
            !.next_powerdown = Elapsed(@), !.next_powerup = Elapsed(@),
            !.next_refresh = Elapsed(@)]

-----------------------------------------------------------------------------
\* Effects of the commands on one bank.  The operators called Faulty... , here and
\* in the other modules, are bugs the properties are shown to catch; nothing uses them.

FaultyActivatedBank(k, row) ==              \* forgets tRAS
  [k EXCEPT !.state = "ROW_ACTIVE", !.active_row = row,
            !.next_refresh = Later(T_RAS, @),
            !.next_read = Later(T_RCD, @), !.next_write = Later(T_RCD, @),
            !.next_act = Later(T_RC, @), !.next_powerdown = Later(T_RCD, @)]

ActivatedBank(k, row) ==
  [k EXCEPT !.state = "ROW_ACTIVE", !.active_row = row,
            !.next_pre = Later(T_RAS, @), !.next_refresh = Later(T_RAS, @),
            !.next_read = Later(T_RCD, @), !.next_write = Later(T_RCD, @),
            !.next_act = Later(T_RC, @), !.next_powerdown = Later(T_RCD, @)]

\* The bank that served a column command may be precharged, refreshed or put
\* to sleep only busy cycles later.
ColumnBank(k, busy) ==
  [k EXCEPT !.next_pre = Later(busy, @), !.next_refresh = Later(busy, @),
            !.next_powerdown = Later(busy, @)]

WriteRecovery == T_CWD + T_DATA_TRANS + T_WR
ColumnGap == Later(T_CCD, T_DATA_TRANS)

FaultyAfterRead(k, sameRank) ==             \* forgets to switch ranks
  [k EXCEPT !.next_read = Later(IF sameRank THEN ColumnGap ELSE T_DATA_TRANS, @),
            !.next_write = Later(T_CAS + T_DATA_TRANS + T_RTRS - T_CWD, @)]

\* What a read, or a write, on the channel makes every bank of it wait.
AfterRead(k, sameRank) ==
  [k EXCEPT !.next_read = Later(IF sameRank THEN ColumnGap ELSE T_DATA_TRANS + T_RTRS, @),
            !.next_write = Later(T_CAS + T_DATA_TRANS + T_RTRS - T_CWD, @)]

AfterWrite(k, sameRank) ==
  IF sameRank
  THEN [k EXCEPT !.next_write = Later(ColumnGap, @),
                 !.next_read = Later(T_CWD + T_DATA_TRANS + T_WTR, @)]
  ELSE [k EXCEPT !.next_write = Later(T_DATA_TRANS + T_RTRS, @),
                 !.next_read = Later(T_CWD + T_DATA_TRANS + T_RTRS - T_CAS, @)]

\* A precharge that begins start cycles from now (0 but for an auto-precharge).
PrechargedBank(k, start) ==
  [k EXCEPT !.state = "PRECHARGING", !.active_row = NoRow,
            !.next_act = Later(start + T_RP, @), !.next_powerdown = Later(start + T_RP, @),
            !.next_pre = Later(start + T_RP, @), !.next_refresh = Later(start + T_RP, @)]

FaultyPoweredDownBank(k, sleep) ==          \* lets a refresh cut the nap short
  [k EXCEPT !.state = IF k.state = "ROW_ACTIVE" THEN "ACTIVE_POWER_DOWN" ELSE sleep,
            !.active_row = IF k.state = "ROW_ACTIVE" THEN @ ELSE NoRow,
            !.next_powerup = Later(T_PD_MIN, k.next_powerdown)]

PoweredDownBank(k, sleep) ==
  [k EXCEPT !.state = IF k.state = "ROW_ACTIVE" THEN "ACTIVE_POWER_DOWN" ELSE sleep,
            !.active_row = IF k.state = "ROW_ACTIVE" THEN @ ELSE NoRow,
            !.next_powerup = Later(T_PD_MIN, k.next_powerdown),
            !.next_refresh = Later(T_PD_MIN, @)]

\* The source picks the exit latency by testing the state it has just assigned.
PoweredUpBank(k) ==
  LET woken == IF k.state \in PrePwrDown
               THEN [k EXCEPT !.state = "IDLE", !.active_row = NoRow]
               ELSE [k EXCEPT !.state = "ROW_ACTIVE"]
      exit  == IF woken.state = "PRECHARGE_POWER_DOWN_SLOW" THEN T_XP_DLL ELSE T_XP
  IN  [woken EXCEPT !.next_powerdown = Later(exit, @), !.next_pre = Later(exit, @),
                    !.next_read = Later(exit, @), !.next_write = Later(exit, @),
                    !.next_act = Later(exit, @), !.next_refresh = Later(exit, @)]

\* Cycles before a refresh of the rank bs starts: the wake-up bank 0 needs, and
\* the precharge of whatever is open.
RefreshLead(bs) ==
  CASE bs[0].state = "PRECHARGE_POWER_DOWN_SLOW" -> T_XP_DLL
    [] bs[0].state = "PRECHARGE_POWER_DOWN_FAST" -> T_XP
    [] bs[0].state = "ACTIVE_POWER_DOWN"         -> T_XP + T_RP
    [] OTHER -> IF \E b \in Banks : bs[b].state = "ROW_ACTIVE" THEN T_RP ELSE 0

RefreshedBank(k, lead) ==
  [k EXCEPT !.state = "REFRESHING", !.active_row = NoRow,
            !.next_act = Later(lead + T_RFC, @), !.next_pre = Later(lead + T_RFC, @),
            !.next_refresh = Later(lead + T_RFC, @),
            !.next_powerdown = Later(lead + T_RFC, @)]

FaultyForceRefreshedBank(k, completion) ==  \* lets the bank be activated meanwhile
  [k EXCEPT !.state = "REFRESHING", !.active_row = NoRow, !.next_pre = completion,
            !.next_refresh = completion, !.next_powerdown = completion]

\* A forced refresh assigns, it does not take the later of the two.
ForceRefreshedBank(k, completion) ==
  [k EXCEPT !.state = "REFRESHING", !.active_row = NoRow,
            !.next_act = completion, !.next_pre = completion,
            !.next_refresh = completion, !.next_powerdown = completion]

-----------------------------------------------------------------------------
\* The activation record of a rank holds the ages of its activates.

FaultyIsFawMet(record) == Cardinality(record \cap (1 .. T_FAW)) <= 4

IsFawMet(record) == Cardinality(record \cap (1 .. T_FAW)) < 4

FaultyFlushActivateRecord(record) == record \ {T_FAW + 2}  \* a cycle late

FlushActivateRecord(record) == record \ {T_FAW + 1}

-----------------------------------------------------------------------------
\* The refresh bookkeeping of a rank, in cycles from now.

RefreshRecord ==
  [completion_deadline : Int, issue_deadline : Int, num_issued : Nat, forced : BOOLEAN]

NewRefreshWindow ==
  [completion_deadline |-> RefreshWindow,
   issue_deadline |-> RefreshWindow - RefreshTail(REFRESHES),
   num_issued |-> 0, forced |-> FALSE]

AtCompletion(f) == f.completion_deadline = 0
FaultyAtForcedRefresh(f) ==                 \* forgives the last refresh
  ~AtCompletion(f) /\ f.issue_deadline = 0 /\ f.num_issued < REFRESHES - 1

AtForcedRefresh(f) ==
  ~AtCompletion(f) /\ f.issue_deadline = 0 /\ f.num_issued < REFRESHES

\* CYCLE_VAL++ as the refresh deadlines see it, then the refresh part of update_memory.
AgedRefresh(f) ==
  [f EXCEPT !.completion_deadline = @ - 1, !.issue_deadline = @ - 1]

FaultyNewWindow(f) ==                       \* does not leave the forced mode
  IF AtCompletion(f) THEN [NewRefreshWindow EXCEPT !.forced = f.forced]
  ELSE IF AtForcedRefresh(f) THEN [f EXCEPT !.forced = TRUE]
  ELSE IF f.issue_deadline > 0
       THEN [f EXCEPT !.issue_deadline =
               f.completion_deadline - RefreshTail(REFRESHES - f.num_issued)]
       ELSE f

FaultyMovedDeadline(f) ==                   \* counts the refreshes done, not owed
  IF AtCompletion(f) THEN NewRefreshWindow
  ELSE IF AtForcedRefresh(f) THEN [f EXCEPT !.forced = TRUE]
  ELSE IF f.issue_deadline > 0
       THEN [f EXCEPT !.issue_deadline = f.completion_deadline - RefreshTail(f.num_issued)]
       ELSE f

UpdatedRefresh(f) ==
  IF AtCompletion(f) THEN NewRefreshWindow
  ELSE IF AtForcedRefresh(f) THEN [f EXCEPT !.forced = TRUE]
  ELSE IF f.issue_deadline > 0
       THEN [f EXCEPT !.issue_deadline =
               f.completion_deadline - RefreshTail(REFRESHES - f.num_issued)]
       ELSE f
=============================================================================
