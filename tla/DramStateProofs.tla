--------------------------- MODULE DramStateProofs ---------------------------
(***************************************************************************)
(* Theorems about the states of the banks of Dram: which combinations of   *)
(* sleeping, open and refreshing banks a rank can be in, whatever the      *)
(* scheduler issues, refreshes included.                                   *)
(***************************************************************************)
EXTENDS PowerStats, DramProofs

\* The rank-wise part of the inductive invariant, for refresh bookkeeping f and banks bs.

\* ForcedRankInactive, for one rank.
Inactive(f, bs) ==
  f.forced =>
    \A b \in Banks :
      /\ bs[b].state = "REFRESHING"
      /\ bs[b].next_act = f.completion_deadline
      /\ bs[b].next_refresh = f.completion_deadline

\* RankSleepsAsOne, for one rank.
SleepsAsOne(bs) ==
  \A b \in Banks :
    /\ bs[b].state \in PoweredDown <=> bs[0].state \in PoweredDown
    /\ bs[b].state = "PRECHARGE_POWER_DOWN_SLOW" <=> bs[0].state = "PRECHARGE_POWER_DOWN_SLOW"
    /\ bs[b].state \in PoweredDown => bs[b].next_refresh >= bs[b].next_powerup

\* A bank holds a row exactly in the states in which a row is open.
HoldsRow(k) == k.active_row # NoRow <=> k.state \in {"ROW_ACTIVE", "ACTIVE_POWER_DOWN"}

RankInv(f, bs) ==
  Inactive(f, bs) /\ SleepsAsOne(bs) /\ \A b \in Banks : HoldsRow(bs[b])

\* What is remembered of the column command of the cycle: a bank that may still take an
\* auto-precharge has its row open, for the command bus is taken.
ColumnsOpen ==
  \A r \in Ranks, b \in Banks :
    cas_issued_current_cycle[r][b] # 0 => command_issued_current_cycle /\ State(r, b) = "ROW_ACTIVE"

StateInv ==
  /\ Inv
  /\ \A r \in Ranks : RankInv(refresh[r], dram_state[r])
  /\ ColumnsOpen

RankOfBanks == [Banks -> BankRecord]

-----------------------------------------------------------------------------
\* What each command does to a rank that satisfies the invariant.

\* Only timers that the invariant does not mention change.
LEMMA SameShape ==
  ASSUME NEW f, NEW bs, NEW cs, RankInv(f, bs),
         \A b \in Banks :
           /\ cs[b].state = bs[b].state /\ cs[b].active_row = bs[b].active_row
           /\ cs[b].next_act = bs[b].next_act /\ cs[b].next_powerup = bs[b].next_powerup
           /\ cs[b].next_refresh = bs[b].next_refresh
  PROVE  RankInv(f, cs)
BY Constants DEF RankInv, Inactive, SleepsAsOne, HoldsRow

LEMMA RankActivated ==
  ASSUME NEW f, NEW bs \in RankOfBanks, RankInv(f, bs), ~f.forced,
         NEW b \in Banks, NEW row \in Rows, bs[b].state \in Closed
  PROVE  RankInv(f, [c \in Banks |-> IF c = b THEN ActivatedBank(bs[c], row)
                                     ELSE [bs[c] EXCEPT !.next_act = Later(T_RRD, @)]])
<1> DEFINE cs == [c \in Banks |-> IF c = b THEN ActivatedBank(bs[c], row)
                                  ELSE [bs[c] EXCEPT !.next_act = Later(T_RRD, @)]]
<1>1. \A c \in Banks : bs[c] \in BankRecord
  BY DEF RankOfBanks
<1>2. cs[b].state = "ROW_ACTIVE" /\ cs[b].active_row = row
  BY <1>1 DEF ActivatedBank, BankRecord
<1>3. \A c \in Banks \ {b} :
        /\ cs[c].state = bs[c].state /\ cs[c].active_row = bs[c].active_row
        /\ cs[c].next_powerup = bs[c].next_powerup /\ cs[c].next_refresh = bs[c].next_refresh
  BY <1>1 DEF BankRecord
<1>4. \A c \in Banks : bs[c].state \notin PoweredDown
  BY Constants DEF RankInv, SleepsAsOne, Closed, PoweredDown, PrePwrDown
<1> HIDE DEF cs
<1>5. \A c \in Banks : cs[c].state \notin PoweredDown
  BY <1>2, <1>3, <1>4 DEF PoweredDown, PrePwrDown
<1>6. SleepsAsOne(cs)
  BY <1>5, Constants DEF SleepsAsOne, PoweredDown, PrePwrDown
<1>7. \A c \in Banks : HoldsRow(cs[c])
  BY <1>2, <1>3, SizesAssumption DEF RankInv, HoldsRow
<1>8. QED
  BY <1>6, <1>7 DEF RankInv, Inactive, cs

\* The banks of a rank some of which are precharged.
PrechargedRank(bs, banks, start) ==
  [c \in Banks |-> IF c \in banks THEN PrechargedBank(bs[c], start) ELSE bs[c]]

LEMMA RankPrecharged ==
  ASSUME NEW f, NEW bs \in RankOfBanks, RankInv(f, bs), ~f.forced,
         NEW banks \in SUBSET Banks, NEW start,
         banks # {}, \A b \in banks : bs[b].state \in PoweredUp
  PROVE  RankInv(f, PrechargedRank(bs, banks, start))
<1> DEFINE cs == PrechargedRank(bs, banks, start)
<1>1. \A c \in Banks : bs[c] \in BankRecord
  BY DEF RankOfBanks
<1>2. \A c \in banks : cs[c].state = "PRECHARGING" /\ cs[c].active_row = NoRow
  BY <1>1 DEF PrechargedRank, PrechargedBank, BankRecord
<1>3. \A c \in Banks \ banks : cs[c] = bs[c]
  BY DEF PrechargedRank
<1>4. \A c \in Banks : bs[c].state \notin PoweredDown
  BY Constants DEF RankInv, SleepsAsOne, PoweredUp, Closed, PoweredDown, PrePwrDown
<1> HIDE DEF cs
<1>5. \A c \in Banks : cs[c].state \notin PoweredDown
  BY <1>2, <1>3, <1>4 DEF PoweredDown, PrePwrDown
<1>6. SleepsAsOne(cs)
  BY <1>5, Constants DEF SleepsAsOne, PoweredDown, PrePwrDown
<1>7. \A c \in Banks : HoldsRow(cs[c])
  BY <1>2, <1>3 DEF RankInv, HoldsRow
<1>8. QED
  BY <1>6, <1>7 DEF RankInv, Inactive, cs

\* The bank that served a column command has its row open, so no bank of its rank sleeps.
LEMMA RankColumn ==
  ASSUME NEW f, NEW bs, NEW cs, RankInv(f, bs), ~f.forced,
         NEW b \in Banks, bs[b].state = "ROW_ACTIVE",
         \A c \in Banks : cs[c].state = bs[c].state /\ cs[c].active_row = bs[c].active_row
  PROVE  RankInv(f, cs)
<1>1. \A c \in Banks : bs[c].state \notin PoweredDown
  BY Constants DEF RankInv, SleepsAsOne, PoweredDown, PrePwrDown
<1>2. QED
  BY <1>1, Constants DEF RankInv, Inactive, SleepsAsOne, HoldsRow, PoweredDown, PrePwrDown

LEMMA RankPoweredUp ==
  ASSUME NEW f, NEW bs \in RankOfBanks, RankInv(f, bs), ~f.forced,
         NEW b \in Banks, bs[b].state \in PoweredDown
  PROVE  RankInv(f, [c \in Banks |-> PoweredUpBank(bs[c])])
<1> DEFINE cs == [c \in Banks |-> PoweredUpBank(bs[c])]
<1>1. \A c \in Banks : bs[c] \in BankRecord
  BY DEF RankOfBanks
<1>2. \A c \in Banks : bs[c].state \in PoweredDown
  BY Constants DEF RankInv, SleepsAsOne
<1>3. ASSUME NEW c \in Banks
      PROVE  IF bs[c].state \in PrePwrDown
             THEN cs[c].state = "IDLE" /\ cs[c].active_row = NoRow
             ELSE cs[c].state = "ROW_ACTIVE" /\ cs[c].active_row = bs[c].active_row
  BY <1>1 DEF PoweredUpBank, BankRecord
<1> HIDE DEF cs
<1>4. SleepsAsOne(cs)
  BY <1>3, Constants DEF SleepsAsOne, PoweredDown, PrePwrDown
<1>5. \A c \in Banks : HoldsRow(cs[c])
  BY <1>2, <1>3 DEF RankInv, HoldsRow, PoweredDown, PrePwrDown
<1>6. QED
  BY <1>4, <1>5 DEF RankInv, Inactive, cs

LEMMA RankPoweredDown ==
  ASSUME NEW f, NEW bs \in RankOfBanks, RankInv(f, bs), ~f.forced, NEW sleep \in PrePwrDown,
         \A b \in Banks : bs[b].state \in PoweredUp /\ bs[b].next_powerdown = 0,
         sleep = "PRECHARGE_POWER_DOWN_SLOW" => \A b \in Banks : bs[b].state \in Closed
  PROVE  RankInv(f, [c \in Banks |-> PoweredDownBank(bs[c], sleep)])
<1> DEFINE cs == [c \in Banks |-> PoweredDownBank(bs[c], sleep)]
<1>1. \A c \in Banks : bs[c] \in BankRecord
  BY DEF RankOfBanks
<1>2. ASSUME NEW c \in Banks
      PROVE  /\ IF bs[c].state = "ROW_ACTIVE"
                THEN cs[c].state = "ACTIVE_POWER_DOWN" /\ cs[c].active_row = bs[c].active_row
                ELSE cs[c].state = sleep /\ cs[c].active_row = NoRow
             /\ cs[c].next_powerup = Later(T_PD_MIN, 0)
             /\ cs[c].next_refresh = Later(T_PD_MIN, bs[c].next_refresh)
  BY <1>1 DEF PoweredDownBank, BankRecord
<1>3. \A c \in Banks : cs[c].next_refresh >= cs[c].next_powerup
  BY <1>1, <1>2, Constants DEF Later, BankRecord
<1> HIDE DEF cs
<1>4. SleepsAsOne(cs)
  BY <1>2, <1>3, Constants DEF SleepsAsOne, PoweredDown, PrePwrDown, Closed
<1>5. \A c \in Banks : HoldsRow(cs[c])
  BY <1>2 DEF RankInv, HoldsRow, PrePwrDown
<1>6. QED
  BY <1>4, <1>5 DEF RankInv, Inactive, cs

\* A rank all of whose banks refresh.
LEMMA RankRefreshing ==
  ASSUME NEW f, NEW cs, Inactive(f, cs),
         \A c \in Banks : cs[c].state = "REFRESHING" /\ cs[c].active_row = NoRow
  PROVE  RankInv(f, cs)
BY Constants DEF RankInv, SleepsAsOne, HoldsRow, PoweredDown, PrePwrDown

\* One cycle: forced refreshes start or go on, or the window ends.
LEMMA RankCycle ==
  ASSUME NEW f \in RefreshRecord, Scheduled(f), NEW bs \in RankOfBanks, RankInv(f, bs)
  PROVE  LET g == AgedRefresh(f)
         IN  RankInv(UpdatedRefresh(g),
                     [b \in Banks |-> IF AtForcedRefresh(g)
                                      THEN ForceRefreshedBank(Aged(bs[b]), g.completion_deadline)
                                      ELSE Aged(bs[b])])
<1> DEFINE g == AgedRefresh(f)
           h == UpdatedRefresh(g)
           cs == [b \in Banks |-> IF AtForcedRefresh(g)
                                  THEN ForceRefreshedBank(Aged(bs[b]), g.completion_deadline)
                                  ELSE Aged(bs[b])]
<1>1. \A b \in Banks : bs[b] \in BankRecord /\ Aged(bs[b]) \in BankRecord
  BY BankTypes DEF RankOfBanks
<1>2. g \in RefreshRecord /\ g.completion_deadline = f.completion_deadline - 1 /\ g.forced = f.forced
  <2>1. g \in RefreshRecord
    BY RefreshCycle
  <2>2. QED
    BY <2>1 DEF AgedRefresh, RefreshRecord
<1>3. CASE AtForcedRefresh(g)
  <2>1. h.completion_deadline = g.completion_deadline
    BY <1>2, <1>3 DEF UpdatedRefresh, AtForcedRefresh, RefreshRecord
  <2>2. \A b \in Banks : /\ cs[b].state = "REFRESHING" /\ cs[b].active_row = NoRow
                         /\ cs[b].next_act = g.completion_deadline
                         /\ cs[b].next_refresh = g.completion_deadline
    BY <1>1, <1>3 DEF ForceRefreshedBank, BankRecord
  <2>3. QED
    BY <2>1, <2>2, RankRefreshing DEF Inactive
<1>4. CASE ~AtForcedRefresh(g)
  <2>1. ASSUME NEW b \in Banks
        PROVE  /\ cs[b].state = bs[b].state /\ cs[b].active_row = bs[b].active_row
               /\ cs[b].next_act = Elapsed(bs[b].next_act)
               /\ cs[b].next_powerup = Elapsed(bs[b].next_powerup)
               /\ cs[b].next_refresh = Elapsed(bs[b].next_refresh)
    BY <1>1, <1>4 DEF Aged, BankRecord
  <2>2. SleepsAsOne(cs)
    <3>1. \A b \in Banks : bs[b].next_refresh >= bs[b].next_powerup
                             => cs[b].next_refresh >= cs[b].next_powerup
      BY <1>1, <2>1 DEF Elapsed, BankRecord
    <3> HIDE DEF cs
    <3>2. QED
      BY <2>1, <3>1, Constants DEF RankInv, SleepsAsOne
  <2>3. \A b \in Banks : HoldsRow(cs[b])
    BY <2>1 DEF RankInv, HoldsRow
  <2>4. Inactive(h, cs)
    <3>1. h.forced => f.forced /\ h.completion_deadline = f.completion_deadline - 1
      BY <1>2, <1>4 DEF UpdatedRefresh, NewRefreshWindow, RefreshRecord
    <3>2. f.completion_deadline \in Int /\ f.completion_deadline > 0
      BY DEF Scheduled, RefreshRecord
    <3> HIDE DEF cs, h
    <3>3. QED
      BY <2>1, <3>1, <3>2 DEF RankInv, Inactive, Elapsed
  <2>5. QED
    BY <2>2, <2>3, <2>4 DEF RankInv
<1>5. QED
  BY <1>3, <1>4

-----------------------------------------------------------------------------
\* The steps of the controller.

\* A command of one rank that leaves no mark of a column access.
LEMMA CommandState ==
  ASSUME StateInv, Inv', ~command_issued_current_cycle, NEW r \in Ranks, NEW cs, NEW f,
         refresh' = [refresh EXCEPT ![r] = f],
         dram_state' = [dram_state EXCEPT ![r] = cs],
         RankInv(f, cs),
         UNCHANGED cas_issued_current_cycle
  PROVE  StateInv'
<1>1. \A i \in Ranks : RankInv(refresh'[i], dram_state'[i])
  BY DEF StateInv, Inv, TypeOK
<1>2. \A i \in Ranks, b \in Banks : cas_issued_current_cycle'[i][b] = 0
  BY DEF StateInv, ColumnsOpen
<1>3. QED
  BY <1>1, <1>2 DEF StateInv, ColumnsOpen

\* What the invariant says of one rank.
LEMMA OneRank ==
  ASSUME StateInv, NEW r \in Ranks
  PROVE  /\ dram_state[r] \in RankOfBanks /\ RankInv(refresh[r], dram_state[r])
         /\ refresh[r] \in RefreshRecord /\ Scheduled(refresh[r])
         /\ refresh = [refresh EXCEPT ![r] = refresh[r]]
BY DEF StateInv, Inv, TypeOK, RankOfBanks, RefreshOnSchedule

LEMMA ActivateState ==
  ASSUME StateInv, Inv', NEW r \in Ranks, NEW b \in Banks, NEW row \in Rows,
         ActIssuable(r, b), Activate(r, b, row)
  PROVE  StateInv'
<1>1. RankInv(refresh[r], [c \in Banks |-> IF c = b THEN ActivatedBank(dram_state[r][c], row)
                             ELSE [dram_state[r][c] EXCEPT !.next_act = Later(T_RRD, @)]])
  BY OneRank, RankActivated DEF ActIssuable, Refreshable, State
<1>2. QED
  BY <1>1, OneRank, CommandState DEF Activate, IssueOnBus

LEMMA PrechargeState ==
  ASSUME StateInv, Inv', NEW r \in Ranks, NEW banks \in SUBSET Banks, Precharge(r, banks),
         banks # {}, ~refresh[r].forced, \A b \in banks : State(r, b) \in PoweredUp
  PROVE  StateInv'
<1>1. RankInv(refresh[r], PrechargedRank(dram_state[r], banks, 0))
  BY OneRank, RankPrecharged DEF State
<1>2. QED
  BY <1>1, OneRank, CommandState DEF Precharge, IssueOnBus, PrechargedRank

LEMMA PowerUpState ==
  ASSUME StateInv, Inv', NEW r \in Ranks, NEW b \in Banks, PowerUp(r),
         State(r, b) \in PoweredDown
  PROVE  StateInv'
<1>1. ~refresh[r].forced
  BY OneRank DEF RankInv, Inactive, State, PoweredDown, PrePwrDown
<1>2. RankInv(refresh[r], [c \in Banks |-> PoweredUpBank(dram_state[r][c])])
  BY <1>1, OneRank, RankPoweredUp DEF State
<1>3. QED
  BY <1>2, OneRank, CommandState DEF PowerUp, IssueOnBus

LEMMA PowerdownState ==
  ASSUME StateInv, Inv', NEW r \in Ranks, NEW sleep \in PrePwrDown, IssuePowerdownCommand(r, sleep)
  PROVE  StateInv'
<1>1. /\ ~refresh[r].forced
      /\ \A b \in Banks : dram_state[r][b].state \in PoweredUp /\ dram_state[r][b].next_powerdown = 0
      /\ sleep = "PRECHARGE_POWER_DOWN_SLOW" => \A b \in Banks : dram_state[r][b].state \in Closed
  BY DEF IssuePowerdownCommand, IsPowerdownFastAllowed, IsPowerdownSlowAllowed, Refreshable, State,
         PoweredUp
<1>2. RankInv(refresh[r], [c \in Banks |-> PoweredDownBank(dram_state[r][c], sleep)])
  BY <1>1, OneRank, RankPoweredDown
<1>3. QED
  BY <1>2, OneRank, CommandState DEF IssuePowerdownCommand, IssueOnBus

LEMMA RefreshState ==
  ASSUME StateInv, Inv', NEW r \in Ranks, IssueRefreshCommand(r)
  PROVE  StateInv'
<1> DEFINE cs == [c \in Banks |-> RefreshedBank(dram_state[r][c], RefreshLead(dram_state[r]))]
           f == [refresh[r] EXCEPT !.num_issued = @ + 1]
<1>1. \A c \in Banks : cs[c].state = "REFRESHING" /\ cs[c].active_row = NoRow
  <2>1. \A c \in Banks : dram_state[r][c] \in BankRecord
    BY OneRank DEF RankOfBanks
  <2>2. QED
    BY <2>1 DEF RefreshedBank, BankRecord
<1>2. ~f.forced
  BY OneRank DEF IssueRefreshCommand, IsRefreshAllowed, RefreshRecord
<1>3. RankInv(f, cs)
  BY <1>1, <1>2, RankRefreshing DEF Inactive
<1>4. QED
  BY <1>3, CommandState DEF IssueRefreshCommand, IssueOnBus

LEMMA ColumnState ==
  ASSUME StateInv, Inv', NEW r \in Ranks, NEW b \in Banks, RequestRead(r, b) \/ RequestWrite(r, b)
  PROVE  StateInv'
<1>1. ~command_issued_current_cycle /\ ~refresh[r].forced /\ dram_state[r][b].state = "ROW_ACTIVE"
  BY DEF RequestRead, RequestWrite, IssueOnBus, ReadIssuable, WriteIssuable, Refreshable, State
<1>2. \A i \in Ranks, j \in Banks : dram_state[i][j] \in BankRecord
  BY DEF StateInv, Inv, TypeOK
<1>3. ASSUME NEW i \in Ranks, NEW j \in Banks
      PROVE  /\ dram_state'[i][j].state = dram_state[i][j].state
             /\ dram_state'[i][j].active_row = dram_state[i][j].active_row
             /\ i # r => /\ dram_state'[i][j].next_act = dram_state[i][j].next_act
                         /\ dram_state'[i][j].next_powerup = dram_state[i][j].next_powerup
                         /\ dram_state'[i][j].next_refresh = dram_state[i][j].next_refresh
  <2>1. CASE RequestRead(r, b)
    <3>1. dram_state'[i][j] =
            AfterRead(IF i = r /\ j = b THEN ColumnBank(dram_state[i][j], T_RTP)
                      ELSE dram_state[i][j], i = r)
      BY <2>1 DEF RequestRead
    <3>2. QED
      BY <1>2, <3>1 DEF AfterRead, ColumnBank, BankRecord
  <2>2. CASE RequestWrite(r, b)
    <3>1. dram_state'[i][j] =
            AfterWrite(IF i = r /\ j = b THEN ColumnBank(dram_state[i][j], WriteRecovery)
                       ELSE dram_state[i][j], i = r)
      BY <2>2 DEF RequestWrite
    <3>2. QED
      BY <1>2, <3>1 DEF AfterWrite, ColumnBank, BankRecord
  <2>3. QED
    BY <2>1, <2>2
<1>4. ASSUME NEW i \in Ranks PROVE RankInv(refresh[i], dram_state'[i])
  <2>1. CASE i = r
    BY <1>1, <1>3, <2>1, OneRank, RankColumn
  <2>2. CASE i # r
    BY <1>3, <2>2, OneRank, SameShape
  <2>3. QED
    BY <2>1, <2>2
<1>5. refresh' = refresh /\ command_issued_current_cycle'
  BY DEF RequestRead, RequestWrite, IssueOnBus
<1>6. \A i \in Ranks, j \in Banks : cas_issued_current_cycle'[i][j] # 0 => i = r /\ j = b
  <2>1. \A i \in Ranks, j \in Banks : cas_issued_current_cycle[i][j] = 0
    BY <1>1 DEF StateInv, ColumnsOpen
  <2>2. QED
    BY <2>1 DEF RequestRead, RequestWrite, StateInv, Inv, TypeOK
<1>7. ColumnsOpen'
  BY <1>1, <1>3, <1>5, <1>6 DEF ColumnsOpen, State
<1>8. QED
  BY <1>4, <1>5, <1>7 DEF StateInv

LEMMA AutoprechargeState ==
  ASSUME StateInv, Inv', NEW r \in Ranks, NEW b \in Banks, IssueAutoprecharge(r, b)
  PROVE  StateInv'
<1> DEFINE cs == PrechargedRank(dram_state[r], {b}, StartPrecharge(r, b))
<1>1. dram_state[r][b].state \in PoweredUp
  BY DEF IssueAutoprecharge, IsAutoprechargeAllowed, StateInv, ColumnsOpen, State, PoweredUp
<1>2. ~refresh[r].forced
  <2>1. StartPrecharge(r, b) \in Nat /\ StartPrecharge(r, b) + T_RP <= refresh[r].issue_deadline
    BY StartPrechargeType DEF IssueAutoprecharge, IsAutoprechargeAllowed, StateInv, Inv
  <2>2. QED
    BY <2>1, OneRank, Constants, PrechargeAssumption DEF Scheduled, RefreshRecord
<1>3. RankInv(refresh[r], cs)
  <2>1. {b} \in SUBSET Banks /\ {b} # {} /\ \A c \in {b} : dram_state[r][c].state \in PoweredUp
    BY <1>1
  <2>2. dram_state[r] \in RankOfBanks /\ RankInv(refresh[r], dram_state[r])
    BY OneRank
  <2>3. QED
    BY <1>2, <2>1, <2>2, RankPrecharged
<1>4. /\ dram_state' = [dram_state EXCEPT ![r] = cs] /\ refresh' = refresh
      /\ \A i \in Ranks, j \in Banks : cas_issued_current_cycle'[i][j] = 0
  BY DEF IssueAutoprecharge, NoCas, StateInv, Inv, TypeOK, PrechargedRank
<1>5. \A i \in Ranks : RankInv(refresh'[i], dram_state'[i])
  BY <1>3, <1>4 DEF StateInv, Inv, TypeOK
<1>6. QED
  BY <1>4, <1>5 DEF StateInv, ColumnsOpen

LEMMA UpdateMemoryState ==
  ASSUME StateInv, Inv', UpdateMemory
  PROVE  StateInv'
<1>1. ASSUME NEW r \in Ranks PROVE RankInv(refresh'[r], dram_state'[r])
  BY OneRank, RankCycle DEF UpdateMemory
<1>2. ColumnsOpen'
  BY DEF UpdateMemory, NoCas, ColumnsOpen
<1>3. QED
  BY <1>1, <1>2 DEF StateInv

LEMMA StateStep ==
  ASSUME StateInv, [Next]_vars
  PROVE  StateInv'
<1>1. Inv'
  BY StepInv DEF StateInv
<1>2. CASE UpdateMemory
  BY <1>1, <1>2, UpdateMemoryState
<1>3. ASSUME NEW r \in Ranks, RankStep(r) PROVE StateInv'
  <2>1. CASE IssueAllBankPrechargeCommand(r)
    <3>1. ~refresh[r].forced /\ Banks # {} /\ \A b \in Banks : State(r, b) \in PoweredUp
      BY <2>1, Constants
      DEF IssueAllBankPrechargeCommand, IsAllBankPrechargeAllowed, IsPrechargeAllowed, Refreshable
    <3>2. QED
      BY <1>1, <2>1, <3>1, PrechargeState DEF IssueAllBankPrechargeCommand
  <2>2. CASE IssuePowerupCommand(r)
    BY <1>1, <2>2, PowerUpState, Constants DEF IssuePowerupCommand, IsPowerupAllowed
  <2>3. CASE \E sleep \in PrePwrDown : IssuePowerdownCommand(r, sleep)
    BY <1>1, <2>3, PowerdownState
  <2>4. QED
    BY <1>3, <2>1, <2>2, <2>3 DEF RankStep
<1>4. ASSUME NEW r \in Ranks, NEW b \in Banks, BankStep(r, b) PROVE StateInv'
  <2>1. CASE \E row \in Rows : RequestActivate(r, b, row) \/ IssueActivateCommand(r, b, row)
    BY <1>1, <2>1, ActivateState DEF RequestActivate, IssueActivateCommand
  <2>2. CASE RequestRead(r, b) \/ RequestWrite(r, b)
    BY <1>1, <2>2, ColumnState
  <2>3. CASE RequestPrecharge(r, b) \/ IssuePrechargeCommand(r, b)
    <3>1. ~refresh[r].forced /\ State(r, b) \in PoweredUp /\ Precharge(r, {b})
      BY <2>3 DEF RequestPrecharge, PreIssuable, IssuePrechargeCommand, IsPrechargeAllowed, Refreshable,
                  PoweredUp
    <3>2. QED
      BY <1>1, <3>1, PrechargeState
  <2>4. CASE RequestPowerUp(r, b)
    BY <1>1, <2>4, PowerUpState DEF RequestPowerUp, PwrUpIssuable
  <2>5. CASE IssueAutoprecharge(r, b)
    BY <1>1, <2>5, AutoprechargeState
  <2>6. QED
    BY <1>4, <2>1, <2>2, <2>3, <2>4, <2>5 DEF BankStep
<1>5. ASSUME NEW r \in Ranks, IssueRefreshCommand(r) PROVE StateInv'
  BY <1>1, <1>5, RefreshState
<1>6. CASE UNCHANGED vars
  BY <1>1, <1>6 DEF vars, StateInv, ColumnsOpen, State
<1>7. QED
  BY <1>2, <1>3, <1>4, <1>5, <1>6 DEF Next, LazyNext

LEMMA StateInitially == Init => StateInv
<1> SUFFICES ASSUME Init PROVE StateInv
  OBVIOUS
<1>1. \A r \in Ranks : RankInv(refresh[r], dram_state[r])
  BY Constants DEF Init, IdleBank, NewRefreshWindow, RankInv, Inactive, SleepsAsOne, HoldsRow,
                   PoweredDown, PrePwrDown
<1>2. ColumnsOpen
  BY DEF Init, NoCas, ColumnsOpen
<1>3. QED
  BY <1>1, <1>2, InitInv DEF StateInv

LEMMA StateInvariance == Spec => []StateInv
BY StateInitially, StateStep, PTL DEF Spec

-----------------------------------------------------------------------------

\* Whatever the scheduler issues, a rank takes no command while its forced refreshes
\* run, and its banks become ready exactly when the window ends.
THEOREM ForcedRankInactiveHolds == Spec => []ForcedRankInactive
<1>1. StateInv => ForcedRankInactive
  BY DEF StateInv, RankInv, Inactive, ForcedRankInactive, State
<1>2. QED
  BY <1>1, StateInvariance, PTL

\* The banks of a rank always sleep and wake together, so that is_powerup_allowed and
\* issue_refresh_command may look at bank 0 only.
THEOREM RankSleepsAsOneHolds == Spec => []RankSleepsAsOne
<1>1. StateInv => RankSleepsAsOne
  BY DEF StateInv, RankInv, SleepsAsOne, RankSleepsAsOne, State
<1>2. QED
  BY <1>1, StateInvariance, PTL

\* gather_stats books a cycle on a line whose legend is true of all banks of the rank,
\* although it inspects the state of bank 0 only; but a rank in active power-down may be
\* booked as one in which all banks are precharged.
THEOREM MisbookingConfined == Spec => []OnlyFastPowerDownMisbooked
<1>1. ASSUME StateInv, NEW r \in Ranks
      PROVE  \/ Legend(GatherStats(r), r)
             \/ GatherStats(r) = "PRE_PDN_FAST" /\ Legend("ACT_PDN", r)
  <2>1. \A b \in Banks : /\ State(r, b) \in PoweredUp \cup PoweredDown
                         /\ Open(r, b) <=> State(r, b) \in {"ROW_ACTIVE", "ACTIVE_POWER_DOWN"}
                         /\ State(r, b) \in PoweredDown <=> State(r, 0) \in PoweredDown
                         /\ State(r, b) = "PRECHARGE_POWER_DOWN_SLOW"
                              <=> State(r, 0) = "PRECHARGE_POWER_DOWN_SLOW"
    <3>1. \A b \in Banks : dram_state[r][b] \in BankRecord
      BY <1>1, OneRank DEF RankOfBanks
    <3>2. QED
      BY <1>1, <3>1, OneRank DEF RankInv, SleepsAsOne, HoldsRow, State, Open, BankRecord
  <2>2. QED
    BY <2>1, Constants DEF GatherStats, Legend, PoweredUp, PoweredDown, PrePwrDown, Closed
<1>2. StateInv => OnlyFastPowerDownMisbooked
  BY <1>1 DEF OnlyFastPowerDownMisbooked
<1>3. QED
  BY <1>2, StateInvariance, PTL
=============================================================================
