-------------------------------- MODULE Dram --------------------------------
(***************************************************************************)
(* One channel of the memory controller of src/memory_controller.c, seen   *)
(* by the most general scheduler: in a DRAM cycle it may issue any command *)
(* the controller offers, or none.  Channels share nothing here; main.c    *)
(* couples them, through the reorder buffers.                              *)
(*                                                                         *)
(* Requests are not stored: a request of either queue to any bank and row  *)
(* may be there.  update_read_queue_commands decides its next_command and  *)
(* command_issuable from the bank right before schedule() runs, and no     *)
(* second command is accepted in the cycle, so deciding them when the      *)
(* command is issued is the same.                                          *)
(***************************************************************************)
EXTENDS DramTiming

VARIABLES
  dram_state,                    \* [rank -> [bank -> BankRecord]]
  activation_record,             \* [rank -> ages of the recent activates]
  refresh,                       \* [rank -> RefreshRecord]
  command_issued_current_cycle,
  cas_issued_current_cycle       \* [rank -> [bank -> 0, 1 (read) or 2 (write)]]

vars == <<dram_state, activation_record, refresh,
          command_issued_current_cycle, cas_issued_current_cycle>>

NoCas == [r \in Ranks |-> [b \in Banks |-> 0]]

TypeOK ==
  /\ dram_state \in [Ranks -> [Banks -> BankRecord]]
  /\ activation_record \in [Ranks -> SUBSET (0 .. T_FAW)]
  /\ refresh \in [Ranks -> RefreshRecord]
  /\ command_issued_current_cycle \in BOOLEAN
  /\ cas_issued_current_cycle \in [Ranks -> [Banks -> 0 .. 2]]

\* The state after the update_memory of cycle 0, which changes nothing.
Init ==
  /\ dram_state = [r \in Ranks |-> [b \in Banks |-> IdleBank]]
  /\ activation_record = [r \in Ranks |-> {}]
  /\ refresh = [r \in Ranks |-> NewRefreshWindow]
  /\ command_issued_current_cycle = FALSE
  /\ cas_issued_current_cycle = NoCas

-----------------------------------------------------------------------------
\* Guards.

State(r, b) == dram_state[r][b].state

\* The rank is not in its forced refreshes, and t cycles from now its
\* deadline for issuing them has not passed.
Refreshable(r, t) == ~refresh[r].forced /\ t <= refresh[r].issue_deadline

FaultyActIssuable(r, b) ==                  \* leaves no room before the deadline
  /\ State(r, b) \in Closed
  /\ dram_state[r][b].next_act = 0
  /\ IsFawMet(activation_record[r])
  /\ ~refresh[r].forced

ActIssuable(r, b) ==
  /\ State(r, b) \in Closed
  /\ dram_state[r][b].next_act = 0
  /\ IsFawMet(activation_record[r])
  /\ Refreshable(r, T_RAS)

ReadIssuable(r, b) ==
  /\ State(r, b) = "ROW_ACTIVE"
  /\ dram_state[r][b].next_read = 0
  /\ Refreshable(r, T_RTP)

FaultyWriteIssuable(r, b) ==                \* forgets the write recovery
  /\ State(r, b) = "ROW_ACTIVE"
  /\ dram_state[r][b].next_write = 0
  /\ Refreshable(r, T_CWD + T_DATA_TRANS)

WriteIssuable(r, b) ==
  /\ State(r, b) = "ROW_ACTIVE"
  /\ dram_state[r][b].next_write = 0
  /\ Refreshable(r, WriteRecovery)

\* A request precharges only a bank whose open row is not its own.
PreIssuable(r, b) ==
  /\ State(r, b) = "ROW_ACTIVE"
  /\ \E row \in Rows : row # dram_state[r][b].active_row
  /\ dram_state[r][b].next_pre = 0
  /\ Refreshable(r, T_RP)

\* update_read_queue_commands has no forced_refresh_mode_on test here; forced
\* refreshes wake the rank, so a request finds no sleeping bank then.
PwrUpIssuable(r, b) ==
  /\ State(r, b) \in PoweredDown
  /\ dram_state[r][b].next_powerup = 0
  /\ IF State(r, b) = "PRECHARGE_POWER_DOWN_SLOW"
     THEN T_XP_DLL <= refresh[r].issue_deadline
     ELSE T_XP <= refresh[r].issue_deadline

IsPowerdownFastAllowed(r) ==
  /\ Refreshable(r, T_PD_MIN + T_XP)
  /\ \A b \in Banks : State(r, b) \in PoweredUp /\ dram_state[r][b].next_powerdown = 0

FaultyIsPowerdownSlowAllowed(r) ==          \* does not look for open rows
  /\ Refreshable(r, T_PD_MIN + T_XP_DLL)
  /\ \A b \in Banks : State(r, b) \in PoweredUp /\ dram_state[r][b].next_powerdown = 0

IsPowerdownSlowAllowed(r) ==
  /\ Refreshable(r, T_PD_MIN + T_XP_DLL)
  /\ \A b \in Banks : State(r, b) \in Closed /\ dram_state[r][b].next_powerdown = 0

\* The deadline tested is the one of rank 0.
IsPowerupAllowed(r) ==
  /\ ~refresh[r].forced
  /\ State(r, 0) \in PoweredDown
  /\ dram_state[r][0].next_powerup = 0
  /\ IF State(r, 0) = "PRECHARGE_POWER_DOWN_SLOW"
     THEN T_XP_DLL <= refresh[0].issue_deadline
     ELSE T_XP <= refresh[0].issue_deadline

IsPrechargeAllowed(r, b) ==
  /\ Refreshable(r, T_RP)
  /\ State(r, b) \in PoweredUp
  /\ dram_state[r][b].next_pre = 0

IsAllBankPrechargeAllowed(r) == \A b \in Banks : IsPrechargeAllowed(r, b)

IsRefreshAllowed(r) ==
  /\ ~refresh[r].forced
  /\ \A b \in Banks : dram_state[r][b].next_refresh = 0

\* When the auto-precharge of a bank that has just served a column command begins.
StartPrecharge(r, b) ==
  Later(IF cas_issued_current_cycle[r][b] = 1 THEN T_RTP ELSE WriteRecovery,
        dram_state[r][b].next_pre)

IsAutoprechargeAllowed(r, b) ==
  /\ cas_issued_current_cycle[r][b] # 0
  /\ StartPrecharge(r, b) + T_RP <= refresh[r].issue_deadline

-----------------------------------------------------------------------------
\* Issuing.  Every command but an auto-precharge takes the command bus of the cycle.

IssueOnBus ==
  /\ ~command_issued_current_cycle
  /\ command_issued_current_cycle' = TRUE

Activate(r, b, row) ==
  /\ IssueOnBus
  /\ dram_state' = [dram_state EXCEPT ![r] =
       [c \in Banks |-> IF c = b THEN ActivatedBank(dram_state[r][c], row)
                        ELSE [dram_state[r][c] EXCEPT !.next_act = Later(T_RRD, @)]]]
  /\ activation_record' = [activation_record EXCEPT ![r] = @ \cup {0}]
  /\ UNCHANGED <<refresh, cas_issued_current_cycle>>

Precharge(r, banks) ==
  /\ IssueOnBus
  /\ dram_state' = [dram_state EXCEPT ![r] =
       [c \in Banks |-> IF c \in banks THEN PrechargedBank(dram_state[r][c], 0)
                        ELSE dram_state[r][c]]]
  /\ UNCHANGED <<activation_record, refresh, cas_issued_current_cycle>>

PowerUp(r) ==
  /\ IssueOnBus
  /\ dram_state' = [dram_state EXCEPT ![r] = [c \in Banks |-> PoweredUpBank(dram_state[r][c])]]
  /\ UNCHANGED <<activation_record, refresh, cas_issued_current_cycle>>

\* issue_request_command, one action per next_command.

RequestActivate(r, b, row) == ActIssuable(r, b) /\ Activate(r, b, row)

RequestRead(r, b) ==
  /\ ReadIssuable(r, b)
  /\ IssueOnBus
  /\ dram_state' = [i \in Ranks |-> [j \in Banks |->
       LET k == dram_state[i][j]
       IN  AfterRead(IF i = r /\ j = b THEN ColumnBank(k, T_RTP) ELSE k, i = r)]]
  /\ cas_issued_current_cycle' = [cas_issued_current_cycle EXCEPT ![r][b] = 1]
  /\ UNCHANGED <<activation_record, refresh>>

RequestWrite(r, b) ==
  /\ WriteIssuable(r, b)
  /\ IssueOnBus
  /\ dram_state' = [i \in Ranks |-> [j \in Banks |->
       LET k == dram_state[i][j]
       IN  AfterWrite(IF i = r /\ j = b THEN ColumnBank(k, WriteRecovery) ELSE k, i = r)]]
  /\ cas_issued_current_cycle' = [cas_issued_current_cycle EXCEPT ![r][b] = 2]
  /\ UNCHANGED <<activation_record, refresh>>

RequestPrecharge(r, b) == PreIssuable(r, b) /\ Precharge(r, {b})

RequestPowerUp(r, b) == PwrUpIssuable(r, b) /\ PowerUp(r)

\* The commands a scheduler issues on its own.

IssueActivateCommand(r, b, row) == ActIssuable(r, b) /\ Activate(r, b, row)

IssuePrechargeCommand(r, b) == IsPrechargeAllowed(r, b) /\ Precharge(r, {b})

IssueAllBankPrechargeCommand(r) == IsAllBankPrechargeAllowed(r) /\ Precharge(r, Banks)

IssuePowerupCommand(r) == IsPowerupAllowed(r) /\ PowerUp(r)

IssuePowerdownCommand(r, sleep) ==
  /\ \/ sleep = "PRECHARGE_POWER_DOWN_FAST" /\ IsPowerdownFastAllowed(r)
     \/ sleep = "PRECHARGE_POWER_DOWN_SLOW" /\ IsPowerdownSlowAllowed(r)
  /\ IssueOnBus
  /\ dram_state' = [dram_state EXCEPT ![r] =
       [c \in Banks |-> PoweredDownBank(dram_state[r][c], sleep)]]
  /\ UNCHANGED <<activation_record, refresh, cas_issued_current_cycle>>

IssueRefreshCommand(r) ==
  /\ IsRefreshAllowed(r)
  /\ IssueOnBus
  /\ refresh' = [refresh EXCEPT ![r].num_issued = @ + 1]
  /\ dram_state' = [dram_state EXCEPT ![r] =
       [c \in Banks |-> RefreshedBank(dram_state[r][c], RefreshLead(dram_state[r]))]]
  /\ UNCHANGED <<activation_record, cas_issued_current_cycle>>

IssueAutoprecharge(r, b) ==
  /\ IsAutoprechargeAllowed(r, b)
  /\ dram_state' = [dram_state EXCEPT ![r][b] = PrechargedBank(@, StartPrecharge(r, b))]
  /\ cas_issued_current_cycle' = NoCas
  /\ UNCHANGED <<activation_record, refresh, command_issued_current_cycle>>

\* The next DRAM cycle: CYCLE_VAL++ of main.c, then update_memory.
UpdateMemory ==
  /\ command_issued_current_cycle' = FALSE
  /\ cas_issued_current_cycle' = NoCas
  /\ activation_record' =
       [r \in Ranks |-> FlushActivateRecord({age + 1 : age \in activation_record[r]})]
  /\ refresh' = [r \in Ranks |-> UpdatedRefresh(AgedRefresh(refresh[r]))]
  /\ dram_state' = [r \in Ranks |->
       LET f == AgedRefresh(refresh[r])
       IN  [b \in Banks |->
              IF AtForcedRefresh(f)
              THEN ForceRefreshedBank(Aged(dram_state[r][b]), f.completion_deadline)
              ELSE Aged(dram_state[r][b])]]

-----------------------------------------------------------------------------

BankStep(r, b) ==
  \/ \E row \in Rows : RequestActivate(r, b, row)
  \/ RequestRead(r, b)
  \/ RequestWrite(r, b)
  \/ RequestPrecharge(r, b)
  \/ RequestPowerUp(r, b)
  \/ \E row \in Rows : IssueActivateCommand(r, b, row)
  \/ IssuePrechargeCommand(r, b)
  \/ IssueAutoprecharge(r, b)

RankStep(r) ==
  \/ IssueAllBankPrechargeCommand(r)
  \/ IssuePowerupCommand(r)
  \/ \E sleep \in PrePwrDown : IssuePowerdownCommand(r, sleep)

\* A scheduler that leaves every refresh to the controller, as all the
\* schedulers in src/ do.
LazyNext ==
  \/ UpdateMemory
  \/ \E r \in Ranks : RankStep(r)
  \/ \E r \in Ranks : \E b \in Banks : BankStep(r, b)

\* A scheduler that may also issue refreshes of its own.
Next == LazyNext \/ \E r \in Ranks : IssueRefreshCommand(r)

Spec == Init /\ [][Next]_vars
LazySpec == Init /\ [][LazyNext]_vars

-----------------------------------------------------------------------------
\* Properties.

\* Until its refreshes are issued or forced, the deadline of a rank is still ahead
\* and leaves room, before the window ends, for every refresh still owed.  The
\* inductive core of the refresh properties below.
Scheduled(f) ==
  /\ f.completion_deadline > 0
  /\ f.issue_deadline <= f.completion_deadline - RefreshTail(REFRESHES - f.num_issued)
  /\ f.forced => f.issue_deadline <= 0
  /\ f.forced \/ f.num_issued >= REFRESHES \/ f.issue_deadline > 0

RefreshOnSchedule == \A r \in Ranks : Scheduled(refresh[r])

\* When the scheduler issues no refreshes, all ranks keep the same deadlines, and no
\* command a bank has accepted is still in the way of a refresh at the deadline of
\* its rank, nor a forced refresh at the end of the window.
QuietBound(f) == IF f.forced THEN f.completion_deadline ELSE f.issue_deadline

DeadlinesRespected ==
  \A r \in Ranks :
    /\ refresh[r] = refresh[0] /\ refresh[r].num_issued = 0
    /\ \A b \in Banks : dram_state[r][b].next_refresh <= QuietBound(refresh[r])

\* Every rank gets its refreshes: a refresh window (8 tREFI) is never renewed
\* unless the scheduler issued the REFRESHES refreshes of the window or the
\* controller entered its forced refreshes in it.  update_memory tests both
\* deadlines for equality only, while refreshes keep moving one of them.
RefreshQuota ==
  [][UpdateMemory =>
       \A r \in Ranks : refresh[r].completion_deadline = 1 =>
         refresh[r].forced \/ refresh[r].num_issued >= REFRESHES]_vars

\* Forced refreshes fit: when they start, the rest of the window is long enough
\* to precharge the rank and issue the refreshes still owed.
ForcedRefreshesFit ==
  [][\A r \in Ranks : refresh'[r].forced /\ ~refresh[r].forced =>
       refresh'[r].completion_deadline >= RefreshTail(REFRESHES - refresh'[r].num_issued)]_vars

\* Forced refreshes start on a quiet rank: no precharge, activation, column
\* access, power-down or wake-up that a refresh must wait for is in progress.
\* This is what the deadline test of every guard is for.
QuietAtForcedRefresh ==
  [][\A r \in Ranks : refresh'[r].forced /\ ~refresh[r].forced =>
       \A b \in Banks : dram_state[r][b].next_refresh <= 1]_vars

\* While the forced refreshes run, the rank stays closed and powered up, and no
\* bank may take a command before the window ends.
ForcedRankInactive ==
  \A r \in Ranks : refresh[r].forced =>
    \A b \in Banks :
      /\ State(r, b) = "REFRESHING"
      /\ dram_state[r][b].next_act = refresh[r].completion_deadline
      /\ dram_state[r][b].next_refresh = refresh[r].completion_deadline

\* The sleeping banks of a rank sleep, and wake, together, and slow power-down
\* is never mixed with fast: the banks other than bank 0, which is_powerup_allowed
\* and issue_refresh_command do not look at, agree with it.
RankSleepsAsOne ==
  \A r \in Ranks : \A b \in Banks :
    /\ State(r, b) \in PoweredDown <=> State(r, 0) \in PoweredDown
    /\ State(r, b) = "PRECHARGE_POWER_DOWN_SLOW" <=> State(r, 0) = "PRECHARGE_POWER_DOWN_SLOW"
    /\ State(r, b) \in PoweredDown =>
         dram_state[r][b].next_refresh >= dram_state[r][b].next_powerup

-----------------------------------------------------------------------------
\* What comments of the source say of it, and the code does not do.

\* "check if issuing it will cause us to miss the refresh deadline. If it does,
\* don't allow it" (is_powerup_allowed): a rank is powered up by command only if
\* it is awake by its deadline.
PowerupMeetsDeadline ==
  [][\A r \in Ranks : IssuePowerupCommand(r) => T_XP <= refresh[r].issue_deadline]_vars
=============================================================================
