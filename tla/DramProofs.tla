----------------------------- MODULE DramProofs -----------------------------
(***************************************************************************)
(* Theorems about Dram for every number of ranks, banks and rows and every *)
(* choice of timings that satisfies the assumptions of DramTiming.         *)
(***************************************************************************)
EXTENDS Dram, TLAPS


\* Every timing constant is a natural number, and bank 0 and rank 0 exist.
LEMMA Constants ==
  /\ T_RCD \in Nat /\ T_RP \in Nat /\ T_CAS \in Nat /\ T_RAS \in Nat /\ T_RC \in Nat
  /\ T_CWD \in Nat /\ T_WR \in Nat /\ T_WTR \in Nat /\ T_RTRS \in Nat
  /\ T_DATA_TRANS \in Nat /\ T_RTP \in Nat /\ T_CCD \in Nat /\ T_XP \in Nat
  /\ T_XP_DLL \in Nat /\ T_PD_MIN \in Nat /\ T_RRD \in Nat /\ T_FAW \in Nat
  /\ T_RFC \in Nat /\ T_REFI \in Nat
  /\ REFRESHES \in Nat /\ REFRESHES > 0
  /\ 0 \in Ranks /\ 0 \in Banks
BY TimingsAssumption, SizesAssumption DEF Timings, Ranks, Banks

\* Timer updates stay natural numbers.
LEMMA LaterType == \A t, next : t \in Int /\ next \in Nat => Later(t, next) \in Nat
BY DEF Later

LEMMA ElapsedType == \A next \in Nat : Elapsed(next) \in Nat
BY DEF Elapsed

LEMMA WriteRecoveryType == WriteRecovery \in Nat /\ ColumnGap \in Nat
BY Constants DEF WriteRecovery, ColumnGap, Later

\* Each command leaves a bank record.
LEMMA BankTypes ==
  ASSUME NEW k \in BankRecord
  PROVE  /\ Aged(k) \in BankRecord
         /\ \A row \in Rows : ActivatedBank(k, row) \in BankRecord
         /\ [k EXCEPT !.next_act = Later(T_RRD, @)] \in BankRecord
         /\ \A busy \in Nat : ColumnBank(k, busy) \in BankRecord
         /\ \A same \in BOOLEAN : AfterRead(k, same) \in BankRecord
         /\ \A same \in BOOLEAN : AfterWrite(k, same) \in BankRecord
         /\ \A start \in Nat : PrechargedBank(k, start) \in BankRecord
         /\ \A sleep \in PrePwrDown : PoweredDownBank(k, sleep) \in BankRecord
         /\ PoweredUpBank(k) \in BankRecord
         /\ \A lead \in Nat : RefreshedBank(k, lead) \in BankRecord
         /\ \A completion \in Nat : ForceRefreshedBank(k, completion) \in BankRecord
<1> USE DEF BankRecord
<1> DEFINE Timers(t) == /\ Later(t, k.next_pre) \in Nat /\ Later(t, k.next_act) \in Nat
                        /\ Later(t, k.next_read) \in Nat /\ Later(t, k.next_write) \in Nat
                        /\ Later(t, k.next_powerdown) \in Nat /\ Later(t, k.next_refresh) \in Nat
<1>1. Aged(k) \in BankRecord
  BY ElapsedType DEF Aged
<1>2. ASSUME NEW t \in Int PROVE Timers(t)
  BY LaterType
<1> HIDE DEF Timers
<1>3. ASSUME NEW row \in Rows PROVE ActivatedBank(k, row) \in BankRecord
  <2>1. Timers(T_RAS) /\ Timers(T_RCD) /\ Timers(T_RC)
    BY <1>2, Constants
  <2>2. QED BY <2>1 DEF Timers, ActivatedBank, PoweredUp, Closed
<1>4. [k EXCEPT !.next_act = Later(T_RRD, @)] \in BankRecord
  BY <1>2, Constants DEF Timers
<1>5. ASSUME NEW busy \in Nat PROVE ColumnBank(k, busy) \in BankRecord
  <2>1. Timers(busy)
    BY <1>2
  <2>2. QED BY <2>1 DEF Timers, ColumnBank
<1>6. ASSUME NEW same \in BOOLEAN PROVE AfterRead(k, same) \in BankRecord
  <2>1. /\ Timers(ColumnGap) /\ Timers(T_DATA_TRANS + T_RTRS)
        /\ Timers(T_CAS + T_DATA_TRANS + T_RTRS - T_CWD)
    BY <1>2, Constants, WriteRecoveryType
  <2>2. QED BY <2>1 DEF Timers, AfterRead
<1>7. ASSUME NEW same \in BOOLEAN PROVE AfterWrite(k, same) \in BankRecord
  <2>1. /\ Timers(ColumnGap) /\ Timers(T_CWD + T_DATA_TRANS + T_WTR)
        /\ Timers(T_DATA_TRANS + T_RTRS) /\ Timers(T_CWD + T_DATA_TRANS + T_RTRS - T_CAS)
    BY <1>2, Constants, WriteRecoveryType
  <2>2. QED BY <2>1 DEF Timers, AfterWrite
<1>8. ASSUME NEW start \in Nat PROVE PrechargedBank(k, start) \in BankRecord
  <2>1. Timers(start + T_RP)
    BY <1>2, Constants
  <2>2. QED BY <2>1 DEF Timers, PrechargedBank, PoweredUp, Closed
<1>9. ASSUME NEW sleep \in PrePwrDown PROVE PoweredDownBank(k, sleep) \in BankRecord
  <2>1. Timers(T_PD_MIN)
    BY <1>2, Constants
  <2>2. QED BY <2>1 DEF Timers, PoweredDownBank, PoweredDown
<1>10. PoweredUpBank(k) \in BankRecord
  <2>1. Timers(T_XP) /\ Timers(T_XP_DLL)
    BY <1>2, Constants
  <2> DEFINE woken == IF k.state \in PrePwrDown
                      THEN [k EXCEPT !.state = "IDLE", !.active_row = NoRow]
                      ELSE [k EXCEPT !.state = "ROW_ACTIVE"]
             exit == IF woken.state = "PRECHARGE_POWER_DOWN_SLOW" THEN T_XP_DLL ELSE T_XP
  <2>2. Timers(exit)
    BY <2>1
  <2>3. /\ woken \in BankRecord
        /\ woken.next_pre = k.next_pre /\ woken.next_act = k.next_act
        /\ woken.next_read = k.next_read /\ woken.next_write = k.next_write
        /\ woken.next_powerdown = k.next_powerdown /\ woken.next_refresh = k.next_refresh
    BY DEF PoweredUp, Closed
  <2>4. ASSUME NEW w \in BankRecord, NEW e,
               Later(e, w.next_pre) \in Nat, Later(e, w.next_act) \in Nat,
               Later(e, w.next_read) \in Nat, Later(e, w.next_write) \in Nat,
               Later(e, w.next_powerdown) \in Nat, Later(e, w.next_refresh) \in Nat
        PROVE  [w EXCEPT !.next_powerdown = Later(e, @), !.next_pre = Later(e, @),
                         !.next_read = Later(e, @), !.next_write = Later(e, @),
                         !.next_act = Later(e, @), !.next_refresh = Later(e, @)] \in BankRecord
    <3> DEFINE half == [w EXCEPT !.next_powerdown = Later(e, @), !.next_pre = Later(e, @),
                                 !.next_read = Later(e, @)]
    <3>1. half \in BankRecord
      BY <2>4, Zenon
    <3>2. /\ half.next_write = w.next_write /\ half.next_act = w.next_act
          /\ half.next_refresh = w.next_refresh
      OBVIOUS
    <3> HIDE DEF half
    <3>3. [half EXCEPT !.next_write = Later(e, @), !.next_act = Later(e, @),
                       !.next_refresh = Later(e, @)] \in BankRecord
      BY <2>4, <3>1, <3>2, Zenon
    <3>4. QED
      BY <3>3 DEF half
  <2> HIDE DEF BankRecord
  <2>5. [woken EXCEPT !.next_powerdown = Later(exit, @), !.next_pre = Later(exit, @),
                      !.next_read = Later(exit, @), !.next_write = Later(exit, @),
                      !.next_act = Later(exit, @), !.next_refresh = Later(exit, @)] \in BankRecord
    <3> HIDE DEF woken, exit
    <3>1. QED
      BY <2>2, <2>3, <2>4, Zenon DEF Timers
  <2>6. QED
    BY <2>5, Zenon DEF PoweredUpBank
<1>11. ASSUME NEW lead \in Nat PROVE RefreshedBank(k, lead) \in BankRecord
  <2>1. Timers(lead + T_RFC)
    BY <1>2, Constants
  <2>2. QED BY <2>1, Zenon DEF Timers, RefreshedBank, PoweredUp, Closed
<1>12. ASSUME NEW completion \in Nat PROVE ForceRefreshedBank(k, completion) \in BankRecord
  BY DEF ForceRefreshedBank, PoweredUp, Closed
<1>13. QED
  BY <1>1, <1>3, <1>4, <1>5, <1>6, <1>7, <1>8, <1>9, <1>10, <1>11, <1>12

-----------------------------------------------------------------------------
\* The inductive invariant of the specification.
Inv == TypeOK /\ RefreshOnSchedule

\* One refresh less is owed: the tail of the window to keep free does not grow.
LEMMA TailShrinks ==
  ASSUME NEW m \in Int
  PROVE  RefreshTail(m) \in Int /\ RefreshTail(m - 1) <= RefreshTail(m)
<1>1. (m - 1) * T_RFC = m * T_RFC - T_RFC
  BY Constants
<1>2. m * T_RFC \in Int
  BY Constants
<1>3. QED
  BY <1>1, <1>2, Constants DEF RefreshTail

\* Refreshes that are owed keep more than nothing free.
LEMMA TailPositive == \A m \in Nat : RefreshTail(m) > 0
<1>1. ASSUME NEW m \in Nat PROVE m * T_RFC \in Nat
  BY Constants
<1>2. QED
  BY <1>1, Constants, PrechargeAssumption DEF RefreshTail

LEMMA WindowType == RefreshWindow \in Nat /\ RefreshWindow > 0 /\ NewRefreshWindow \in RefreshRecord
<1>1. RefreshWindow \in Nat
  BY Constants DEF RefreshWindow
<1>2. RefreshTail(REFRESHES) \in Int /\ RefreshTail(REFRESHES) > 0
  BY TailShrinks, TailPositive, Constants
<1>3. QED
  BY <1>1, <1>2, WindowAssumption DEF NewRefreshWindow, RefreshRecord

\* The guard of a precharge that starts after a column command waits for natural times.
LEMMA StartPrechargeType ==
  ASSUME TypeOK, NEW r \in Ranks, NEW b \in Banks
  PROVE  StartPrecharge(r, b) \in Nat
<1>1. dram_state[r][b].next_pre \in Nat
  BY DEF TypeOK, BankRecord
<1>2. QED
  BY <1>1, Constants, WriteRecoveryType DEF StartPrecharge, Later

LEMMA RefreshLeadType == ASSUME NEW bs PROVE RefreshLead(bs) \in Nat
BY Constants DEF RefreshLead

LEMMA InitInv == Init => Inv
<1> SUFFICES ASSUME Init PROVE Inv
  OBVIOUS
<1>1. IdleBank \in BankRecord
  BY DEF IdleBank, BankRecord, PoweredUp, Closed
<1>2. TypeOK
  <2>1. dram_state \in [Ranks -> [Banks -> BankRecord]]
    BY <1>1 DEF Init
  <2>2. refresh \in [Ranks -> RefreshRecord]
    BY WindowType DEF Init
  <2>3. cas_issued_current_cycle \in [Ranks -> [Banks -> 0 .. 2]]
    BY DEF Init, NoCas
  <2>4. QED
    BY <2>1, <2>2, <2>3 DEF Init, TypeOK
<1>3. RefreshTail(REFRESHES) \in Int
  BY TailShrinks, Constants
<1>4. RefreshOnSchedule
  BY <1>3, WindowType, WindowAssumption, Constants DEF Init, RefreshOnSchedule, Scheduled, NewRefreshWindow
<1>5. QED
  BY <1>2, <1>4 DEF Inv

\* Commands keep the types, and only issue_refresh_command and update_memory
\* touch the refresh bookkeeping.
LEMMA ActivateType ==
  ASSUME TypeOK, NEW r \in Ranks, NEW b \in Banks, NEW row \in Rows, Activate(r, b, row)
  PROVE  TypeOK' /\ refresh' = refresh
<1>1. dram_state' \in [Ranks -> [Banks -> BankRecord]]
  BY BankTypes DEF TypeOK, Activate
<1>2. activation_record' \in [Ranks -> SUBSET (0 .. T_FAW)]
  BY Constants DEF TypeOK, Activate
<1>3. QED
  BY <1>1, <1>2 DEF TypeOK, Activate, IssueOnBus

LEMMA PrechargeType ==
  ASSUME TypeOK, NEW r \in Ranks, NEW banks \in SUBSET Banks, Precharge(r, banks)
  PROVE  TypeOK' /\ refresh' = refresh
<1>1. \A k \in BankRecord : PrechargedBank(k, 0) \in BankRecord
  BY BankTypes
<1>2. dram_state' \in [Ranks -> [Banks -> BankRecord]]
  BY <1>1 DEF TypeOK, Precharge
<1>3. QED
  BY <1>2 DEF TypeOK, Precharge, IssueOnBus

LEMMA PowerUpType ==
  ASSUME TypeOK, NEW r \in Ranks, PowerUp(r)
  PROVE  TypeOK' /\ refresh' = refresh
<1>1. dram_state' \in [Ranks -> [Banks -> BankRecord]]
  BY BankTypes DEF TypeOK, PowerUp
<1>2. QED
  BY <1>1 DEF TypeOK, PowerUp, IssueOnBus

LEMMA ColumnType ==
  ASSUME TypeOK, NEW r \in Ranks, NEW b \in Banks, RequestRead(r, b) \/ RequestWrite(r, b)
  PROVE  TypeOK' /\ refresh' = refresh
<1>1. ASSUME NEW k \in BankRecord, NEW same \in BOOLEAN
      PROVE  /\ AfterRead(k, same) \in BankRecord
             /\ AfterRead(ColumnBank(k, T_RTP), same) \in BankRecord
             /\ AfterWrite(k, same) \in BankRecord
             /\ AfterWrite(ColumnBank(k, WriteRecovery), same) \in BankRecord
  <2>1. ColumnBank(k, T_RTP) \in BankRecord /\ ColumnBank(k, WriteRecovery) \in BankRecord
    BY BankTypes, Constants, WriteRecoveryType
  <2>2. QED
    BY <2>1, BankTypes
<1>2. CASE RequestRead(r, b)
  <2>1. dram_state' \in [Ranks -> [Banks -> BankRecord]]
    <3>1. ASSUME NEW i \in Ranks, NEW j \in Banks
          PROVE  LET k == dram_state[i][j]
                 IN  AfterRead(IF i = r /\ j = b THEN ColumnBank(k, T_RTP) ELSE k, i = r)
                       \in BankRecord
      <4>1. dram_state[i][j] \in BankRecord /\ (i = r) \in BOOLEAN
        BY DEF TypeOK
      <4>2. QED
        BY <1>1, <4>1
    <3>2. QED
      BY <1>2, <3>1 DEF RequestRead
  <2>2. QED
    BY <1>2, <2>1 DEF TypeOK, RequestRead, IssueOnBus
<1>3. CASE RequestWrite(r, b)
  <2>1. dram_state' \in [Ranks -> [Banks -> BankRecord]]
    <3>1. ASSUME NEW i \in Ranks, NEW j \in Banks
          PROVE  LET k == dram_state[i][j]
                 IN  AfterWrite(IF i = r /\ j = b THEN ColumnBank(k, WriteRecovery) ELSE k, i = r)
                       \in BankRecord
      <4>1. dram_state[i][j] \in BankRecord /\ (i = r) \in BOOLEAN
        BY DEF TypeOK
      <4>2. QED
        BY <1>1, <4>1
    <3>2. QED
      BY <1>3, <3>1 DEF RequestWrite
  <2>2. QED
    BY <1>3, <2>1 DEF TypeOK, RequestWrite, IssueOnBus
<1>4. QED
  BY <1>2, <1>3

LEMMA PowerdownType ==
  ASSUME TypeOK, NEW r \in Ranks, NEW sleep \in PrePwrDown, IssuePowerdownCommand(r, sleep)
  PROVE  TypeOK' /\ refresh' = refresh
<1>1. dram_state' \in [Ranks -> [Banks -> BankRecord]]
  BY BankTypes DEF TypeOK, IssuePowerdownCommand
<1>2. QED
  BY <1>1 DEF TypeOK, IssuePowerdownCommand, IssueOnBus

LEMMA AutoprechargeType ==
  ASSUME TypeOK, NEW r \in Ranks, NEW b \in Banks, IssueAutoprecharge(r, b)
  PROVE  TypeOK' /\ refresh' = refresh
<1>1. PrechargedBank(dram_state[r][b], StartPrecharge(r, b)) \in BankRecord
  BY BankTypes, StartPrechargeType DEF TypeOK
<1>2. dram_state' \in [Ranks -> [Banks -> BankRecord]]
  BY <1>1 DEF TypeOK, IssueAutoprecharge
<1>3. QED
  BY <1>2 DEF TypeOK, IssueAutoprecharge, NoCas

LEMMA RefreshType ==
  ASSUME TypeOK, NEW r \in Ranks, IssueRefreshCommand(r)
  PROVE  TypeOK'
<1>1. RefreshLead(dram_state[r]) \in Nat
  BY RefreshLeadType
<1>2. dram_state' \in [Ranks -> [Banks -> BankRecord]]
  BY <1>1, BankTypes DEF TypeOK, IssueRefreshCommand
<1>3. refresh' \in [Ranks -> RefreshRecord]
  <2>1. [refresh[r] EXCEPT !.num_issued = @ + 1] \in RefreshRecord
    BY DEF TypeOK, RefreshRecord
  <2>2. QED
    BY <2>1 DEF TypeOK, IssueRefreshCommand
<1>4. QED
  BY <1>2, <1>3 DEF TypeOK, IssueRefreshCommand, IssueOnBus

LEMMA RefreshKeepsSchedule ==
  ASSUME Inv, NEW r \in Ranks, IssueRefreshCommand(r)
  PROVE  RefreshOnSchedule'
<1> SUFFICES ASSUME NEW i \in Ranks PROVE Scheduled(refresh'[i])
  BY DEF RefreshOnSchedule
<1> DEFINE m == REFRESHES - refresh[i].num_issued
<1>1. refresh[i] \in RefreshRecord /\ m \in Int
  BY Constants DEF Inv, TypeOK, RefreshRecord
<1>2. RefreshTail(m) \in Int /\ RefreshTail(m - 1) \in Int /\ RefreshTail(m - 1) <= RefreshTail(m)
  BY <1>1, TailShrinks
<1>3. CASE i = r
  <2>1. refresh'[i] = [refresh[i] EXCEPT !.num_issued = @ + 1]
    BY <1>3 DEF Inv, TypeOK, IssueRefreshCommand
  <2>2. REFRESHES - refresh'[i].num_issued = m - 1
    BY <1>1, <2>1, Constants DEF RefreshRecord
  <2>3. QED
    BY <1>1, <1>2, <2>1, <2>2, Constants DEF Inv, RefreshOnSchedule, Scheduled, RefreshRecord
<1>4. CASE i # r
  <2>1. refresh'[i] = refresh[i]
    BY <1>4 DEF Inv, TypeOK, IssueRefreshCommand
  <2>2. QED
    BY <2>1 DEF Inv, RefreshOnSchedule
<1>5. QED
  BY <1>3, <1>4

\* One cycle of the refresh bookkeeping of a rank.  Either the window ends and a
\* new one starts, or forced refreshes start at a deadline that leaves enough of
\* the window, or the deadline moves later by the refreshes issued since.
LEMMA RefreshCycle ==
  ASSUME NEW f \in RefreshRecord, Scheduled(f)
  PROVE  LET g == AgedRefresh(f)
             h == UpdatedRefresh(g)
         IN  /\ g \in RefreshRecord /\ h \in RefreshRecord /\ Scheduled(h)
             /\ g.completion_deadline \in Nat
             /\ f.completion_deadline = 1 => f.forced \/ f.num_issued >= REFRESHES
             /\ h.forced /\ ~f.forced =>
                  h.completion_deadline >= RefreshTail(REFRESHES - h.num_issued)
<1> DEFINE m == REFRESHES - f.num_issued
           g == AgedRefresh(f)
           h == UpdatedRefresh(g)
<1>1. /\ f.completion_deadline \in Int /\ f.issue_deadline \in Int
      /\ f.num_issued \in Nat /\ f.forced \in BOOLEAN /\ m \in Int
  BY Constants DEF RefreshRecord
<1>2. /\ g.completion_deadline = f.completion_deadline - 1
      /\ g.issue_deadline = f.issue_deadline - 1
      /\ g.num_issued = f.num_issued /\ g.forced = f.forced /\ g \in RefreshRecord
  <2>1. g \in RefreshRecord
    <3>1. f.completion_deadline - 1 \in Int /\ f.issue_deadline - 1 \in Int
      BY <1>1
    <3>2. QED
      BY <3>1 DEF AgedRefresh, RefreshRecord
  <2>2. /\ g.completion_deadline = f.completion_deadline - 1
        /\ g.issue_deadline = f.issue_deadline - 1
    BY DEF AgedRefresh, RefreshRecord
  <2>3. g.num_issued = f.num_issued /\ g.forced = f.forced
    BY DEF AgedRefresh, RefreshRecord
  <2>4. QED
    BY <2>1, <2>2, <2>3
<1>3. g.completion_deadline \in Nat
  BY <1>1, <1>2 DEF Scheduled
<1>4. RefreshTail(m) \in Int /\ (m > 0 => RefreshTail(m) > 0)
  BY <1>1, TailShrinks, TailPositive
<1>5. f.completion_deadline = 1 => f.forced \/ f.num_issued >= REFRESHES
  BY <1>1, <1>4, Constants DEF Scheduled
<1>6. CASE AtCompletion(g)
  <2>1. h = NewRefreshWindow
    BY <1>6 DEF UpdatedRefresh
  <2>2. RefreshTail(REFRESHES) \in Int
    BY TailShrinks, Constants
  <2>3. Scheduled(h)
    BY <2>1, <2>2, WindowType, WindowAssumption, Constants DEF Scheduled, NewRefreshWindow
  <2>4. ~h.forced
    BY <2>1 DEF NewRefreshWindow
  <2>5. QED
    BY <1>2, <1>3, <1>5, <2>1, <2>3, <2>4, WindowType
<1>7. CASE ~AtCompletion(g) /\ AtForcedRefresh(g)
  <2>1. h = [g EXCEPT !.forced = TRUE]
    BY <1>7 DEF UpdatedRefresh
  <2>2. /\ h.completion_deadline = g.completion_deadline /\ h.issue_deadline = g.issue_deadline
        /\ h.num_issued = g.num_issued /\ h.forced /\ h \in RefreshRecord
    BY <1>2, <2>1 DEF RefreshRecord
  <2>3. g.issue_deadline = 0 /\ g.completion_deadline > 0
    BY <1>3, <1>7 DEF AtCompletion, AtForcedRefresh
  <2>4. Scheduled(h) /\ h.completion_deadline >= RefreshTail(REFRESHES - h.num_issued)
    BY <1>1, <1>2, <1>4, <2>2, <2>3 DEF Scheduled
  <2>5. QED
    BY <1>2, <1>3, <1>5, <2>2, <2>4
<1>8. CASE ~AtCompletion(g) /\ ~AtForcedRefresh(g) /\ g.issue_deadline > 0
  <2>1. h = [g EXCEPT !.issue_deadline = g.completion_deadline - RefreshTail(m)]
    BY <1>2, <1>8 DEF UpdatedRefresh
  <2>2. /\ h.completion_deadline = g.completion_deadline
        /\ h.issue_deadline = g.completion_deadline - RefreshTail(m)
        /\ h.num_issued = g.num_issued /\ h.forced = g.forced /\ h \in RefreshRecord
    BY <1>1, <1>2, <1>4, <2>1 DEF RefreshRecord
  <2>3. ~f.forced /\ h.issue_deadline > 0 /\ g.completion_deadline > 0
    BY <1>1, <1>2, <1>3, <1>4, <1>8, <2>2 DEF Scheduled, AtCompletion
  <2>4. Scheduled(h)
    BY <1>1, <1>2, <1>4, <2>2, <2>3 DEF Scheduled
  <2>5. QED
    BY <1>2, <1>3, <1>5, <2>2, <2>3, <2>4
<1>9. CASE ~AtCompletion(g) /\ ~AtForcedRefresh(g) /\ ~(g.issue_deadline > 0)
  <2>1. h = g
    BY <1>9 DEF UpdatedRefresh
  <2>2. g.completion_deadline > 0
    BY <1>3, <1>9 DEF AtCompletion
  <2>3. g.forced \/ g.num_issued >= REFRESHES
    BY <1>1, <1>2, <1>9, <2>2, Constants DEF Scheduled, AtForcedRefresh, AtCompletion
  <2>4. Scheduled(h)
    BY <1>1, <1>2, <1>4, <2>1, <2>2, <2>3 DEF Scheduled
  <2>5. QED
    BY <1>2, <1>3, <1>5, <2>1, <2>4
<1>10. QED
  BY <1>6, <1>7, <1>8, <1>9

LEMMA UpdateMemoryInv ==
  ASSUME Inv, UpdateMemory
  PROVE  Inv'
<1> DEFINE g(r) == AgedRefresh(refresh[r])
<1>1. \A r \in Ranks : refresh[r] \in RefreshRecord /\ Scheduled(refresh[r])
  BY DEF Inv, TypeOK, RefreshOnSchedule
<1>2. \A r \in Ranks : /\ UpdatedRefresh(g(r)) \in RefreshRecord
                        /\ Scheduled(UpdatedRefresh(g(r)))
                        /\ g(r).completion_deadline \in Nat
  BY <1>1, RefreshCycle
<1>3. refresh' = [r \in Ranks |-> UpdatedRefresh(g(r))]
  BY DEF UpdateMemory
<1>4. refresh' \in [Ranks -> RefreshRecord] /\ RefreshOnSchedule'
  BY <1>2, <1>3 DEF RefreshOnSchedule
<1>5. dram_state' \in [Ranks -> [Banks -> BankRecord]]
  <2>1. ASSUME NEW r \in Ranks, NEW b \in Banks
        PROVE  /\ Aged(dram_state[r][b]) \in BankRecord
               /\ ForceRefreshedBank(Aged(dram_state[r][b]), g(r).completion_deadline) \in BankRecord
    <3>1. dram_state[r][b] \in BankRecord
      BY DEF Inv, TypeOK
    <3>2. Aged(dram_state[r][b]) \in BankRecord
      BY <3>1, BankTypes
    <3>3. QED
      BY <1>2, <3>2, BankTypes
  <2>2. QED
    BY <2>1 DEF UpdateMemory
<1>6. activation_record' \in [Ranks -> SUBSET (0 .. T_FAW)]
  <2>1. ASSUME NEW r \in Ranks
        PROVE  FlushActivateRecord({age + 1 : age \in activation_record[r]}) \subseteq 0 .. T_FAW
    <3>1. activation_record[r] \subseteq 0 .. T_FAW
      BY DEF Inv, TypeOK
    <3>2. QED
      BY <3>1, Constants DEF FlushActivateRecord
  <2>2. QED
    BY <2>1 DEF UpdateMemory
<1>7. cas_issued_current_cycle' \in [Ranks -> [Banks -> 0 .. 2]]
  BY DEF UpdateMemory, NoCas
<1>8. QED
  BY <1>4, <1>5, <1>6, <1>7 DEF UpdateMemory, Inv, TypeOK

LEMMA StepInv ==
  ASSUME Inv, [Next]_vars
  PROVE  Inv'
<1>1. ASSUME TypeOK', refresh' = refresh PROVE Inv'
  BY <1>1 DEF Inv, RefreshOnSchedule
<1> USE DEF Inv
<1>2. CASE UpdateMemory
  BY <1>2, UpdateMemoryInv
<1>3. ASSUME NEW r \in Ranks, RankStep(r) PROVE Inv'
  <2>1. CASE IssueAllBankPrechargeCommand(r)
    BY <1>1, <2>1, PrechargeType DEF IssueAllBankPrechargeCommand
  <2>2. CASE IssuePowerupCommand(r)
    BY <1>1, <2>2, PowerUpType DEF IssuePowerupCommand
  <2>3. CASE \E sleep \in PrePwrDown : IssuePowerdownCommand(r, sleep)
    BY <1>1, <2>3, PowerdownType
  <2>4. QED
    BY <1>3, <2>1, <2>2, <2>3 DEF RankStep
<1>4. ASSUME NEW r \in Ranks, NEW b \in Banks, BankStep(r, b) PROVE Inv'
  <2>1. CASE \E row \in Rows : RequestActivate(r, b, row) \/ IssueActivateCommand(r, b, row)
    BY <1>1, <2>1, ActivateType DEF RequestActivate, IssueActivateCommand
  <2>2. CASE RequestRead(r, b) \/ RequestWrite(r, b)
    BY <1>1, <2>2, ColumnType
  <2>3. CASE RequestPrecharge(r, b) \/ IssuePrechargeCommand(r, b)
    BY <1>1, <2>3, PrechargeType DEF RequestPrecharge, IssuePrechargeCommand
  <2>4. CASE RequestPowerUp(r, b)
    BY <1>1, <2>4, PowerUpType DEF RequestPowerUp
  <2>5. CASE IssueAutoprecharge(r, b)
    BY <1>1, <2>5, AutoprechargeType
  <2>6. QED
    BY <1>4, <2>1, <2>2, <2>3, <2>4, <2>5 DEF BankStep
<1>5. ASSUME NEW r \in Ranks, IssueRefreshCommand(r) PROVE Inv'
  BY <1>5, RefreshType, RefreshKeepsSchedule
<1>6. CASE UNCHANGED vars
  BY <1>6 DEF vars, TypeOK, RefreshOnSchedule
<1>7. QED
  BY <1>2, <1>3, <1>4, <1>5, <1>6 DEF Next, LazyNext

\* Whatever the scheduler issues, the controller's state stays well typed and the
\* refresh bookkeeping of update_memory stays on schedule.
THEOREM Invariance == Spec => [](TypeOK /\ RefreshOnSchedule)
<1>1. Inv /\ [Next]_vars => Inv'
  BY StepInv
<1>2. QED
  BY <1>1, InitInv, PTL DEF Spec, Inv

\* The state alone: no command leaves a bank in a state or with a row it cannot have, no
\* time left to wait becomes negative, and the record of activates stays within T_FAW.
THEOREM TypeCorrect == Spec => []TypeOK
BY Invariance, PTL

\* Every rank gets its refreshes in every window, whatever the scheduler issues:
\* update_memory never skips a deadline it tests for equality.
THEOREM RefreshQuotaHolds == Spec => RefreshQuota
<1>1. Inv /\ [Next]_vars =>
        [UpdateMemory =>
           \A r \in Ranks : refresh[r].completion_deadline = 1 =>
             refresh[r].forced \/ refresh[r].num_issued >= REFRESHES]_vars
  BY RefreshCycle DEF Inv, TypeOK, RefreshOnSchedule
<1>2. QED
  BY <1>1, Invariance, PTL DEF Spec, RefreshQuota, Inv

\* Forced refreshes always leave enough of the window to finish in it.
THEOREM ForcedRefreshesFitHolds == Spec => ForcedRefreshesFit
<1>1. ASSUME Inv, Next, NEW r \in Ranks, refresh'[r].forced, ~refresh[r].forced
      PROVE  refresh'[r].completion_deadline >= RefreshTail(REFRESHES - refresh'[r].num_issued)
  <2>1. CASE UpdateMemory
    <3>1. refresh'[r] = UpdatedRefresh(AgedRefresh(refresh[r]))
      BY <2>1 DEF UpdateMemory
    <3>2. QED
      BY <1>1, <3>1, RefreshCycle DEF Inv, TypeOK, RefreshOnSchedule
  <2>2. CASE \E i \in Ranks : IssueRefreshCommand(i)
    BY <1>1, <2>2 DEF IssueRefreshCommand, Inv, TypeOK, RefreshRecord
  <2>3. CASE ~UpdateMemory /\ ~\E i \in Ranks : IssueRefreshCommand(i)
    <3>1. refresh' = refresh
      BY <1>1, <2>3
      DEF Next, LazyNext, RankStep, BankStep,
          RequestActivate, IssueActivateCommand, Activate, RequestRead, RequestWrite,
          RequestPrecharge, IssuePrechargeCommand, IssueAllBankPrechargeCommand, Precharge,
          RequestPowerUp, IssuePowerupCommand, PowerUp, IssuePowerdownCommand,
          IssueAutoprecharge
    <3>2. QED
      BY <1>1, <3>1
  <2>4. QED
    BY <2>1, <2>2, <2>3
<1>2. Inv /\ [Next]_vars =>
        [\A r \in Ranks : refresh'[r].forced /\ ~refresh[r].forced =>
           refresh'[r].completion_deadline >= RefreshTail(REFRESHES - refresh'[r].num_issued)]_vars
  BY <1>1
<1>3. QED
  BY <1>2, Invariance, PTL DEF Spec, ForcedRefreshesFit, Inv

-----------------------------------------------------------------------------
\* The inductive invariant when the scheduler leaves refreshing to the controller.
LazyInv == Inv /\ DeadlinesRespected

\* A wait of t cycles that the deadline allows keeps a bank within its bound.
LEMMA LaterBound ==
  ASSUME NEW f \in RefreshRecord, Scheduled(f), NEW next \in Nat, next <= QuietBound(f),
         NEW t \in Nat, t <= f.issue_deadline
  PROVE  Later(t, next) <= QuietBound(f)
BY DEF Later, QuietBound, Scheduled, RefreshRecord

LEMMA CommandQuiet ==
  ASSUME LazyInv, [LazyNext]_vars, ~UpdateMemory
  PROVE  DeadlinesRespected'
<1> USE DEF LazyInv
<1> DEFINE Bounded(i, j) == dram_state'[i][j].next_refresh <= QuietBound(refresh[i])
<1>1. \A i \in Ranks : /\ refresh[i] \in RefreshRecord /\ Scheduled(refresh[i])
                        /\ refresh[i] = refresh[0]
  BY DEF Inv, TypeOK, RefreshOnSchedule, DeadlinesRespected
<1>2. ASSUME NEW i \in Ranks, NEW j \in Banks
      PROVE  /\ dram_state[i][j] \in BankRecord
             /\ dram_state[i][j].next_refresh \in Nat
             /\ dram_state[i][j].next_refresh <= QuietBound(refresh[i])
  BY DEF Inv, TypeOK, BankRecord, DeadlinesRespected
<1>3. ASSUME refresh' = refresh, \A i \in Ranks, j \in Banks : Bounded(i, j)
      PROVE  DeadlinesRespected'
  BY <1>1, <1>3 DEF DeadlinesRespected
<1>4. ASSUME NEW i \in Ranks, NEW j \in Banks, NEW t \in Nat, t <= refresh[i].issue_deadline
      PROVE  Later(t, dram_state[i][j].next_refresh) <= QuietBound(refresh[i])
  BY <1>1, <1>2, <1>4, LaterBound
<1>5. ASSUME NEW r \in Ranks, NEW b \in Banks, NEW row \in Rows, ActIssuable(r, b),
             Activate(r, b, row), NEW i \in Ranks, NEW j \in Banks
      PROVE  Bounded(i, j)
  <2>1. Later(T_RAS, dram_state[r][b].next_refresh) <= QuietBound(refresh[r])
    BY <1>4, <1>5, Constants DEF ActIssuable, Refreshable
  <2>2. CASE i = r /\ j = b
    BY <1>2, <1>5, <2>1, <2>2 DEF Inv, TypeOK, Activate, ActivatedBank, BankRecord
  <2>3. CASE ~(i = r /\ j = b)
    BY <1>2, <1>5, <2>3 DEF Inv, TypeOK, Activate, BankRecord
  <2>4. QED
    BY <2>2, <2>3
<1>6. ASSUME NEW r \in Ranks, NEW banks \in SUBSET Banks, Precharge(r, banks),
             T_RP <= refresh[r].issue_deadline, NEW i \in Ranks, NEW j \in Banks
      PROVE  Bounded(i, j)
  <2>1. Later(0 + T_RP, dram_state[r][j].next_refresh) <= QuietBound(refresh[r])
    BY <1>4, <1>6, Constants
  <2>2. CASE i = r /\ j \in banks
    BY <1>2, <1>6, <2>1, <2>2 DEF Inv, TypeOK, Precharge, PrechargedBank, BankRecord
  <2>3. CASE ~(i = r /\ j \in banks)
    BY <1>2, <1>6, <2>3 DEF Inv, TypeOK, Precharge, BankRecord
  <2>4. QED
    BY <2>2, <2>3
<1>7. ASSUME NEW r \in Ranks, PowerUp(r), T_XP <= refresh[r].issue_deadline,
             NEW i \in Ranks, NEW j \in Banks
      PROVE  Bounded(i, j)
  <2>1. Later(T_XP, dram_state[r][j].next_refresh) <= QuietBound(refresh[r])
    BY <1>4, <1>7, Constants
  <2>2. CASE i = r
    <3>1. dram_state'[i][j] = PoweredUpBank(dram_state[r][j])
      BY <1>7, <2>2 DEF Inv, TypeOK, PowerUp
    <3>2. PoweredUpBank(dram_state[r][j]).next_refresh = Later(T_XP, dram_state[r][j].next_refresh)
      BY <1>2 DEF PoweredUpBank, BankRecord
    <3>3. QED
      BY <2>1, <2>2, <3>1, <3>2
  <2>3. CASE i # r
    BY <1>2, <1>7, <2>3 DEF Inv, TypeOK, PowerUp
  <2>4. QED
    BY <2>2, <2>3
<1>8. ASSUME NEW r \in Ranks, NEW b \in Banks, RequestRead(r, b), NEW i \in Ranks, NEW j \in Banks
      PROVE  Bounded(i, j)
  <2>1. Later(T_RTP, dram_state[r][b].next_refresh) <= QuietBound(refresh[r])
    BY <1>4, <1>8, Constants DEF RequestRead, ReadIssuable, Refreshable
  <2>2. CASE i = r /\ j = b
    BY <1>2, <1>8, <2>1, <2>2 DEF RequestRead, AfterRead, ColumnBank, BankRecord
  <2>3. CASE ~(i = r /\ j = b)
    BY <1>2, <1>8, <2>3 DEF RequestRead, AfterRead, BankRecord
  <2>4. QED
    BY <2>2, <2>3
<1>9. ASSUME NEW r \in Ranks, NEW b \in Banks, RequestWrite(r, b), NEW i \in Ranks, NEW j \in Banks
      PROVE  Bounded(i, j)
  <2>1. Later(WriteRecovery, dram_state[r][b].next_refresh) <= QuietBound(refresh[r])
    BY <1>4, <1>9, WriteRecoveryType DEF RequestWrite, WriteIssuable, Refreshable
  <2>2. CASE i = r /\ j = b
    BY <1>2, <1>9, <2>1, <2>2 DEF RequestWrite, AfterWrite, ColumnBank, BankRecord
  <2>3. CASE ~(i = r /\ j = b)
    BY <1>2, <1>9, <2>3 DEF RequestWrite, AfterWrite, BankRecord
  <2>4. QED
    BY <2>2, <2>3
<1>10. ASSUME NEW r \in Ranks, NEW sleep \in PrePwrDown, IssuePowerdownCommand(r, sleep),
              NEW i \in Ranks, NEW j \in Banks
       PROVE  Bounded(i, j)
  <2>1. T_PD_MIN <= refresh[r].issue_deadline
    BY <1>1, <1>10, Constants
    DEF IssuePowerdownCommand, IsPowerdownFastAllowed, IsPowerdownSlowAllowed, Refreshable,
        RefreshRecord
  <2>2. Later(T_PD_MIN, dram_state[r][j].next_refresh) <= QuietBound(refresh[r])
    BY <1>4, <2>1, Constants
  <2>3. CASE i = r
    BY <1>2, <1>10, <2>2, <2>3 DEF Inv, TypeOK, IssuePowerdownCommand, PoweredDownBank, BankRecord
  <2>4. CASE i # r
    BY <1>2, <1>10, <2>4 DEF Inv, TypeOK, IssuePowerdownCommand
  <2>5. QED
    BY <2>3, <2>4
<1>11. ASSUME NEW r \in Ranks, NEW b \in Banks, IssueAutoprecharge(r, b),
              NEW i \in Ranks, NEW j \in Banks
       PROVE  Bounded(i, j)
  <2>1. StartPrecharge(r, b) + T_RP \in Nat /\ StartPrecharge(r, b) + T_RP <= refresh[r].issue_deadline
    BY <1>11, StartPrechargeType, Constants DEF Inv, IssueAutoprecharge, IsAutoprechargeAllowed
  <2>2. Later(StartPrecharge(r, b) + T_RP, dram_state[r][b].next_refresh) <= QuietBound(refresh[r])
    BY <1>4, <2>1
  <2>3. CASE i = r /\ j = b
    BY <1>2, <1>11, <2>2, <2>3 DEF Inv, TypeOK, IssueAutoprecharge, PrechargedBank, BankRecord
  <2>4. CASE ~(i = r /\ j = b)
    BY <1>2, <1>11, <2>4 DEF Inv, TypeOK, IssueAutoprecharge
  <2>5. QED
    BY <2>3, <2>4
<1>12. ASSUME NEW r \in Ranks, RankStep(r) PROVE DeadlinesRespected'
  <2>1. CASE IssueAllBankPrechargeCommand(r)
    <3>1. T_RP <= refresh[r].issue_deadline
      BY <2>1, Constants DEF IssueAllBankPrechargeCommand, IsAllBankPrechargeAllowed,
                             IsPrechargeAllowed, Refreshable
    <3>2. QED
      BY <1>3, <1>6, <2>1, <3>1, PrechargeType DEF IssueAllBankPrechargeCommand, Inv
  <2>2. CASE IssuePowerupCommand(r)
    <3>1. T_XP <= refresh[r].issue_deadline
      BY <1>1, <2>2, Constants, ExitAssumption DEF IssuePowerupCommand, IsPowerupAllowed, RefreshRecord
    <3>2. QED
      BY <1>3, <1>7, <2>2, <3>1, PowerUpType DEF IssuePowerupCommand, Inv
  <2>3. CASE \E sleep \in PrePwrDown : IssuePowerdownCommand(r, sleep)
    BY <1>3, <1>10, <2>3, PowerdownType DEF Inv
  <2>4. QED
    BY <1>12, <2>1, <2>2, <2>3 DEF RankStep
<1>13. ASSUME NEW r \in Ranks, NEW b \in Banks, BankStep(r, b) PROVE DeadlinesRespected'
  <2>1. CASE \E row \in Rows : RequestActivate(r, b, row) \/ IssueActivateCommand(r, b, row)
    BY <1>3, <1>5, <2>1, ActivateType DEF RequestActivate, IssueActivateCommand, Inv
  <2>2. CASE RequestRead(r, b)
    BY <1>3, <1>8, <2>2, ColumnType DEF Inv
  <2>3. CASE RequestWrite(r, b)
    BY <1>3, <1>9, <2>3, ColumnType DEF Inv
  <2>4. CASE RequestPrecharge(r, b) \/ IssuePrechargeCommand(r, b)
    <3>1. T_RP <= refresh[r].issue_deadline /\ Precharge(r, {b})
      BY <2>4 DEF RequestPrecharge, PreIssuable, IssuePrechargeCommand, IsPrechargeAllowed, Refreshable
    <3>2. QED
      BY <1>3, <1>6, <3>1, PrechargeType DEF Inv
  <2>5. CASE RequestPowerUp(r, b)
    <3>1. T_XP <= refresh[r].issue_deadline /\ PowerUp(r)
      BY <1>1, <2>5, Constants, ExitAssumption DEF RequestPowerUp, PwrUpIssuable, RefreshRecord
    <3>2. QED
      BY <1>3, <1>7, <3>1, PowerUpType DEF Inv
  <2>6. CASE IssueAutoprecharge(r, b)
    BY <1>3, <1>11, <2>6, AutoprechargeType DEF Inv
  <2>7. QED
    BY <1>13, <2>1, <2>2, <2>3, <2>4, <2>5, <2>6 DEF BankStep
<1>14. CASE UNCHANGED vars
  BY <1>14 DEF vars, DeadlinesRespected
<1>15. QED
  BY <1>12, <1>13, <1>14 DEF LazyNext

LEMMA UpdateQuiet ==
  ASSUME LazyInv, UpdateMemory
  PROVE  DeadlinesRespected'
<1> USE DEF LazyInv
<1> SUFFICES ASSUME NEW r \in Ranks
             PROVE  /\ refresh'[r] = refresh'[0] /\ refresh'[r].num_issued = 0
                    /\ \A b \in Banks : dram_state'[r][b].next_refresh <= QuietBound(refresh'[r])
  BY DEF DeadlinesRespected
<1> DEFINE f == refresh[r]
           g == AgedRefresh(f)
           h == UpdatedRefresh(g)
<1>1. f \in RefreshRecord /\ Scheduled(f) /\ f.num_issued = 0 /\ f = refresh[0]
  BY DEF Inv, TypeOK, RefreshOnSchedule, DeadlinesRespected
<1>2. refresh'[r] = h /\ refresh'[r] = refresh'[0]
  BY <1>1, Constants DEF UpdateMemory
<1>3. /\ g \in RefreshRecord /\ h \in RefreshRecord /\ Scheduled(h)
      /\ g.completion_deadline \in Nat
      /\ f.completion_deadline = 1 => f.forced
  BY <1>1, RefreshCycle, Constants
<1>4. /\ g.completion_deadline = f.completion_deadline - 1
      /\ g.issue_deadline = f.issue_deadline - 1
      /\ g.num_issued = 0 /\ g.forced = f.forced
  BY <1>1 DEF AgedRefresh, RefreshRecord
<1>5. h.num_issued = 0
  BY <1>3, <1>4 DEF UpdatedRefresh, NewRefreshWindow, RefreshRecord
<1>6. ASSUME NEW b \in Banks PROVE dram_state'[r][b].next_refresh <= QuietBound(h)
  <2> DEFINE next == dram_state[r][b].next_refresh
  <2>1. dram_state[r][b] \in BankRecord /\ next \in Nat /\ next <= QuietBound(f)
    BY DEF Inv, TypeOK, BankRecord, DeadlinesRespected
  <2>2. Aged(dram_state[r][b]).next_refresh = Elapsed(next) /\ Aged(dram_state[r][b]) \in BankRecord
    BY <2>1, BankTypes DEF Aged, BankRecord
  <2>3. CASE AtForcedRefresh(g)
    <3>1. dram_state'[r][b].next_refresh = g.completion_deadline
      BY <2>2, <2>3 DEF UpdateMemory, ForceRefreshedBank, BankRecord
    <3>2. h.forced /\ h.completion_deadline = g.completion_deadline
      BY <1>3, <2>3 DEF UpdatedRefresh, AtForcedRefresh, RefreshRecord
    <3>3. QED
      BY <1>3, <3>1, <3>2 DEF QuietBound
  <2>4. CASE ~AtForcedRefresh(g)
    <3>1. dram_state'[r][b].next_refresh = Elapsed(next)
      BY <2>2, <2>4 DEF UpdateMemory
    <3>2. CASE AtCompletion(g)
      <4>1. f.forced /\ next <= 1
        BY <1>1, <1>3, <1>4, <2>1, <3>2 DEF AtCompletion, QuietBound, RefreshRecord
      <4>2. h = NewRefreshWindow
        BY <3>2 DEF UpdatedRefresh
      <4>3. ~h.forced /\ h.issue_deadline > 0
        BY <1>3, <1>5, <4>2, Constants DEF Scheduled, NewRefreshWindow
      <4>4. QED
        BY <1>3, <2>1, <3>1, <4>1, <4>3 DEF Elapsed, QuietBound, RefreshRecord
    <3>3. CASE ~AtCompletion(g) /\ ~f.forced
      <4>1. g.issue_deadline > 0
        BY <1>1, <1>3, <1>4, <2>4, <3>3, Constants
        DEF AtForcedRefresh, Scheduled, RefreshRecord
      <4>2. /\ h.forced = g.forced
            /\ h.issue_deadline = g.completion_deadline - RefreshTail(REFRESHES - 0)
        BY <1>3, <1>4, <2>4, <3>3, <4>1 DEF UpdatedRefresh, RefreshRecord
      <4>3. RefreshTail(REFRESHES - 0) \in Int
        BY TailShrinks, Constants
      <4>4. g.issue_deadline <= h.issue_deadline
        BY <1>1, <1>3, <1>4, <4>2, <4>3 DEF Scheduled, RefreshRecord
      <4>5. next <= f.issue_deadline /\ QuietBound(h) = h.issue_deadline
        BY <1>4, <2>1, <3>3, <4>2 DEF QuietBound
      <4>6. Elapsed(next) \in Nat /\ Elapsed(next) <= g.issue_deadline
        BY <1>1, <1>4, <2>1, <4>1, <4>5 DEF Elapsed, RefreshRecord
      <4>7. g.issue_deadline \in Int /\ h.issue_deadline \in Int
        BY <1>3 DEF RefreshRecord
      <4> HIDE DEF g, h
      <4>8. QED
        BY <3>1, <4>4, <4>5, <4>6, <4>7
    <3>4. CASE ~AtCompletion(g) /\ f.forced
      <4>1. h = g
        BY <1>1, <1>3, <1>4, <2>4, <3>4 DEF UpdatedRefresh, Scheduled, RefreshRecord
      <4>2. next <= f.completion_deadline /\ QuietBound(h) = g.completion_deadline
        BY <1>4, <2>1, <3>4, <4>1 DEF QuietBound
      <4>3. Elapsed(next) <= g.completion_deadline
        BY <1>1, <1>3, <1>4, <2>1, <4>2 DEF Elapsed, RefreshRecord
      <4>4. QED
        BY <3>1, <4>2, <4>3
    <3>5. QED
      BY <3>2, <3>3, <3>4
  <2>5. QED
    BY <2>3, <2>4
<1>7. QED
  BY <1>2, <1>5, <1>6

LEMMA LazyInitially == Init => LazyInv
<1>1. ASSUME Init PROVE DeadlinesRespected
  <2>1. NewRefreshWindow.issue_deadline \in Int /\ NewRefreshWindow.issue_deadline > 0
    <3>1. RefreshTail(REFRESHES) \in Int
      BY TailShrinks, Constants
    <3>2. QED
      BY <3>1, WindowType, WindowAssumption DEF NewRefreshWindow
  <2>2. QED
    BY <1>1, <2>1, Constants
    DEF Init, DeadlinesRespected, IdleBank, QuietBound, NewRefreshWindow
<1>2. QED
  BY <1>1, InitInv DEF LazyInv

LEMMA LazyStep ==
  ASSUME LazyInv, [LazyNext]_vars
  PROVE  LazyInv'
<1>1. Inv'
  BY StepInv DEF LazyInv, Next
<1>2. DeadlinesRespected'
  BY CommandQuiet, UpdateQuiet
<1>3. QED
  BY <1>1, <1>2 DEF LazyInv

LEMMA LazyInvariance == LazySpec => []LazyInv
BY LazyInitially, LazyStep, PTL DEF LazySpec

\* As long as the scheduler leaves refreshing to the controller, every command it
\* gets accepted is over when its rank reaches the deadline for issuing refreshes.
THEOREM DeadlinesRespectedHolds == LazySpec => []DeadlinesRespected
BY LazyInvariance, PTL DEF LazyInv

\* Hence forced refreshes always start on a quiet rank.
THEOREM QuietAtForcedRefreshHolds == LazySpec => QuietAtForcedRefresh
<1>1. ASSUME LazyInv, LazyNext, NEW r \in Ranks, refresh'[r].forced, ~refresh[r].forced,
             NEW b \in Banks
      PROVE  dram_state[r][b].next_refresh <= 1
  <2>1. /\ refresh[r] \in RefreshRecord /\ Scheduled(refresh[r]) /\ refresh[r].num_issued = 0
        /\ dram_state[r][b].next_refresh <= refresh[r].issue_deadline
        /\ dram_state[r][b].next_refresh \in Nat
    BY <1>1 DEF LazyInv, Inv, TypeOK, RefreshOnSchedule, DeadlinesRespected, QuietBound, BankRecord
  <2>2. CASE UpdateMemory
    <3> DEFINE g == AgedRefresh(refresh[r])
    <3>1. refresh'[r] = UpdatedRefresh(g)
      BY <2>2 DEF UpdateMemory
    <3>2. g.issue_deadline = refresh[r].issue_deadline - 1 /\ ~g.forced
      BY <1>1, <2>1 DEF AgedRefresh, RefreshRecord
    <3>3. AtForcedRefresh(g)
      <4>1. g \in RefreshRecord
        BY <2>1, RefreshCycle
      <4>2. QED
        BY <1>1, <3>1, <3>2, <4>1 DEF UpdatedRefresh, NewRefreshWindow, RefreshRecord
    <3>4. QED
      BY <2>1, <3>2, <3>3 DEF AtForcedRefresh, RefreshRecord
  <2>3. CASE ~UpdateMemory
    <3>1. refresh' = refresh
      BY <1>1, <2>3 DEF LazyNext, RankStep, BankStep,
        RequestActivate, IssueActivateCommand, Activate, RequestRead, RequestWrite,
        RequestPrecharge, IssuePrechargeCommand, IssueAllBankPrechargeCommand, Precharge,
        RequestPowerUp, IssuePowerupCommand, PowerUp, IssuePowerdownCommand,
        IssueAutoprecharge
    <3>2. QED
      BY <1>1, <3>1
  <2>4. QED
    BY <2>2, <2>3
<1>2. LazyInv /\ [LazyNext]_vars =>
        [\A r \in Ranks : refresh'[r].forced /\ ~refresh[r].forced =>
           \A b \in Banks : dram_state[r][b].next_refresh <= 1]_vars
  BY <1>1
<1>3. QED
  BY <1>2, LazyInvariance, PTL DEF LazySpec, QuietAtForcedRefresh
=============================================================================
