--------------------------- MODULE DramLegalProofs ---------------------------
(***************************************************************************)
(* The controller implements the device's protocol: every step it takes is *)
(* one DramProtocol allows, read off dram_state and the history variables. *)
(* A command is legal because the register its guard tests has run down to *)
(* zero, and the registers cover the device's timings (DramHistoryProofs). *)
(***************************************************************************)
EXTENDS DramHistoryProofs, FiniteSetTheorems

\* What the device sees of a rank: which banks hold a row, and how deep it sleeps.
Held(bs) == [b \in Banks |-> bs[b].state \in RowStates]

Mode(bs) ==
  IF bs[0].state = "PRECHARGE_POWER_DOWN_SLOW" THEN "slow"
  ELSE IF bs[0].state \in PoweredDown THEN "fast" ELSE "no"

LEMMA HeldBank ==
  ASSUME NEW bs, NEW b \in Banks
  PROVE  Held(bs)[b] = (bs[b].state \in RowStates)
BY DEF Held

LEMMA ModeOfRank ==
  ASSUME NEW bs, SleepsAsOne(bs)
  PROVE  Mode(bs) = IF \E b \in Banks : bs[b].state = "PRECHARGE_POWER_DOWN_SLOW" THEN "slow"
                    ELSE IF \E b \in Banks : bs[b].state \in PoweredDown THEN "fast" ELSE "no"
BY Constants DEF Mode, SleepsAsOne

LEMMA Visible ==
  ASSUME StateInv
  PROVE  /\ OpenRows = [r \in Ranks |-> Held(dram_state[r])]
         /\ SleepMode = [r \in Ranks |-> Mode(dram_state[r])]
<1>1. \A r \in Ranks : SleepsAsOne(dram_state[r])
  BY OneRank DEF RankInv
<1>2. OpenRows = [r \in Ranks |-> Held(dram_state[r])]
  BY DEF OpenRows, Held, RowStates, State
<1>3. \A r \in Ranks : Mode(dram_state[r]) =
        IF \E b \in Banks : dram_state[r][b].state = "PRECHARGE_POWER_DOWN_SLOW" THEN "slow"
        ELSE IF \E b \in Banks : dram_state[r][b].state \in PoweredDown THEN "fast" ELSE "no"
  BY <1>1, ModeOfRank
<1>4. QED
  BY <1>2, <1>3 DEF SleepMode, State

LEMMA VisibleNext ==
  ASSUME StateInv'
  PROVE  /\ OpenRows' = [r \in Ranks |-> Held(dram_state'[r])]
         /\ SleepMode' = [r \in Ranks |-> Mode(dram_state'[r])]
<1>1. \A r \in Ranks : SleepsAsOne(dram_state'[r])
  BY DEF StateInv, RankInv
<1>2. OpenRows' = [r \in Ranks |-> Held(dram_state'[r])]
  BY DEF OpenRows, Held, RowStates, State
<1>3. \A r \in Ranks : Mode(dram_state'[r]) =
        IF \E b \in Banks : dram_state'[r][b].state = "PRECHARGE_POWER_DOWN_SLOW" THEN "slow"
        ELSE IF \E b \in Banks : dram_state'[r][b].state \in PoweredDown THEN "fast" ELSE "no"
  BY <1>1, ModeOfRank
<1>4. QED
  BY <1>2, <1>3 DEF SleepMode, State

\* A command to one rank changes what the device sees of that rank only.
LEMMA RankView ==
  ASSUME StateInv, StateInv', NEW r \in Ranks,
         \A i \in Ranks \ {r} : dram_state'[i] = dram_state[i]
  PROVE  /\ OpenRows' = [OpenRows EXCEPT ![r] = Held(dram_state'[r])]
         /\ SleepMode' = [SleepMode EXCEPT ![r] = Mode(dram_state'[r])]
         /\ OpenRows[r] = Held(dram_state[r]) /\ SleepMode[r] = Mode(dram_state[r])
BY Visible, VisibleNext

\* Commands that change no state change nothing the device sees.
LEMMA SameView ==
  ASSUME StateInv, StateInv',
         \A i \in Ranks, j \in Banks : dram_state'[i][j].state = dram_state[i][j].state
  PROVE  OpenRows' = OpenRows /\ SleepMode' = SleepMode
<1>1. \A i \in Ranks : Held(dram_state'[i]) = Held(dram_state[i])
                       /\ Mode(dram_state'[i]) = Mode(dram_state[i])
  BY Constants DEF Held, Mode
<1>2. QED
  BY <1>1, Visible, VisibleNext

-----------------------------------------------------------------------------
\* Commands.

\* A powered-up bank whose rank has covered what follows a wake-up or a refresh.
LEMMA RankReady ==
  ASSUME HInv, NEW r \in Ranks, NEW b \in Banks, dram_state[r][b].state \in PoweredUp,
         naps[r].wake >= T_XP, naps[r].refresh >= T_RFC
  PROVE  P!Ready(r)
<1>1. dram_state[r][0].state \notin PoweredDown
  <2>1. dram_state[r][b].state \notin PoweredDown
    BY DEF PoweredUp, Closed, PoweredDown, PrePwrDown
  <2>2. SleepsAsOne(dram_state[r])
    BY OneRank DEF HInv, RankInv
  <2>3. QED
    BY <2>1, <2>2 DEF SleepsAsOne
<1>2. SleepMode[r] = "no"
  <2>1. SleepMode[r] = Mode(dram_state[r])
    BY Visible DEF HInv
  <2>2. QED
    BY <1>1, <2>1 DEF Mode, PoweredDown, PrePwrDown
<1>3. QED
  BY <1>2 DEF P!Ready

\* The four last activates of a rank are in its record, all but one of this cycle:
\* fewer than four in the window leaves the fourth outside it.
LEMMA FourActivates ==
  ASSUME NEW a \in [1 .. 4 -> 0 .. T_FAW + 1], NEW record \in SUBSET (0 .. T_FAW),
         ActsRecorded(a, record), a[1] > 0, IsFawMet(record)
  PROVE  a[4] > T_FAW
<1> DEFINE window == record \cap (1 .. T_FAW)
<1>1. SUFFICES ASSUME a[4] <= T_FAW PROVE FALSE
  BY Constants
<1>2. \A i \in 1 .. 4 : a[i] \in 0 .. T_FAW + 1 /\ a[i] \in Int
  OBVIOUS
<1>3. a[3] < a[4] /\ a[2] < a[3] /\ a[1] < a[2]
  <2>1. a[1] < a[2] \/ a[2] > T_FAW
    BY DEF ActsRecorded
  <2>2. a[2] < a[3] \/ a[3] > T_FAW
    BY DEF ActsRecorded
  <2>3. a[3] < a[4] \/ a[4] > T_FAW
    BY DEF ActsRecorded
  <2>4. QED
    BY <1>1, <1>2, <2>1, <2>2, <2>3, Constants
<1>4. a[1] \in window /\ a[2] \in window /\ a[3] \in window /\ a[4] \in window
  <2>1. \A i \in 1 .. 4 : a[i] > 0 /\ a[i] <= T_FAW
    BY <1>1, <1>2, <1>3, Constants
  <2>2. \A i \in 1 .. 4 : a[i] \in record
    BY <2>1 DEF ActsRecorded
  <2>3. QED
    BY <1>2, <2>1, <2>2, Constants
<1> HIDE DEF window
<1>5. IsFiniteSet(window) /\ Cardinality(window) \in Nat
  <2>1. IsFiniteSet(1 .. T_FAW)
    BY FS_Interval, Constants
  <2>2. IsFiniteSet(window)
    BY <2>1, FS_Subset DEF window
  <2>3. QED
    BY <2>2, FS_CardinalityType
<1>6. IsFiniteSet({a[1], a[2], a[3], a[4]}) /\ Cardinality({a[1], a[2], a[3], a[4]}) = 4
  <2>1. ASSUME NEW S, IsFiniteSet(S), NEW n \in Nat, Cardinality(S) = n, NEW x, x \notin S
        PROVE  IsFiniteSet(S \cup {x}) /\ Cardinality(S \cup {x}) = n + 1
    BY <2>1, FS_AddElement
  <2>2. IsFiniteSet({a[1]}) /\ Cardinality({a[1]}) = 1
    BY FS_Singleton
  <2>3. /\ {a[1], a[2]} = {a[1]} \cup {a[2]} /\ a[2] \notin {a[1]}
        /\ {a[1], a[2], a[3]} = {a[1], a[2]} \cup {a[3]} /\ a[3] \notin {a[1], a[2]}
        /\ {a[1], a[2], a[3], a[4]} = {a[1], a[2], a[3]} \cup {a[4]}
        /\ a[4] \notin {a[1], a[2], a[3]}
    BY <1>2, <1>3
  <2>4. IsFiniteSet({a[1], a[2]}) /\ Cardinality({a[1], a[2]}) = 2
    BY <2>1, <2>2, <2>3
  <2>5. IsFiniteSet({a[1], a[2], a[3]}) /\ Cardinality({a[1], a[2], a[3]}) = 3
    BY <2>1, <2>3, <2>4
  <2>6. QED
    BY <2>1, <2>3, <2>5
<1>7. Cardinality({a[1], a[2], a[3], a[4]}) <= Cardinality(window)
  <2>1. {a[1], a[2], a[3], a[4]} \in SUBSET window
    BY <1>4
  <2>2. QED
    BY <1>5, <2>1, FS_Subset
<1>8. Cardinality(window) < 4
  BY DEF IsFawMet, window
<1>9. QED
  BY <1>5, <1>6, <1>7, <1>8

\* The facts about one rank the legality of its commands rests on.
LEMMA OneRankView ==
  ASSUME HInv, NEW r \in Ranks
  PROVE  /\ dram_state[r] \in RankOfBanks /\ RankInv(refresh[r], dram_state[r])
         /\ OpenRows[r] = Held(dram_state[r]) /\ SleepMode[r] = Mode(dram_state[r])
         /\ \A b \in Banks : dram_state[r][b] \in BankRecord /\ since[r][b] \in BankAges
         /\ naps[r] \in RankAges
<1>1. StateInv
  BY DEF HInv
<1>2. dram_state[r] \in RankOfBanks /\ RankInv(refresh[r], dram_state[r])
  BY <1>1, OneRank
<1>3. OpenRows[r] = Held(dram_state[r]) /\ SleepMode[r] = Mode(dram_state[r])
  BY <1>1, Visible
<1>4. \A b \in Banks : /\ dram_state[r][b] \in BankRecord /\ since[r][b] \in BankAges
                       /\ naps[r] \in RankAges
  BY OneBank
<1>5. QED
  BY <1>2, <1>3, <1>4, Constants

LEMMA ActivateIsLegal ==
  ASSUME HInv, StateInv', NEW r \in Ranks, NEW b \in Banks, NEW row \in Rows,
         ActIssuable(r, b), Activate(r, b, row), P!NoteAct(r, b)
  PROVE  P!Act(r, b)
<1> DEFINE k == dram_state[r][b]
<1>1. /\ k.state \in Closed /\ k.next_act = 0 /\ IsFawMet(activation_record[r])
      /\ ~command_issued_current_cycle
  BY DEF ActIssuable, Activate, IssueOnBus, State
<1>2. k \in BankRecord /\ since[r][b] \in BankAges /\ naps[r] \in RankAges
      /\ BankCovered(k, since[r][b]) /\ RankCovered(k, naps[r])
  BY OneBank
<1>3. P!Ready(r)
  <2>1. naps[r].wake >= T_XP /\ naps[r].refresh >= T_RFC
    BY <1>1, <1>2, Numbers, Constants DEF RankCovered, WakeCovered, RefreshCovered
  <2>2. QED
    BY <1>1, <2>1, RankReady DEF PoweredUp
<1>4. ~OpenRows[r][b]
  BY <1>1, OneRankView DEF Held, RowStates, Closed
<1>5. since[r][b].act >= T_RC /\ since[r][b].pre >= T_RP
  BY <1>1, <1>2, Numbers, Constants DEF BankCovered, ActCovered, PreCovered
<1>6. ASSUME NEW c \in Banks \ {b} PROVE since[r][c].act >= T_RRD
  <2>1. OthersCovered(k, since[r][c])
    BY <1>6 DEF HInv, Covered, NeighboursCovered
  <2>2. since[r][c].act \in Int
    BY OneRankView, Numbers
  <2>3. QED
    BY <1>1, <2>1, <2>2, Constants DEF OthersCovered
<1>7. acts[r][4] > T_FAW
  <2>1. acts[r] \in [1 .. 4 -> 0 .. T_FAW + 1] /\ activation_record[r] \in SUBSET (0 .. T_FAW)
    BY DEF HInv, HTypeOK, StateInv, Inv, TypeOK
  <2>2. ActsRecorded(acts[r], activation_record[r]) /\ acts[r][1] > 0
    BY <1>1 DEF HInv, Covered, ActivatesRecorded
  <2>3. QED
    BY <1>1, <2>1, <2>2, FourActivates
<1>8. OpenRows' = [OpenRows EXCEPT ![r][b] = TRUE] /\ SleepMode' = SleepMode
  <2>1. /\ \A i \in Ranks \ {r} : dram_state'[i] = dram_state[i]
        /\ \A c \in Banks : dram_state'[r][c].state = IF c = b THEN "ROW_ACTIVE" ELSE dram_state[r][c].state
    <3>1. dram_state \in [Ranks -> [Banks -> BankRecord]]
      BY DEF HInv, StateInv, Inv, TypeOK
    <3>2. \A c \in Banks : dram_state'[r][c] = IF c = b THEN ActivatedBank(dram_state[r][c], row)
                                               ELSE [dram_state[r][c] EXCEPT !.next_act = Later(T_RRD, @)]
      BY <3>1 DEF Activate
    <3>3. \A c \in Banks : /\ ActivatedBank(dram_state[r][c], row).state = "ROW_ACTIVE"
                           /\ [dram_state[r][c] EXCEPT !.next_act = Later(T_RRD, @)].state
                                = dram_state[r][c].state
      BY <3>1 DEF ActivatedBank, BankRecord
    <3>4. \A i \in Ranks \ {r} : dram_state'[i] = dram_state[i]
      BY <3>1 DEF Activate
    <3>5. QED
      BY <3>2, <3>3, <3>4
  <2>2. Held(dram_state'[r]) = [Held(dram_state[r]) EXCEPT ![b] = TRUE]
    BY <2>1 DEF Held, RowStates
  <2>3. Mode(dram_state'[r]) = Mode(dram_state[r])
    <3>1. dram_state[r][0].state \notin PoweredDown
      <4>1. k.state \notin PoweredDown /\ SleepsAsOne(dram_state[r])
        BY <1>1, OneRankView DEF RankInv, Closed, PoweredDown, PrePwrDown
      <4>2. QED
        BY <4>1 DEF SleepsAsOne
    <3>2. dram_state'[r][0].state \notin PoweredDown
      BY <2>1, <3>1, Constants DEF PoweredDown, PrePwrDown
    <3>3. QED
      BY <3>1, <3>2 DEF Mode, PoweredDown, PrePwrDown
  <2>4. /\ OpenRows' = [OpenRows EXCEPT ![r] = Held(dram_state'[r])]
        /\ SleepMode' = [SleepMode EXCEPT ![r] = Mode(dram_state'[r])]
        /\ OpenRows[r] = Held(dram_state[r]) /\ SleepMode[r] = Mode(dram_state[r])
    BY <2>1, RankView DEF HInv
  <2>5. SleepMode' = SleepMode
    BY <2>3, <2>4 DEF SleepMode
  <2>6. QED
    BY <2>2, <2>4, <2>5
<1>9. QED
  BY <1>3, <1>4, <1>5, <1>6, <1>7, <1>8, SameTimings DEF P!Act, P!ActLegal

LEMMA ColumnIsLegal ==
  ASSUME HInv, StateInv', NEW r \in Ranks, NEW b \in Banks, NEW kind \in {"read", "write"},
         kind = "read" => RequestRead(r, b), kind = "write" => RequestWrite(r, b),
         P!NoteColumn(r, b, kind)
  PROVE  P!Column(r, b, kind)
<1> DEFINE k == dram_state[r][b]
<1>1. /\ k.state = "ROW_ACTIVE"
      /\ kind = "read" => k.next_read = 0
      /\ kind = "write" => k.next_write = 0
  BY DEF RequestRead, RequestWrite, ReadIssuable, WriteIssuable, State
<1>2. k \in BankRecord /\ since[r][b] \in BankAges /\ naps[r] \in RankAges
      /\ BankCovered(k, since[r][b]) /\ RankCovered(k, naps[r])
  BY OneBank
<1>3. P!Ready(r)
  <2>1. naps[r].wake >= T_XP /\ naps[r].refresh >= T_RFC
    BY <1>1, <1>2, Numbers, Constants DEF RankCovered, WakeCovered, RefreshCovered, RowStates
  <2>2. QED
    BY <1>1, <2>1, RankReady DEF PoweredUp
<1>4. OpenRows[r][b]
  <2>1. OpenRows[r] = Held(dram_state[r]) /\ k.state \in RowStates
    BY <1>1, OneRankView DEF RowStates
  <2>2. QED
    BY <2>1, HeldBank
<1>5. since[r][b].act >= T_RCD
  BY <1>1, <1>2, Numbers, Constants DEF BankCovered, ActCovered
<1>6. ASSUME NEW c \in Banks
      PROVE  /\ since[r][c][kind] >= T_CCD
             /\ kind = "read" => since[r][c].write >= T_CWD + T_DATA_TRANS + T_WTR
  <2>1. ColumnsCovered(k, since[r][c])
    BY <1>6 DEF HInv, Covered, NeighboursCovered
  <2>2. since[r][c].read \in Int /\ since[r][c].write \in Int
    BY OneRankView, Numbers
  <2>3. QED
    BY <1>1, <2>1, <2>2, Constants DEF ColumnsCovered
<1>7. P!BusFree(r, kind, IF kind = "read" THEN T_CAS ELSE T_CWD)
  <2>1. BusCovered(k, r, bus) /\ bus.busy \in Int
    BY DEF HInv, HTypeOK, Covered, BurstsCovered
  <2>2. QED
    BY <1>1, <1>2, <2>1, Numbers, Constants DEF BusCovered, P!BusFree
<1>8. OpenRows' = OpenRows /\ SleepMode' = SleepMode
  <2>1. \A i \in Ranks, j \in Banks : dram_state'[i][j].state = dram_state[i][j].state
    <3>1. \A i \in Ranks, j \in Banks : dram_state[i][j] \in BankRecord
      BY DEF HInv, StateInv, Inv, TypeOK
    <3>2. ASSUME NEW i \in Ranks, NEW j \in Banks, kind = "read"
          PROVE  dram_state'[i][j].state = dram_state[i][j].state
      <4>1. dram_state'[i][j] = AfterRead(IF i = r /\ j = b THEN ColumnBank(dram_state[i][j], T_RTP)
                                          ELSE dram_state[i][j], i = r)
        BY <3>2 DEF RequestRead
      <4>2. QED
        BY <3>1, <4>1 DEF AfterRead, ColumnBank, BankRecord
    <3>3. ASSUME NEW i \in Ranks, NEW j \in Banks, kind = "write"
          PROVE  dram_state'[i][j].state = dram_state[i][j].state
      <4>1. dram_state'[i][j] =
              AfterWrite(IF i = r /\ j = b THEN ColumnBank(dram_state[i][j], WriteRecovery)
                         ELSE dram_state[i][j], i = r)
        BY <3>3 DEF RequestWrite
      <4>2. QED
        BY <3>1, <4>1 DEF AfterWrite, ColumnBank, BankRecord
    <3>4. QED
      BY <3>2, <3>3
  <2>2. QED
    BY <2>1, SameView DEF HInv
<1>9. QED
  BY <1>3, <1>4, <1>5, <1>6, <1>7, <1>8, SameTimings DEF P!Column, P!ColumnLegal

\* Closing rows of one rank, now or, for an auto-precharge, start cycles from now.
LEMMA PrechargeIsLegal ==
  ASSUME HInv, StateInv', NEW r \in Ranks, NEW banks \in SUBSET Banks, banks # {},
         NEW start \in Nat,
         dram_state' = [dram_state EXCEPT ![r] = PrechargedRank(dram_state[r], banks, start)],
         \A b \in banks : dram_state[r][b].state \in PoweredUp /\ dram_state[r][b].next_pre <= start,
         naps[r].wake >= T_XP, naps[r].refresh >= T_RFC,
         P!NotePre(r, banks, start)
  PROVE  P!Pre(r, banks, start)
<1>1. PICK a \in banks : dram_state[r][a].state \in PoweredUp
  OBVIOUS
<1>2. P!Ready(r)
  BY <1>1, RankReady
<1>3. ASSUME NEW b \in banks PROVE P!ClosableIn(r, b, start)
  <2>1. /\ dram_state[r][b] \in BankRecord /\ since[r][b] \in BankAges
        /\ BankCovered(dram_state[r][b], since[r][b])
    BY OneBank
  <2>2. dram_state[r][b].next_pre <= start
    BY <1>3
  <2>3. QED
    BY <2>1, <2>2, Numbers, Constants, WriteRecoveryType, SameTimings
    DEF BankCovered, ActCovered, ColumnCovered, P!ClosableIn
<1>4. /\ \A i \in Ranks \ {r} : dram_state'[i] = dram_state[i]
      /\ \A c \in Banks : dram_state'[r][c].state = IF c \in banks THEN "PRECHARGING"
                                                    ELSE dram_state[r][c].state
  <2>1. dram_state \in [Ranks -> [Banks -> BankRecord]]
    BY DEF HInv, StateInv, Inv, TypeOK
  <2>2. \A c \in Banks : dram_state'[r][c] = IF c \in banks THEN PrechargedBank(dram_state[r][c], start)
                                             ELSE dram_state[r][c]
    BY <2>1 DEF PrechargedRank
  <2>3. \A c \in Banks : PrechargedBank(dram_state[r][c], start).state = "PRECHARGING"
    BY <2>1 DEF PrechargedBank, BankRecord
  <2>4. QED
    BY <2>1, <2>2, <2>3
<1>5. /\ OpenRows' = [OpenRows EXCEPT ![r] = Held(dram_state'[r])]
      /\ SleepMode' = [SleepMode EXCEPT ![r] = Mode(dram_state'[r])]
      /\ OpenRows[r] = Held(dram_state[r]) /\ SleepMode[r] = Mode(dram_state[r])
  BY <1>4, RankView DEF HInv
<1>6. Held(dram_state'[r]) = [b \in Banks |-> OpenRows[r][b] /\ b \notin banks]
  <2>1. ASSUME NEW b \in Banks
        PROVE  (dram_state'[r][b].state \in RowStates) = (OpenRows[r][b] /\ b \notin banks)
    <3>1. OpenRows[r][b] = (dram_state[r][b].state \in RowStates)
      BY <1>5, HeldBank
    <3>2. CASE b \in banks
      BY <1>4, <3>2 DEF RowStates
    <3>3. CASE b \notin banks
      <4>1. dram_state'[r][b].state = dram_state[r][b].state
        BY <1>4, <3>3
      <4>2. CASE dram_state[r][b].state \in RowStates
        BY <3>1, <3>3, <4>1, <4>2
      <4>3. CASE dram_state[r][b].state \notin RowStates
        <5>1. ~OpenRows[r][b]
          BY <3>1, <4>3, Zenon
        <5>2. QED
          BY <4>1, <4>3, <5>1
      <4>4. QED
        BY <4>2, <4>3
    <3>4. QED
      BY <3>2, <3>3
  <2>2. QED
    BY <2>1 DEF Held
<1>7. Mode(dram_state'[r]) = Mode(dram_state[r])
  <2>1. dram_state[r][0].state \notin PoweredDown
    <3>1. dram_state[r][a].state \notin PoweredDown /\ SleepsAsOne(dram_state[r])
      BY <1>1, OneRankView DEF RankInv, PoweredUp, Closed, PoweredDown, PrePwrDown
    <3>2. QED
      BY <1>1, <3>1 DEF SleepsAsOne
  <2>2. dram_state'[r][0].state \notin PoweredDown
    BY <1>4, <2>1, Constants DEF PoweredDown, PrePwrDown
  <2>3. QED
    BY <2>1, <2>2 DEF Mode, PoweredDown, PrePwrDown
<1>8. SleepMode' = SleepMode
  BY <1>5, <1>7 DEF SleepMode
<1>9. QED
  BY <1>2, <1>3, <1>5, <1>6, <1>8, SameTimings DEF P!Pre, P!PreLegal

\* The delay the device notes is the one the precharge was issued with.
LEMMA ClosingIsLegal ==
  ASSUME HInv, NEW r \in Ranks, NEW banks \in SUBSET Banks, NEW a \in banks, NEW start \in Nat,
         P!NotePre(r, banks, start), P!Pre(r, banks, start)
  PROVE  P!Command
<1>1. since'[r][a].pre = 0 - start
  BY PreNoted DEF HInv
<1>2. start \in {-since'[r][b].pre : b \in banks}
  BY <1>1
<1>3. banks \in (SUBSET P!Banks) \ {{}} /\ r \in P!Ranks
  BY SameTimings
<1>4. QED
  BY <1>2, <1>3 DEF P!Command

LEMMA PrechargeCommandIsLegal ==
  ASSUME HInv, StateInv', NEW r \in Ranks, NEW banks \in SUBSET Banks, banks # {},
         Precharge(r, banks), P!NotePre(r, banks, 0),
         \A b \in banks : dram_state[r][b].state \in PoweredUp /\ dram_state[r][b].next_pre = 0
  PROVE  P!Command
<1>1. PICK a \in banks : dram_state[r][a].next_pre = 0
  OBVIOUS
<1>2. naps[r].wake >= T_XP /\ naps[r].refresh >= T_RFC
  <2>1. /\ dram_state[r][a] \in BankRecord /\ naps[r] \in RankAges
        /\ RankCovered(dram_state[r][a], naps[r])
    BY OneBank
  <2>2. QED
    BY <1>1, <2>1, Numbers, Constants DEF RankCovered, WakeCovered, RefreshCovered
<1>3. dram_state' = [dram_state EXCEPT ![r] = PrechargedRank(dram_state[r], banks, 0)]
  BY DEF Precharge, PrechargedRank
<1>4. P!Pre(r, banks, 0)
  <2>1. \A b \in banks : dram_state[r][b].state \in PoweredUp /\ dram_state[r][b].next_pre <= 0
    OBVIOUS
  <2>2. QED
    BY <1>2, <1>3, <2>1, PrechargeIsLegal
<1>5. QED
  BY <1>4, ClosingIsLegal

LEMMA PowerdownIsLegal ==
  ASSUME HInv, StateInv', NEW r \in Ranks, NEW sleep \in PrePwrDown,
         IssuePowerdownCommand(r, sleep), P!NoteNap(r, "sleep", 0)
  PROVE  P!Sleep(r, IF sleep = "PRECHARGE_POWER_DOWN_SLOW" THEN "slow" ELSE "fast")
<1> DEFINE mode == IF sleep = "PRECHARGE_POWER_DOWN_SLOW" THEN "slow" ELSE "fast"
<1>1. /\ \A b \in Banks : dram_state[r][b].state \in PoweredUp /\ dram_state[r][b].next_powerdown = 0
      /\ mode = "slow" => \A b \in Banks : dram_state[r][b].state \in Closed
  BY DEF IssuePowerdownCommand, IsPowerdownFastAllowed, IsPowerdownSlowAllowed, State, PoweredUp
<1>2. ASSUME NEW b \in Banks
      PROVE  /\ dram_state[r][b] \in BankRecord /\ since[r][b] \in BankAges /\ naps[r] \in RankAges
             /\ BankCovered(dram_state[r][b], since[r][b]) /\ RankCovered(dram_state[r][b], naps[r])
  BY OneBank
<1>3. P!Ready(r)
  <2>1. naps[r].wake >= T_XP /\ naps[r].refresh >= T_RFC
    BY <1>1, <1>2, Numbers, Constants DEF RankCovered, WakeCovered, RefreshCovered
  <2>2. QED
    BY <1>1, <2>1, RankReady, Constants
<1>4. ASSUME NEW b \in Banks
      PROVE  /\ since[r][b].pre >= T_RP /\ since[r][b].act >= T_RCD
             /\ since[r][b].read >= T_RTP /\ since[r][b].write >= WriteRecovery
             /\ mode = "slow" => ~OpenRows[r][b]
  <2>1. mode = "slow" => ~OpenRows[r][b]
    <3>1. mode = "slow" => dram_state[r][b].state \notin RowStates
      BY <1>1 DEF Closed, RowStates
    <3>2. OpenRows[r][b] = (dram_state[r][b].state \in RowStates)
      BY OneRankView, HeldBank
    <3>3. QED
      BY <3>1, <3>2
  <2>2. dram_state[r][b].next_powerdown = 0
    BY <1>1
  <2>3. QED
    BY <1>2, <2>1, <2>2, Numbers, Constants, WriteRecoveryType
    DEF BankCovered, ActCovered, PreCovered, ColumnCovered
<1>5. /\ \A i \in Ranks \ {r} : dram_state'[i] = dram_state[i]
      /\ \A c \in Banks : dram_state'[r][c].state =
           IF dram_state[r][c].state = "ROW_ACTIVE" THEN "ACTIVE_POWER_DOWN" ELSE sleep
  <2>1. dram_state \in [Ranks -> [Banks -> BankRecord]]
    BY DEF HInv, StateInv, Inv, TypeOK
  <2>2. /\ \A i \in Ranks \ {r} : dram_state'[i] = dram_state[i]
        /\ \A c \in Banks : dram_state'[r][c] = PoweredDownBank(dram_state[r][c], sleep)
    BY <2>1 DEF IssuePowerdownCommand
  <2>3. \A c \in Banks : PoweredDownBank(dram_state[r][c], sleep).state =
          IF dram_state[r][c].state = "ROW_ACTIVE" THEN "ACTIVE_POWER_DOWN" ELSE sleep
    BY <1>2 DEF PoweredDownBank, BankRecord
  <2>4. QED
    BY <2>2, <2>3
<1>6. /\ OpenRows' = [OpenRows EXCEPT ![r] = Held(dram_state'[r])]
      /\ SleepMode' = [SleepMode EXCEPT ![r] = Mode(dram_state'[r])]
      /\ OpenRows[r] = Held(dram_state[r])
  BY <1>5, RankView DEF HInv
<1>7. OpenRows' = OpenRows
  <2>1. Held(dram_state'[r]) = Held(dram_state[r])
    BY <1>1, <1>5 DEF Held, RowStates, PoweredUp, Closed, PrePwrDown
  <2>2. QED
    BY <1>6, <2>1 DEF OpenRows
<1>8. Mode(dram_state'[r]) = mode
  BY <1>1, <1>5, Constants DEF Mode, Closed, PoweredDown, PrePwrDown
<1>9. QED
  BY <1>3, <1>4, <1>6, <1>7, <1>8, SameTimings DEF P!Sleep, P!SleepLegal

LEMMA PowerUpIsLegal ==
  ASSUME HInv, StateInv', NEW r \in Ranks, NEW b \in Banks, State(r, b) \in PoweredDown,
         dram_state[r][b].next_powerup = 0, PowerUp(r), P!NoteNap(r, "wake", 0)
  PROVE  P!Wake(r)
<1>1. \A c \in Banks : dram_state[r][c].state \in PoweredDown
  BY OneRankView DEF RankInv, SleepsAsOne, State
<1>2. SleepMode[r] # "no"
  BY <1>1, OneRankView, Constants DEF Mode
<1>3. naps[r].sleep >= T_PD_MIN
  <2>1. /\ dram_state[r][b] \in BankRecord /\ naps[r] \in RankAges
        /\ RankCovered(dram_state[r][b], naps[r])
    BY OneBank
  <2>2. QED
    BY <1>1, <2>1, Numbers, Constants DEF RankCovered, SleepCovered
<1>4. /\ \A i \in Ranks \ {r} : dram_state'[i] = dram_state[i]
      /\ \A c \in Banks : /\ dram_state'[r][c].state \notin PoweredDown
                          /\ dram_state'[r][c].state \in RowStates
                               <=> dram_state[r][c].state \in RowStates
  <2>1. dram_state \in [Ranks -> [Banks -> BankRecord]]
    BY DEF HInv, StateInv, Inv, TypeOK
  <2>2. /\ \A i \in Ranks \ {r} : dram_state'[i] = dram_state[i]
        /\ \A c \in Banks : dram_state'[r][c] = PoweredUpBank(dram_state[r][c])
    BY <2>1 DEF PowerUp
  <2>3. \A c \in Banks : LET k2 == PoweredUpBank(dram_state[r][c])
                         IN  /\ k2.state \notin PoweredDown
                             /\ k2.state \in RowStates <=> dram_state[r][c].state \in RowStates
    BY <1>1, <2>1, PoweredUpRaised
  <2>4. QED
    BY <2>2, <2>3
<1>5. /\ OpenRows' = [OpenRows EXCEPT ![r] = Held(dram_state'[r])]
      /\ SleepMode' = [SleepMode EXCEPT ![r] = Mode(dram_state'[r])]
      /\ OpenRows[r] = Held(dram_state[r])
  BY <1>4, RankView DEF HInv
<1>6. OpenRows' = OpenRows
  <2>1. Held(dram_state'[r]) = Held(dram_state[r])
    BY <1>4 DEF Held
  <2>2. QED
    BY <1>5, <2>1 DEF OpenRows
<1>7. Mode(dram_state'[r]) = "no"
  BY <1>4, Constants DEF Mode, PoweredDown, PrePwrDown
<1>8. QED
  BY <1>2, <1>3, <1>5, <1>6, <1>7, SameTimings DEF P!Wake, P!WakeLegal

LEMMA RefreshIsLegal ==
  ASSUME HInv, StateInv', NEW r \in Ranks, IssueRefreshCommand(r),
         NEW lead, lead = RefreshLead(dram_state[r]), P!NoteNap(r, "refresh", lead)
  PROVE  P!Refresh(r, lead)
<1>1. ASSUME NEW b \in Banks
      PROVE  /\ dram_state[r][b].next_refresh = 0
             /\ dram_state[r][b] \in BankRecord /\ since[r][b] \in BankAges /\ naps[r] \in RankAges
             /\ BankCovered(dram_state[r][b], since[r][b]) /\ RankCovered(dram_state[r][b], naps[r])
  BY OneBank DEF IssueRefreshCommand, IsRefreshAllowed
<1>2. naps[r].refresh >= T_RFC /\ naps[r].wake >= T_XP
  BY <1>1, Numbers, Constants DEF RankCovered, RefreshCovered, WakeCovered
<1>3. ASSUME SleepMode[r] # "no" PROVE naps[r].sleep >= T_PD_MIN /\ lead >= T_XP
  <2>1. dram_state[r][0].state \in PoweredDown
    BY <1>3, OneRankView DEF Mode, PoweredDown, PrePwrDown
  <2>2. naps[r].sleep >= T_PD_MIN
    BY <1>1, <2>1, Numbers, Constants DEF RankCovered, SleepCovered
  <2>3. lead >= T_XP
    BY <2>1, Constants, ExitAssumption DEF RefreshLead, PoweredDown, PrePwrDown
  <2>4. QED
    BY <2>2, <2>3
<1>4. ASSUME NEW b \in Banks PROVE P!Settled(r, b)
  BY <1>1, <1>4, Numbers, Constants, WriteRecoveryType, SameTimings
  DEF BankCovered, ActCovered, PreCovered, ColumnCovered, P!Settled, P!ClosableIn
<1>5. /\ \A i \in Ranks \ {r} : dram_state'[i] = dram_state[i]
      /\ \A c \in Banks : dram_state'[r][c].state = "REFRESHING"
  <2>1. dram_state \in [Ranks -> [Banks -> BankRecord]]
    BY DEF HInv, StateInv, Inv, TypeOK
  <2>2. /\ \A i \in Ranks \ {r} : dram_state'[i] = dram_state[i]
        /\ \A c \in Banks : dram_state'[r][c] = RefreshedBank(dram_state[r][c], lead)
    BY <2>1 DEF IssueRefreshCommand
  <2>3. \A c \in Banks : RefreshedBank(dram_state[r][c], lead).state = "REFRESHING"
    BY <2>1 DEF RefreshedBank, BankRecord
  <2>4. QED
    BY <2>2, <2>3
<1>6. /\ OpenRows' = [OpenRows EXCEPT ![r] = Held(dram_state'[r])]
      /\ SleepMode' = [SleepMode EXCEPT ![r] = Mode(dram_state'[r])]
  BY <1>5, RankView DEF HInv
<1>7. Held(dram_state'[r]) = [b \in Banks |-> FALSE]
  <2>1. \A b \in Banks : (dram_state'[r][b].state \in RowStates) = FALSE
    BY <1>5 DEF RowStates
  <2>2. QED
    BY <2>1 DEF Held
<1>8. Mode(dram_state'[r]) = "no"
  BY <1>5, Constants DEF Mode, PoweredDown, PrePwrDown
<1>9. P!RefreshLegal(r, lead)
  BY <1>2, <1>3, <1>4, SameTimings DEF P!RefreshLegal
<1>10. QED
  BY <1>6, <1>7, <1>8, <1>9, SameTimings DEF P!Refresh

-----------------------------------------------------------------------------
\* A cycle.

\* What update_memory does to the state of a bank.
LEMMA CycleStates ==
  ASSUME HInv, NotedUpdateMemory, NEW r \in Ranks, NEW b \in Banks
  PROVE  dram_state'[r][b].state = IF r \in Forcing THEN "REFRESHING" ELSE dram_state[r][b].state
<1> DEFINE f == refresh[r]
           k == dram_state[r][b]
<1>1. k \in BankRecord /\ f \in RefreshRecord /\ Scheduled(f) /\ naps[r] \in RankAges
      /\ RefreshesFit(f, naps[r])
  BY OneBank DEF HInv, StateInv, Inv, TypeOK, RefreshOnSchedule, Covered, RefreshesAlone
<1>2. /\ refresh'[r] = UpdatedRefresh(AgedRefresh(f))
      /\ dram_state'[r][b] = IF AtForcedRefresh(AgedRefresh(f))
                             THEN ForceRefreshedBank(Aged(k), AgedRefresh(f).completion_deadline)
                             ELSE Aged(k)
  BY DEF NotedUpdateMemory, UpdateMemory
<1>3. AtForcedRefresh(AgedRefresh(f)) <=> r \in Forcing
  BY <1>1, <1>2, DeadlineCycle DEF Forcing
<1>4. Aged(k) \in BankRecord /\ Aged(k).state = k.state
  BY <1>1, AgedFields
<1>5. ForceRefreshedBank(Aged(k), AgedRefresh(f).completion_deadline).state = "REFRESHING"
  BY <1>4 DEF ForceRefreshedBank, BankRecord
<1>6. QED
  BY <1>2, <1>3, <1>4, <1>5

LEMMA CycleView ==
  ASSUME HInv, StateInv', NotedUpdateMemory
  PROVE  /\ OpenRows' = [r \in Ranks |-> [b \in Banks |-> OpenRows[r][b] /\ r \notin Forcing]]
         /\ SleepMode' = [r \in Ranks |-> IF r \in Forcing THEN "no" ELSE SleepMode[r]]
<1>1. ASSUME NEW r \in Ranks, NEW b \in Banks
      PROVE  (dram_state'[r][b].state \in RowStates) = (OpenRows[r][b] /\ r \notin Forcing)
  <2>1. OpenRows[r][b] = (dram_state[r][b].state \in RowStates)
    BY OneRankView, HeldBank
  <2>2. CASE r \in Forcing
    BY <2>2, CycleStates DEF RowStates
  <2>3. CASE r \notin Forcing
    <3>1. dram_state'[r][b].state = dram_state[r][b].state
      BY <2>3, CycleStates
    <3>2. CASE dram_state[r][b].state \in RowStates
      BY <2>1, <2>3, <3>1, <3>2
    <3>3. CASE dram_state[r][b].state \notin RowStates
      <4>1. ~OpenRows[r][b]
        BY <2>1, <3>3, Zenon
      <4>2. QED
        BY <3>1, <3>3, <4>1
    <3>4. QED
      BY <3>2, <3>3
  <2>4. QED
    BY <2>2, <2>3
<1>2. ASSUME NEW r \in Ranks
      PROVE  Held(dram_state'[r]) = [b \in Banks |-> OpenRows[r][b] /\ r \notin Forcing]
  BY <1>1 DEF Held
<1>3. ASSUME NEW r \in Ranks
      PROVE  Mode(dram_state'[r]) = IF r \in Forcing THEN "no" ELSE SleepMode[r]
  <2>1. dram_state'[r][0].state = IF r \in Forcing THEN "REFRESHING" ELSE dram_state[r][0].state
    BY CycleStates, Constants
  <2>2. SleepMode[r] = Mode(dram_state[r])
    BY OneRankView
  <2>3. QED
    BY <2>1, <2>2 DEF Mode, PoweredDown, PrePwrDown
<1>4. QED
  BY <1>2, <1>3, VisibleNext

LEMMA CycleIsLegal ==
  ASSUME HInv, StateInv', NotedUpdateMemory
  PROVE  P!Cycle(Forcing, P!RefreshLength)
<1> DEFINE length == [r \in Ranks |-> refresh'[r].completion_deadline]
<1>1. P!NoteCycle(Forcing, length)
  BY DEF NotedUpdateMemory, Forcing
<1>2. /\ HTypeOK'
      /\ \A r \in Forcing : /\ refresh'[r].completion_deadline >= RefreshTail(1)
                            /\ naps'[r].refresh = T_RFC - refresh'[r].completion_deadline
  BY CycleCovered
<1>3. \A r \in Ranks : refresh'[r].completion_deadline \in Int
  BY DEF StateInv, Inv, TypeOK, RefreshRecord
<1>4. \A r \in Forcing : P!RefreshLength[r] = length[r]
  BY <1>2, <1>3, Constants, SameTimings DEF P!RefreshLength, Forcing
<1>5. P!NoteCycle(Forcing, P!RefreshLength)
  <2> HIDE DEF length
  <2>1. QED
    BY <1>1, <1>4 DEF P!NoteCycle
<1>6. \A r \in Forcing : P!RefreshLength[r] >= P!RefreshTail(1)
  BY <1>2, <1>4, SameTimings DEF Forcing
<1>7. QED
  BY <1>5, <1>6, CycleView, SameTimings DEF P!Cycle

-----------------------------------------------------------------------------
\* Every step.

LEMMA BankStepIsLegal ==
  ASSUME HInv, StateInv', NEW r \in Ranks, NEW b \in Banks, NotedBankStep(r, b)
  PROVE  P!Command
<1>1. CASE \E row \in Rows : /\ RequestActivate(r, b, row) \/ IssueActivateCommand(r, b, row)
                             /\ P!NoteAct(r, b)
  <2>1. P!Act(r, b)
    BY <1>1, ActivateIsLegal DEF RequestActivate, IssueActivateCommand
  <2>2. QED
    BY <2>1, SameTimings DEF P!Command
<1>2. CASE RequestRead(r, b) /\ P!NoteColumn(r, b, "read")
  <2>1. P!Column(r, b, "read")
    BY <1>2, ColumnIsLegal
  <2>2. QED
    BY <2>1, SameTimings DEF P!Command
<1>3. CASE RequestWrite(r, b) /\ P!NoteColumn(r, b, "write")
  <2>1. P!Column(r, b, "write")
    BY <1>3, ColumnIsLegal
  <2>2. QED
    BY <2>1, SameTimings DEF P!Command
<1>4. CASE /\ RequestPrecharge(r, b) \/ IssuePrechargeCommand(r, b)
           /\ P!NotePre(r, {b}, 0)
  <2>1. /\ Refreshable(r, T_RP) /\ State(r, b) \in PoweredUp /\ dram_state[r][b].next_pre = 0
        /\ Precharge(r, {b})
    BY <1>4 DEF RequestPrecharge, PreIssuable, IssuePrechargeCommand, IsPrechargeAllowed, PoweredUp
  <2>2. QED
    BY <1>4, <2>1, PrechargeCommandIsLegal DEF State
<1>5. CASE IssueAutoprecharge(r, b) /\ P!NotePre(r, {b}, StartPrecharge(r, b))
  <2> DEFINE start == StartPrecharge(r, b)
  <2>1. /\ start \in Nat /\ start >= dram_state[r][b].next_pre
        /\ dram_state[r][b].state = "ROW_ACTIVE" /\ naps[r].refresh >= T_RFC /\ naps[r].wake >= T_XP
    BY <1>5, AutoprechargeFacts
  <2>2. dram_state' = [dram_state EXCEPT ![r] = PrechargedRank(dram_state[r], {b}, start)]
    BY <1>5 DEF IssueAutoprecharge, PrechargedRank, HInv, StateInv, Inv, TypeOK
  <2>3. start >= dram_state[r][b].next_pre <=> dram_state[r][b].next_pre <= start
    BY <2>1, OneBank, Numbers
  <2> HIDE DEF start
  <2>4. P!NotePre(r, {b}, start)
    BY <1>5 DEF start
  <2>5. P!Pre(r, {b}, start)
    BY <2>1, <2>2, <2>3, <2>4, PrechargeIsLegal DEF PoweredUp
  <2>6. QED
    BY <2>1, <2>4, <2>5, ClosingIsLegal
<1>6. CASE RequestPowerUp(r, b) /\ P!NoteNap(r, "wake", 0)
  <2>1. P!Wake(r)
    BY <1>6, PowerUpIsLegal DEF RequestPowerUp, PwrUpIssuable
  <2>2. QED
    BY <2>1, SameTimings DEF P!Command
<1>7. QED
  BY <1>1, <1>2, <1>3, <1>4, <1>5, <1>6 DEF NotedBankStep

LEMMA RankStepIsLegal ==
  ASSUME HInv, StateInv', NEW r \in Ranks, NotedRankStep(r)
  PROVE  P!Command
<1>1. CASE IssueAllBankPrechargeCommand(r) /\ P!NotePre(r, Banks, 0)
  <2>1. \A b \in Banks : /\ Refreshable(r, T_RP) /\ State(r, b) \in PoweredUp
                         /\ dram_state[r][b].next_pre = 0
    BY <1>1 DEF IssueAllBankPrechargeCommand, IsAllBankPrechargeAllowed, IsPrechargeAllowed
  <2>2. Precharge(r, Banks) /\ Banks # {}
    BY <1>1, Constants DEF IssueAllBankPrechargeCommand
  <2>3. QED
    BY <1>1, <2>1, <2>2, PrechargeCommandIsLegal DEF State
<1>2. CASE IssuePowerupCommand(r) /\ P!NoteNap(r, "wake", 0)
  <2>1. P!Wake(r)
    BY <1>2, PowerUpIsLegal, Constants DEF IssuePowerupCommand, IsPowerupAllowed
  <2>2. QED
    BY <2>1, SameTimings DEF P!Command
<1>3. CASE \E sleep \in PrePwrDown : IssuePowerdownCommand(r, sleep) /\ P!NoteNap(r, "sleep", 0)
  <2>1. PICK sleep \in PrePwrDown : IssuePowerdownCommand(r, sleep) /\ P!NoteNap(r, "sleep", 0)
    BY <1>3
  <2>2. P!Sleep(r, "slow") \/ P!Sleep(r, "fast")
    BY <2>1, PowerdownIsLegal
  <2>3. QED
    BY <2>2, SameTimings DEF P!Command
<1>4. QED
  BY <1>1, <1>2, <1>3 DEF NotedRankStep

LEMMA RefreshStepIsLegal ==
  ASSUME HInv, StateInv', NEW r \in Ranks, NotedRefresh(r)
  PROVE  P!Command
<1> DEFINE lead == RefreshLead(dram_state[r])
<1>1. lead \in Nat
  BY RefreshLeadType
<1>2. P!NoteNap(r, "refresh", lead)
  BY DEF NotedRefresh
<1>3. P!Refresh(r, lead)
  BY RefreshIsLegal DEF NotedRefresh
<1> HIDE DEF lead
<1>4. naps'[r].refresh = 0 - lead
  BY <1>1, <1>2, NapNoted DEF HInv
<1>5. -naps'[r].refresh = lead
  BY <1>1, <1>4
<1>6. QED
  BY <1>3, <1>5, SameTimings DEF P!Command

LEMMA InitiallyLegal == HInit => P!Init
<1> SUFFICES ASSUME HInit PROVE P!Init
  OBVIOUS
<1>1. \A r \in Ranks, b \in Banks : dram_state[r][b].state = "IDLE"
  BY DEF HInit, Init, IdleBank
<1>2. StateInv
  BY StateInitially DEF HInit
<1>3. OpenRows = [r \in Ranks |-> [b \in Banks |-> FALSE]]
  <2>1. \A r \in Ranks, b \in Banks : (dram_state[r][b].state \in RowStates) = FALSE
    BY <1>1 DEF RowStates
  <2>2. \A r \in Ranks : Held(dram_state[r]) = [b \in Banks |-> FALSE]
    BY <2>1 DEF Held
  <2>3. QED
    BY <1>2, <2>2, Visible
<1>4. SleepMode = [r \in Ranks |-> "no"]
  <2>1. \A r \in Ranks : Mode(dram_state[r]) = "no"
    BY <1>1, Constants DEF Mode, PoweredDown, PrePwrDown
  <2>2. QED
    BY <1>2, <2>1, Visible
<1>5. QED
  BY <1>3, <1>4, SameTimings DEF HInit, P!Init

LEMMA StutterIsLegal ==
  ASSUME UNCHANGED <<vars, history>>
  PROVE  UNCHANGED P!protocolVars
BY DEF vars, history, P!protocolVars, OpenRows, SleepMode, State

LEMMA StepIsLegal ==
  ASSUME HInv, HInv', [HNext]_<<vars, history>>
  PROVE  [P!Command \/ P!AnyCycle]_P!protocolVars
<1>1. StateInv'
  BY DEF HInv
<1>2. CASE NotedUpdateMemory
  <2>1. P!Cycle(Forcing, P!RefreshLength)
    BY <1>1, <1>2, CycleIsLegal
  <2>2. Forcing \in SUBSET P!Ranks
    BY SameTimings DEF Forcing
  <2>3. QED
    BY <2>1, <2>2 DEF P!AnyCycle
<1>3. CASE \E r \in Ranks : NotedRankStep(r)
  BY <1>1, <1>3, RankStepIsLegal
<1>4. CASE \E r \in Ranks : \E b \in Banks : NotedBankStep(r, b)
  BY <1>1, <1>4, BankStepIsLegal
<1>5. CASE \E r \in Ranks : NotedRefresh(r)
  BY <1>1, <1>5, RefreshStepIsLegal
<1>6. CASE UNCHANGED <<vars, history>>
  BY <1>6, StutterIsLegal
<1>7. QED
  BY <1>2, <1>3, <1>4, <1>5, <1>6 DEF HNext, HLazyNext

\* Whatever command of whatever rank the scheduler issues, in whatever order, it is one
\* the DRAM chips allow then: tRCD, tRP, tRAS, tRC, tRRD, tFAW, tRTP, tWR, tWTR, tCCD,
\* tRFC, tXP and tPD_MIN have passed since the commands they count from, the data bus is
\* free and turned around, and a forced refresh leaves room for at least one refresh.
THEOREM ControllerIsLegal == HSpec => Legal
<1>1. HInv /\ HInv' /\ [HNext]_<<vars, history>> => [P!Command \/ P!AnyCycle]_P!protocolVars
  BY StepIsLegal
<1>2. QED
  BY <1>1, InitiallyLegal, HistoryInvariance, PTL DEF HSpec, Legal, P!Spec

-----------------------------------------------------------------------------
\* A controller that does all the refreshing: forced refreshes find nothing in progress.

QuietInv == HInv /\ DeadlinesRespected /\ NapsDone

\* A deadline that is t cycles away.
LEMMA Ahead ==
  ASSUME HInv, NEW r \in Ranks, ~refresh[r].forced, NEW t \in Nat, t <= refresh[r].issue_deadline
  PROVE  t <= Left(refresh[r])
<1>1. refresh[r].issue_deadline \in Int
  BY DEF HInv, StateInv, Inv, TypeOK, RefreshRecord
<1>2. QED
  BY <1>1 DEF Left

\* Commands that neither wake a rank nor send it to sleep.
LEMMA NapsKept ==
  ASSUME QuietInv, naps' = naps, refresh' = refresh, SleepMode' = SleepMode
  PROVE  NapsDone'
BY DEF QuietInv, NapsDone

\* Closing the row of a bank that is awake.
LEMMA ClosedAwake ==
  ASSUME QuietInv, StateInv', NEW r \in Ranks, NEW banks \in SUBSET Banks, banks # {},
         \A b \in banks : State(r, b) \in PoweredUp,
         \A i \in Ranks : \A c \in Banks :
           dram_state'[i][c].state = IF i = r /\ c \in banks THEN "PRECHARGING"
                                     ELSE dram_state[i][c].state,
         naps' = naps, refresh' = refresh
  PROVE  NapsDone'
<1>1. dram_state[r][0].state \notin PoweredDown
  <2>1. PICK b \in banks : dram_state[r][b].state \notin PoweredDown
    BY DEF State, PoweredUp, Closed, PoweredDown, PrePwrDown
  <2>2. SleepsAsOne(dram_state[r])
    BY OneRankView DEF QuietInv, RankInv
  <2>3. QED
    BY <2>1, <2>2 DEF SleepsAsOne
<1>2. ASSUME NEW i \in Ranks PROVE Mode(dram_state'[i]) = Mode(dram_state[i])
  <2>1. CASE i = r
    <3>1. dram_state'[r][0].state \notin PoweredDown
      BY <1>1, Constants DEF PoweredDown, PrePwrDown
    <3>2. QED
      BY <1>1, <2>1, <3>1 DEF Mode, PoweredDown, PrePwrDown
  <2>2. CASE i # r
    BY <2>2, Constants DEF Mode
  <2>3. QED
    BY <2>1, <2>2
<1>3. SleepMode' = SleepMode
  BY <1>2, Visible, VisibleNext DEF QuietInv, HInv
<1>4. QED
  BY <1>3, NapsKept

LEMMA PrechargeKeepsNaps ==
  ASSUME QuietInv, StateInv', NEW r \in Ranks, NEW banks \in SUBSET Banks, banks # {},
         \A b \in banks : State(r, b) \in PoweredUp,
         Precharge(r, banks), P!NotePre(r, banks, 0)
  PROVE  NapsDone'
<1>1. dram_state \in [Ranks -> [Banks -> BankRecord]]
  BY DEF QuietInv, HInv, StateInv, Inv, TypeOK
<1>2. \A c \in Banks : PrechargedBank(dram_state[r][c], 0).state = "PRECHARGING"
  BY <1>1 DEF PrechargedBank, BankRecord
<1>3. \A i \in Ranks : \A c \in Banks :
        dram_state'[i][c] = IF i = r /\ c \in banks THEN PrechargedBank(dram_state[r][c], 0)
                            ELSE dram_state[i][c]
  BY <1>1 DEF Precharge
<1>4. \A i \in Ranks : \A c \in Banks :
        dram_state'[i][c].state = IF i = r /\ c \in banks THEN "PRECHARGING"
                                  ELSE dram_state[i][c].state
  BY <1>2, <1>3
<1>5. naps' = naps /\ refresh' = refresh
  BY DEF P!NotePre, Precharge
<1>6. QED
  BY <1>4, <1>5, ClosedAwake

LEMMA WakeDone ==
  ASSUME QuietInv, StateInv', NEW r \in Ranks, NEW b \in Banks, State(r, b) \in PoweredDown,
         dram_state[r][b].next_powerup = 0, T_XP <= refresh[r].issue_deadline,
         PowerUp(r), P!NoteNap(r, "wake", 0)
  PROVE  NapsDone'
<1>1. P!Wake(r)
  BY PowerUpIsLegal DEF QuietInv
<1>2. SleepMode' = [SleepMode EXCEPT ![r] = "no"]
  BY <1>1 DEF P!Wake
<1>3. /\ \A i \in Ranks \ {r} : naps'[i] = naps[i]
      /\ naps'[r].wake = 0
  BY NapNoted DEF QuietInv, HInv
<1>4. refresh' = refresh
  BY DEF PowerUp
<1>5. T_XP <= Left(refresh[r])
  <2>1. ~refresh[r].forced
    BY OneRankView DEF QuietInv, RankInv, Inactive, State, PoweredDown, PrePwrDown
  <2>2. QED
    BY <2>1, Ahead, Constants DEF QuietInv
<1>6. Left(refresh[r]) \in Nat
  BY LeftType DEF QuietInv, HInv, StateInv, Inv, TypeOK
<1>7. SleepMode'[r] = "no" /\ \A i \in Ranks \ {r} : SleepMode'[i] = SleepMode[i]
  BY <1>2 DEF SleepMode
<1>8. QED
  BY <1>3, <1>4, <1>5, <1>6, <1>7, Constants DEF QuietInv, NapsDone

LEMMA SleepDone ==
  ASSUME QuietInv, StateInv', NEW r \in Ranks, NEW sleep \in PrePwrDown,
         IssuePowerdownCommand(r, sleep), P!NoteNap(r, "sleep", 0)
  PROVE  NapsDone'
<1>1. \E mode \in {"fast", "slow"} : P!Sleep(r, mode)
  BY PowerdownIsLegal DEF QuietInv
<1>2. \A i \in Ranks \ {r} : SleepMode'[i] = SleepMode[i]
  BY <1>1 DEF P!Sleep
<1>3. /\ \A i \in Ranks \ {r} : naps'[i] = naps[i]
      /\ naps'[r].sleep = 0 /\ naps'[r].wake = naps[r].wake
  BY NapNoted DEF QuietInv, HInv
<1>4. refresh' = refresh
  BY DEF IssuePowerdownCommand
<1>5. T_PD_MIN <= Left(refresh[r])
  <2>1. Refreshable(r, T_PD_MIN)
    <3>1. refresh[r].issue_deadline \in Int
      BY DEF QuietInv, HInv, StateInv, Inv, TypeOK, RefreshRecord
    <3>2. QED
      BY <3>1, Constants DEF IssuePowerdownCommand, IsPowerdownFastAllowed, IsPowerdownSlowAllowed,
                             Refreshable
  <2>2. QED
    BY <2>1, Ahead, Constants DEF QuietInv, Refreshable
<1>6. Left(refresh[r]) \in Nat
  BY LeftType DEF QuietInv, HInv, StateInv, Inv, TypeOK
<1>7. QED
  BY <1>2, <1>3, <1>4, <1>5, <1>6, Constants DEF QuietInv, NapsDone

\* One cycle more, and one less to the deadline.
LEMMA CycleDone ==
  ASSUME QuietInv, StateInv', NotedUpdateMemory, NEW r \in Ranks
  PROVE  /\ naps'[r].wake + Left(refresh'[r]) >= T_XP
         /\ SleepMode[r] # "no" => naps'[r].sleep + Left(refresh'[r]) >= T_PD_MIN
         /\ r \in Forcing => Left(refresh'[r]) = 0
<1> DEFINE f == refresh[r]
           h == refresh'[r]
           n == naps[r]
           n2 == naps'[r]
<1>1. f \in RefreshRecord /\ Scheduled(f) /\ n \in RankAges /\ RefreshesFit(f, n)
  BY DEF QuietInv, HInv, HTypeOK, StateInv, Inv, TypeOK, RefreshOnSchedule, Covered, RefreshesAlone
<1>2. h = UpdatedRefresh(AgedRefresh(f))
  BY DEF NotedUpdateMemory, UpdateMemory
<1>3. Elapsed(Left(f)) <= Left(h)
  <2>1. CASE f.completion_deadline > 1
    BY <1>1, <1>2, <2>1, DeadlineCycle
  <2>2. CASE f.completion_deadline = 1
    <3>1. f.num_issued = 0
      BY DEF QuietInv, DeadlinesRespected
    <3>2. f.forced
      BY <1>1, <2>2, <3>1, RefreshCycle, Constants
    <3>3. Left(f) = 0
      BY <3>2 DEF Left
    <3>4. Left(h) \in Nat
      BY LeftType DEF StateInv, Inv, TypeOK
    <3>5. QED
      BY <3>3, <3>4 DEF Elapsed
  <2>3. QED
    BY <1>1, <2>1, <2>2 DEF Scheduled, RefreshRecord
<1>4. n2.wake = P!Longer(n.wake) /\ n2.sleep = P!Longer(n.sleep) /\ HTypeOK'
  <2>1. /\ HTypeOK'
        /\ \A i \in Ranks \ Forcing : Rested(naps[i], naps'[i])
        /\ \A i \in Forcing : /\ naps'[i].wake = P!Longer(naps[i].wake)
                               /\ naps'[i].sleep = P!Longer(naps[i].sleep)
    <3> DEFINE length == [i \in Ranks |-> refresh'[i].completion_deadline]
    <3>1. P!NoteCycle(Forcing, length)
      BY DEF NotedUpdateMemory, Forcing
    <3>2. \A i \in Forcing : length[i] \in Nat
      <4>1. \A i \in Ranks : refresh'[i].completion_deadline \in Int
                             /\ refresh'[i].completion_deadline > 0
        BY DEF StateInv, Inv, TypeOK, RefreshOnSchedule, Scheduled, RefreshRecord
      <4>2. QED
        BY <4>1 DEF Forcing
    <3>3. Forcing \in SUBSET Ranks
      BY DEF Forcing
    <3> HIDE DEF length
    <3>4. QED
      BY <3>1, <3>2, <3>3, CycleNoted DEF QuietInv, HInv
  <2>2. CASE r \in Forcing
    BY <2>1, <2>2
  <2>3. CASE r \notin Forcing
    <3>1. Rested(n, n2)
      BY <2>1, <2>3
    <3>2. QED
      BY <2>1, <3>1 DEF Rested
  <2>4. QED
    BY <2>2, <2>3
<1>5. /\ n.wake \in Ages /\ n.sleep \in Ages /\ Left(f) \in Nat /\ Left(h) \in Nat
      /\ n2.wake \in Int /\ n2.sleep \in Int
  <2>1. n2 \in RankAges /\ h \in RefreshRecord
    BY <1>4 DEF HTypeOK, StateInv, Inv, TypeOK
  <2>2. QED
    BY <1>1, <2>1, AgeFields, LeftType, Numbers
<1>6. /\ n.wake + Left(f) >= T_XP
      /\ SleepMode[r] # "no" => n.sleep + Left(f) >= T_PD_MIN
  BY DEF QuietInv, NapsDone
<1>7. P!Longer(n.wake) + Elapsed(Left(f)) >= T_XP
  BY <1>5, <1>6, AgesCover, HorizonCovers
<1>8. SleepMode[r] # "no" => P!Longer(n.sleep) + Elapsed(Left(f)) >= T_PD_MIN
  BY <1>5, <1>6, AgesCover, HorizonCovers
<1>9. r \in Forcing => Left(h) = 0
  BY DEF Forcing, Left
<1>10. Elapsed(Left(f)) \in Nat
  BY <1>5, ElapsedType
<1>11. QED
  BY <1>3, <1>4, <1>5, <1>7, <1>8, <1>9, <1>10, Constants

\* A refresh that is forced finds nothing in progress.
LEMMA ForcedQuietly ==
  ASSUME QuietInv, StateInv', NotedUpdateMemory, NEW r \in Forcing
  PROVE  P!Quiet(r)
<1>1. r \in Ranks
  BY DEF Forcing
<1>2. /\ HTypeOK'
      /\ \A b \in Banks : DoneIn(0, since'[r][b])
  BY CycleCovered DEF QuietInv
<1>3. \A b \in Banks : /\ since'[r][b].pre >= T_RP /\ since'[r][b].act >= T_RAS
                       /\ since'[r][b].read >= T_RTP /\ since'[r][b].write >= WriteRecovery
  <2>1. \A b \in Banks : since'[r][b] \in BankAges
    BY <1>1, <1>2 DEF HTypeOK
  <2>2. QED
    BY <1>2, <2>1, Numbers, Constants, WriteRecoveryType DEF DoneIn
<1>4. naps'[r].wake >= T_XP /\ SleepMode[r] # "no" => naps'[r].sleep >= T_PD_MIN
  <2>1. naps'[r].wake \in Int /\ naps'[r].sleep \in Int
    BY <1>1, <1>2, Numbers DEF HTypeOK
  <2>2. QED
    BY <1>1, <2>1, CycleDone, Constants
<1>5. naps'[r].wake >= T_XP
  <2>1. naps'[r].wake \in Int
    BY <1>1, <1>2, Numbers DEF HTypeOK
  <2>2. QED
    BY <1>1, <2>1, CycleDone, Constants
<1>6. QED
  BY <1>3, <1>4, <1>5, SameTimings DEF P!Quiet

LEMMA NapsStep ==
  ASSUME QuietInv, StateInv', [HLazyNext]_<<vars, history>>
  PROVE  NapsDone'
<1>1. CASE NotedUpdateMemory
  <2>1. \A r \in Ranks : SleepMode'[r] # "no" => SleepMode[r] # "no"
    BY <1>1, CycleView DEF QuietInv
  <2>2. QED
    BY <1>1, <2>1, CycleDone DEF NapsDone
<1>2. ASSUME NEW r \in Ranks, NotedRankStep(r) PROVE NapsDone'
  <2>1. CASE IssueAllBankPrechargeCommand(r) /\ P!NotePre(r, Banks, 0)
    <3>1. Precharge(r, Banks) /\ \A b \in Banks : State(r, b) \in PoweredUp
      BY <2>1 DEF IssueAllBankPrechargeCommand, IsAllBankPrechargeAllowed, IsPrechargeAllowed
    <3>2. QED
      BY <2>1, <3>1, PrechargeKeepsNaps, Constants
  <2>2. CASE IssuePowerupCommand(r) /\ P!NoteNap(r, "wake", 0)
    <3>1. /\ State(r, 0) \in PoweredDown /\ dram_state[r][0].next_powerup = 0 /\ PowerUp(r)
          /\ T_XP <= refresh[0].issue_deadline
      <4>1. refresh[0].issue_deadline \in Int
        BY Constants DEF QuietInv, HInv, StateInv, Inv, TypeOK, RefreshRecord
      <4>2. QED
        BY <2>2, <4>1, Constants, ExitAssumption DEF IssuePowerupCommand, IsPowerupAllowed
    <3>2. refresh[r] = refresh[0]
      BY DEF QuietInv, DeadlinesRespected
    <3>3. QED
      BY <2>2, <3>1, <3>2, WakeDone, Constants
  <2>3. CASE \E sleep \in PrePwrDown : IssuePowerdownCommand(r, sleep) /\ P!NoteNap(r, "sleep", 0)
    BY <2>3, SleepDone
  <2>4. QED
    BY <1>2, <2>1, <2>2, <2>3 DEF NotedRankStep
<1>3. ASSUME NEW r \in Ranks, NEW b \in Banks, NotedBankStep(r, b) PROVE NapsDone'
  <2>1. CASE \E row \in Rows : /\ RequestActivate(r, b, row) \/ IssueActivateCommand(r, b, row)
                               /\ P!NoteAct(r, b)
    <3>1. PICK row \in Rows : ActIssuable(r, b) /\ Activate(r, b, row) /\ P!NoteAct(r, b)
      BY <2>1 DEF RequestActivate, IssueActivateCommand
    <3>2. P!Act(r, b)
      BY <3>1, ActivateIsLegal DEF QuietInv
    <3>3. SleepMode' = SleepMode /\ naps' = naps /\ refresh' = refresh
      BY <3>1, <3>2 DEF P!Act, P!NoteAct, Activate
    <3>4. QED
      BY <3>3, NapsKept
  <2>2. CASE RequestRead(r, b) /\ P!NoteColumn(r, b, "read")
    <3>1. P!Column(r, b, "read")
      BY <2>2, ColumnIsLegal DEF QuietInv
    <3>2. SleepMode' = SleepMode /\ naps' = naps /\ refresh' = refresh
      BY <2>2, <3>1 DEF P!Column, P!NoteColumn, RequestRead
    <3>3. QED
      BY <3>2, NapsKept
  <2>3. CASE RequestWrite(r, b) /\ P!NoteColumn(r, b, "write")
    <3>1. P!Column(r, b, "write")
      BY <2>3, ColumnIsLegal DEF QuietInv
    <3>2. SleepMode' = SleepMode /\ naps' = naps /\ refresh' = refresh
      BY <2>3, <3>1 DEF P!Column, P!NoteColumn, RequestWrite
    <3>3. QED
      BY <3>2, NapsKept
  <2>4. CASE /\ RequestPrecharge(r, b) \/ IssuePrechargeCommand(r, b)
             /\ P!NotePre(r, {b}, 0)
    <3>1. Precharge(r, {b}) /\ State(r, b) \in PoweredUp
      BY <2>4 DEF RequestPrecharge, PreIssuable, IssuePrechargeCommand, IsPrechargeAllowed, PoweredUp
    <3>2. QED
      BY <2>4, <3>1, PrechargeKeepsNaps
  <2>5. CASE IssueAutoprecharge(r, b) /\ P!NotePre(r, {b}, StartPrecharge(r, b))
    <3>1. State(r, b) = "ROW_ACTIVE"
      BY <2>5, AutoprechargeFacts DEF QuietInv, State
    <3>2. /\ \A i \in Ranks : \A c \in Banks :
               dram_state'[i][c].state = IF i = r /\ c = b THEN "PRECHARGING"
                                         ELSE dram_state[i][c].state
          /\ refresh' = refresh
      <4>1. dram_state \in [Ranks -> [Banks -> BankRecord]]
        BY DEF QuietInv, HInv, StateInv, Inv, TypeOK
      <4>2. PrechargedBank(dram_state[r][b], StartPrecharge(r, b)).state = "PRECHARGING"
        BY <4>1 DEF PrechargedBank, BankRecord
      <4>3. dram_state' = [dram_state EXCEPT ![r][b] =
                             PrechargedBank(dram_state[r][b], StartPrecharge(r, b))]
        BY <2>5, <4>1 DEF IssueAutoprecharge
      <4>4. QED
        BY <2>5, <4>1, <4>2, <4>3 DEF IssueAutoprecharge
    <3>3. naps' = naps
      BY <2>5 DEF P!NotePre
    <3>4. /\ {b} \in SUBSET Banks /\ {b} # {} /\ \A c \in {b} : State(r, c) \in PoweredUp
          /\ \A i \in Ranks : \A c \in Banks :
               dram_state'[i][c].state = IF i = r /\ c \in {b} THEN "PRECHARGING"
                                         ELSE dram_state[i][c].state
      BY <3>1, <3>2 DEF PoweredUp
    <3>5. QED
      BY <3>2, <3>3, <3>4, ClosedAwake
  <2>6. CASE RequestPowerUp(r, b) /\ P!NoteNap(r, "wake", 0)
    <3>1. /\ State(r, b) \in PoweredDown /\ dram_state[r][b].next_powerup = 0 /\ PowerUp(r)
          /\ T_XP <= refresh[r].issue_deadline
      <4>1. refresh[r].issue_deadline \in Int
        BY Constants DEF QuietInv, HInv, StateInv, Inv, TypeOK, RefreshRecord
      <4>2. QED
        BY <2>6, <4>1, Constants, ExitAssumption DEF RequestPowerUp, PwrUpIssuable
    <3>2. QED
      BY <2>6, <3>1, WakeDone
  <2>7. QED
    BY <1>3, <2>1, <2>2, <2>3, <2>4, <2>5, <2>6 DEF NotedBankStep
<1>4. CASE UNCHANGED <<vars, history>>
  BY <1>4, NapsKept DEF vars, history, SleepMode, State
<1>5. QED
  BY <1>1, <1>2, <1>3, <1>4 DEF HLazyNext

LEMMA QuietStep ==
  ASSUME QuietInv, [HLazyNext]_<<vars, history>>
  PROVE  QuietInv'
<1>1. HInv'
  BY HistoryStep DEF QuietInv, HNext
<1>2. DeadlinesRespected'
  <2>1. LazyInv /\ [LazyNext]_vars
    BY HistoryIsPassive DEF QuietInv, HInv, StateInv, LazyInv, vars
  <2>2. QED
    BY <2>1, LazyStep DEF LazyInv
<1>3. NapsDone'
  BY <1>1, NapsStep DEF HInv
<1>4. QED
  BY <1>1, <1>2, <1>3 DEF QuietInv

LEMMA QuietInitially == HInit => QuietInv
<1> SUFFICES ASSUME HInit PROVE QuietInv
  OBVIOUS
<1>1. HInv
  BY HistoryInitially
<1>2. DeadlinesRespected
  BY LazyInitially DEF HInit, LazyInv
<1>3. NapsDone
  <2>1. SleepMode = [r \in Ranks |-> "no"]
    <3>1. P!Init
      BY InitiallyLegal
    <3>2. QED
      BY <3>1, SameTimings DEF P!Init
  <2>2. \A r \in Ranks : naps[r].wake = P!Horizon
    BY SameTimings DEF HInit, P!Init
  <2>3. \A r \in Ranks : Left(refresh[r]) \in Nat
    BY <1>1, LeftType DEF HInv, StateInv, Inv, TypeOK
  <2>4. QED
    BY <2>1, <2>2, <2>3, HorizonCovers, Constants DEF NapsDone
<1>4. QED
  BY <1>1, <1>2, <1>3 DEF QuietInv

LEMMA StepIsQuiet ==
  ASSUME QuietInv, QuietInv', [HLazyNext]_<<vars, history>>
  PROVE  [P!Command \/ P!QuietCycle]_P!protocolVars
<1>1. HInv /\ StateInv'
  BY DEF QuietInv, HInv
<1>2. CASE NotedUpdateMemory
  <2>1. P!Cycle(Forcing, P!RefreshLength)
    BY <1>1, <1>2, CycleIsLegal
  <2>2. \A r \in Forcing : P!Quiet(r)
    BY <1>1, <1>2, ForcedQuietly
  <2>3. Forcing \in SUBSET P!Ranks
    BY SameTimings DEF Forcing
  <2>4. QED
    BY <2>1, <2>2, <2>3 DEF P!QuietCycle
<1>3. CASE \E r \in Ranks : NotedRankStep(r)
  BY <1>1, <1>3, RankStepIsLegal
<1>4. CASE \E r \in Ranks : \E b \in Banks : NotedBankStep(r, b)
  BY <1>1, <1>4, BankStepIsLegal
<1>5. CASE UNCHANGED <<vars, history>>
  BY <1>5, StutterIsLegal
<1>6. QED
  BY <1>2, <1>3, <1>4, <1>5 DEF HLazyNext

\* While the schedulers leave all refreshing to the controller, every forced refresh
\* finds its rank quiet besides: no row cycle, column access, precharge, nap or wake-up
\* it would have to wait for is in progress, although only bank 0 is looked at and
\* the deadline tested before a wake-up is the one of rank 0.
THEOREM LazyControllerIsQuiet == HLazySpec => LegalAndQuiet
<1>1. QuietInv /\ QuietInv' /\ [HLazyNext]_<<vars, history>>
        => [P!Command \/ P!QuietCycle]_P!protocolVars
  BY StepIsQuiet
<1>2. QuietInv /\ [HLazyNext]_<<vars, history>> => QuietInv'
  BY QuietStep
<1>3. QED
  BY <1>1, <1>2, QuietInitially, InitiallyLegal, PTL DEF HLazySpec, LegalAndQuiet, P!QuietSpec
=============================================================================
