-------------------------- MODULE DramHistoryProofs --------------------------
(***************************************************************************)
(* The controller implements the device's protocol, for every geometry and *)
(* every choice of timings that satisfies the assumptions: whatever a      *)
(* scheduler gets it to issue, the device allows.                          *)
(*                                                                         *)
(* The invariant says, for every timing of the device, that a next_<cmd>   *)
(* of dram_state still waits for what is left of it: an age and a wait     *)
(* that add up to the timing.  Most commands only raise the waits.  Forced *)
(* refreshes assign them; there the deadline tests have made sure that     *)
(* everything but a row cycle is over.                                     *)
(***************************************************************************)
EXTENDS DramHistory, DramStateProofs

Ages == {age \in Int : age <= P!Horizon}
BankAges == [act : Ages, pre : Ages, read : Ages, write : Ages]
RankAges == [sleep : Ages, wake : Ages \cap Nat, refresh : Ages]

HTypeOK ==
  /\ since \in [Ranks -> [Banks -> BankAges]]
  /\ naps \in [Ranks -> RankAges]
  /\ acts \in [Ranks -> [1 .. 4 -> 0 .. T_FAW + 1]]
  /\ bus \in [rank : Ranks, kind : {"read", "write"}, busy : Int]

-----------------------------------------------------------------------------
RowStates == {"ROW_ACTIVE", "ACTIVE_POWER_DOWN"}

\* The waits of a bank k cover what the device still asks of it, by the ages s of its
\* own commands and n of its rank.

ActCovered(k, s) ==
  /\ s.act + k.next_act >= T_RC
  /\ s.act + k.next_pre >= T_RAS /\ s.act + k.next_refresh >= T_RAS
  /\ s.act + k.next_read >= T_RCD /\ s.act + k.next_write >= T_RCD
  /\ s.act + k.next_powerdown >= T_RCD

PreCovered(k, s) ==
  /\ s.pre + k.next_act >= T_RP /\ s.pre + k.next_powerdown >= T_RP
  /\ s.pre + k.next_refresh >= T_RP

ColumnCovered(k, s) ==
  /\ s.read + k.next_pre >= T_RTP /\ s.read + k.next_refresh >= T_RTP
  /\ s.read + k.next_powerdown >= T_RTP
  /\ s.write + k.next_pre >= WriteRecovery /\ s.write + k.next_refresh >= WriteRecovery
  /\ s.write + k.next_powerdown >= WriteRecovery

WakeCovered(k, n) ==
  /\ n.wake + k.next_act >= T_XP /\ n.wake + k.next_pre >= T_XP
  /\ n.wake + k.next_read >= T_XP /\ n.wake + k.next_write >= T_XP
  /\ n.wake + k.next_powerdown >= T_XP /\ n.wake + k.next_refresh >= T_XP

RefreshCovered(k, n) ==
  /\ n.refresh + k.next_act >= T_RFC /\ n.refresh + k.next_pre >= T_RFC
  /\ n.refresh + k.next_powerdown >= T_RFC /\ n.refresh + k.next_refresh >= T_RFC
  /\ k.state \in RowStates => n.refresh >= T_RFC

SleepCovered(k, n) ==
  k.state \in PoweredDown =>
    n.sleep + k.next_powerup >= T_PD_MIN /\ n.sleep + k.next_refresh >= T_PD_MIN

BankCovered(k, s) == ActCovered(k, s) /\ PreCovered(k, s) /\ ColumnCovered(k, s)
RankCovered(k, n) == WakeCovered(k, n) /\ RefreshCovered(k, n) /\ SleepCovered(k, n)

\* By the ages s of any bank of the rank, and of any other bank.
ColumnsCovered(k, s) ==
  /\ s.read + k.next_read >= T_CCD /\ s.write + k.next_write >= T_CCD
  /\ s.write + k.next_read >= T_CWD + T_DATA_TRANS + T_WTR

OthersCovered(k, s) == s.act + k.next_act >= T_RRD

\* By the last burst u on the data bus of the channel; r is the rank of the bank.
BusCovered(k, r, u) ==
  /\ T_CAS + k.next_read >= u.busy + (IF u.rank # r THEN T_RTRS ELSE 0)
  /\ T_CWD + k.next_write >= u.busy + (IF u.rank # r \/ u.kind = "read" THEN T_RTRS ELSE 0)

\* What is left of the commands of a bank is over when its rank reaches the deadline
\* for issuing refreshes.
Left(f) == IF f.forced \/ f.issue_deadline < 0 THEN 0 ELSE f.issue_deadline

DoneIn(t, s) ==
  /\ s.act + t >= T_RAS /\ s.pre + t >= T_RP
  /\ s.read + t >= T_RTP /\ s.write + t >= WriteRecovery

\* The refreshes issued by the scheduler fit in the part of the window that is over, and
\* in what is left of the last of them; while it goes on nothing else does.  So a window
\* that is renewed does not bring the deadline nearer to a command.
RefreshesFit(f, n) ==
  ~f.forced =>
    f.num_issued * T_RFC <= RefreshWindow - f.completion_deadline + Later(T_RFC - n.refresh, 0)

RefreshAlone(n, s) == n.refresh >= T_RFC \/ DoneIn(0, s)

\* The four activates the device remembers are in the activation record, in their order.
ActsRecorded(a, record) ==
  /\ \A i \in 1 .. 4 : a[i] <= T_FAW => a[i] \in record
  /\ \A i \in 1 .. 3 : a[i] < a[i + 1] \/ a[i + 1] > T_FAW

-----------------------------------------------------------------------------
\* The inductive invariant.

BanksCovered == \A r \in Ranks, b \in Banks : BankCovered(dram_state[r][b], since[r][b])

RanksCovered == \A r \in Ranks, b \in Banks : RankCovered(dram_state[r][b], naps[r])

NeighboursCovered ==
  \A r \in Ranks, b \in Banks, c \in Banks :
    /\ ColumnsCovered(dram_state[r][b], since[r][c])
    /\ c # b => OthersCovered(dram_state[r][b], since[r][c])

BurstsCovered ==
  bus.busy >= -T_RTRS /\ \A r \in Ranks, b \in Banks : BusCovered(dram_state[r][b], r, bus)

DoneByDeadline ==
  \A r \in Ranks, b \in Banks : DoneIn(Left(refresh[r]), since[r][b])

RefreshesAlone ==
  \A r \in Ranks :
    RefreshesFit(refresh[r], naps[r]) /\ \A b \in Banks : RefreshAlone(naps[r], since[r][b])

ActivatesRecorded ==
  \A r \in Ranks :
    /\ ActsRecorded(acts[r], activation_record[r])
    /\ ~command_issued_current_cycle => acts[r][1] > 0

\* A bank that may still take an auto-precharge is of a rank that is awake.
ColumnsAwake ==
  \A r \in Ranks, b \in Banks : cas_issued_current_cycle[r][b] # 0 => naps[r].wake >= T_XP

Covered ==
  /\ BanksCovered /\ RanksCovered /\ NeighboursCovered /\ BurstsCovered
  /\ DoneByDeadline /\ RefreshesAlone /\ ActivatesRecorded /\ ColumnsAwake

HInv == StateInv /\ HTypeOK /\ Covered

\* When the scheduler issues no refreshes: waking up and falling asleep are over by the
\* deadline as well.
NapsDone ==
  \A r \in Ranks :
    /\ naps[r].wake + Left(refresh[r]) >= T_XP
    /\ SleepMode[r] # "no" => naps[r].sleep + Left(refresh[r]) >= T_PD_MIN

-----------------------------------------------------------------------------
\* Arithmetic of ages and waits.

LEMMA LaterCovers ==
  \A t, next : t \in Int /\ next \in Nat =>
    Later(t, next) \in Nat /\ Later(t, next) >= t /\ Later(t, next) >= next
BY DEF Later

\* The protocol and the controller use the same timings.
LEMMA SameTimings ==
  /\ P!Ranks = Ranks /\ P!Banks = Banks /\ P!WriteRecovery = WriteRecovery
  /\ \A t, next : P!Later(t, next) = Later(t, next)
  /\ \A m : P!RefreshTail(m) = RefreshTail(m)
BY DEF P!Ranks, Ranks, P!Banks, Banks, P!WriteRecovery, WriteRecovery, P!Later, Later,
       P!RefreshTail, RefreshTail

LEMMA HorizonCovers ==
  /\ P!Horizon \in Nat
  /\ T_RC \in 0 .. P!Horizon /\ T_RAS \in 0 .. P!Horizon /\ T_RCD \in 0 .. P!Horizon
  /\ T_RRD \in 0 .. P!Horizon /\ T_RP \in 0 .. P!Horizon /\ T_RTP \in 0 .. P!Horizon
  /\ T_CCD \in 0 .. P!Horizon /\ T_RFC \in 0 .. P!Horizon /\ T_XP \in 0 .. P!Horizon
  /\ T_PD_MIN \in 0 .. P!Horizon /\ WriteRecovery \in 0 .. P!Horizon
  /\ T_CWD + T_DATA_TRANS + T_WTR \in 0 .. P!Horizon
<1> DEFINE turn == T_CWD + T_DATA_TRANS + T_WTR
           h1 == Later(WriteRecovery, turn)
           h2 == Later(T_RFC, Later(T_XP_DLL, Later(T_PD_MIN, h1)))
           h3 == Later(T_RP, Later(T_RTP, Later(T_CCD, h2)))
           h4 == Later(T_RC, Later(T_RAS, Later(T_RCD, Later(T_RRD, h3))))
<1>1. turn \in Nat /\ h1 \in Nat /\ h1 >= turn /\ h1 >= WriteRecovery
  BY Constants, WriteRecoveryType, LaterCovers
<1> HIDE DEF turn, h1
<1>2. h2 \in Nat /\ h2 >= h1 /\ h2 >= T_RFC /\ h2 >= T_XP_DLL /\ h2 >= T_PD_MIN
  BY <1>1, Constants, LaterCovers
<1> HIDE DEF h2
<1>3. h3 \in Nat /\ h3 >= h2 /\ h3 >= T_RP /\ h3 >= T_RTP /\ h3 >= T_CCD
  BY <1>2, Constants, LaterCovers
<1> HIDE DEF h3
<1>4. h4 \in Nat /\ h4 >= h3 /\ h4 >= T_RC /\ h4 >= T_RAS /\ h4 >= T_RCD /\ h4 >= T_RRD
  BY <1>3, Constants, LaterCovers
<1>5. P!Horizon = h4
  BY SameTimings DEF P!Horizon, h3, h2, h1, turn
<1> HIDE DEF h4
<1>6. /\ T_XP <= h4 /\ T_RFC <= h4 /\ T_PD_MIN <= h4 /\ WriteRecovery <= h4 /\ turn <= h4
      /\ T_RP <= h4 /\ T_RTP <= h4 /\ T_CCD <= h4
  BY <1>1, <1>2, <1>3, <1>4, Constants, ExitAssumption, WriteRecoveryType
<1>7. /\ T_RC \in 0 .. h4 /\ T_RAS \in 0 .. h4 /\ T_RCD \in 0 .. h4 /\ T_RRD \in 0 .. h4
      /\ T_RP \in 0 .. h4 /\ T_RTP \in 0 .. h4 /\ T_CCD \in 0 .. h4 /\ T_RFC \in 0 .. h4
  BY <1>4, <1>6, Constants
<1>8. /\ T_XP \in 0 .. h4 /\ T_PD_MIN \in 0 .. h4 /\ WriteRecovery \in 0 .. h4
      /\ turn \in 0 .. h4
  BY <1>1, <1>4, <1>6, Constants, WriteRecoveryType
<1>9. QED
  BY <1>4, <1>5, <1>7, <1>8 DEF turn

LEMMA ZeroAge == 0 \in Ages
BY HorizonCovers DEF Ages

LEMMA AgesType ==
  /\ Ages \subseteq Int
  /\ \A t \in Nat : -t \in Ages
  /\ \A age \in Ages : P!Longer(age) \in Ages /\ P!Longer(age) >= age
  /\ \A age \in Ages : age \in Nat => P!Longer(age) \in Nat
BY HorizonCovers DEF Ages, P!Longer

\* A cycle takes as much from a wait as it adds to an age.
LEMMA AgesCover ==
  ASSUME NEW age \in Ages, NEW wait \in Nat, NEW t \in 0 .. P!Horizon, age + wait >= t
  PROVE  P!Longer(age) + Elapsed(wait) >= t
BY HorizonCovers DEF Ages, P!Longer, Elapsed

-----------------------------------------------------------------------------
\* What is noted of each command.

LEMMA BankAgesType ==
  ASSUME NEW s \in BankAges, NEW age \in Ages
  PROVE  /\ [s EXCEPT !.act = age] \in BankAges /\ [s EXCEPT !.pre = age] \in BankAges
         /\ [s EXCEPT !.read = age] \in BankAges /\ [s EXCEPT !.write = age] \in BankAges
BY DEF BankAges

LEMMA ActNoted ==
  ASSUME HTypeOK, NEW r \in Ranks, NEW b \in Banks, P!NoteAct(r, b)
  PROVE  /\ HTypeOK' /\ naps' = naps /\ bus' = bus
         /\ \A i \in Ranks, j \in Banks :
              /\ since'[i][j].pre = since[i][j].pre
              /\ since'[i][j].read = since[i][j].read /\ since'[i][j].write = since[i][j].write
              /\ since'[i][j].act = IF i = r /\ j = b THEN 0 ELSE since[i][j].act
         /\ \A i \in Ranks \ {r} : acts'[i] = acts[i]
         /\ acts'[r][1] = 0 /\ acts'[r][2] = acts[r][1]
         /\ acts'[r][3] = acts[r][2] /\ acts'[r][4] = acts[r][3]
<1> DEFINE shifted == [i \in 1 .. 4 |-> IF i = 1 THEN 0 ELSE acts[r][i - 1]]
<1>1. since' \in [Ranks -> [Banks -> BankAges]]
  BY ZeroAge, BankAgesType DEF P!NoteAct, HTypeOK
<1>2. \A i \in Ranks, j \in Banks :
        /\ since'[i][j].pre = since[i][j].pre
        /\ since'[i][j].read = since[i][j].read /\ since'[i][j].write = since[i][j].write
        /\ since'[i][j].act = IF i = r /\ j = b THEN 0 ELSE since[i][j].act
  BY DEF P!NoteAct, HTypeOK, BankAges
<1>3. shifted \in [1 .. 4 -> 0 .. T_FAW + 1]
  BY Constants DEF HTypeOK
<1>4. acts' = [acts EXCEPT ![r] = shifted]
  BY DEF P!NoteAct
<1>5. /\ shifted[1] = 0 /\ shifted[2] = acts[r][1]
      /\ shifted[3] = acts[r][2] /\ shifted[4] = acts[r][3]
  OBVIOUS
<1> HIDE DEF shifted
<1>6. acts' \in [Ranks -> [1 .. 4 -> 0 .. T_FAW + 1]] /\ acts'[r] = shifted
  BY <1>3, <1>4 DEF HTypeOK
<1>7. \A i \in Ranks \ {r} : acts'[i] = acts[i]
  BY <1>4 DEF HTypeOK
<1>8. QED
  BY <1>1, <1>2, <1>5, <1>6, <1>7 DEF HTypeOK, P!NoteAct

LEMMA ColumnNoted ==
  ASSUME HTypeOK, NEW r \in Ranks, NEW b \in Banks, NEW kind \in {"read", "write"},
         P!NoteColumn(r, b, kind)
  PROVE  /\ HTypeOK' /\ naps' = naps /\ acts' = acts
         /\ bus'.rank = r /\ bus'.kind = kind
         /\ bus'.busy = (IF kind = "read" THEN T_CAS ELSE T_CWD) + T_DATA_TRANS
         /\ \A i \in Ranks, j \in Banks :
              /\ since'[i][j].act = since[i][j].act /\ since'[i][j].pre = since[i][j].pre
              /\ since'[i][j].read =
                   IF i = r /\ j = b /\ kind = "read" THEN 0 ELSE since[i][j].read
              /\ since'[i][j].write =
                   IF i = r /\ j = b /\ kind = "write" THEN 0 ELSE since[i][j].write
<1>1. since' \in [Ranks -> [Banks -> BankAges]]
  <2>1. CASE kind = "read"
    BY <2>1, ZeroAge, BankAgesType DEF P!NoteColumn, HTypeOK
  <2>2. CASE kind = "write"
    BY <2>2, ZeroAge, BankAgesType DEF P!NoteColumn, HTypeOK
  <2>3. QED
    BY <2>1, <2>2
<1>2. \A i \in Ranks, j \in Banks :
        /\ since'[i][j].act = since[i][j].act /\ since'[i][j].pre = since[i][j].pre
        /\ since'[i][j].read =
             IF i = r /\ j = b /\ kind = "read" THEN 0 ELSE since[i][j].read
        /\ since'[i][j].write =
             IF i = r /\ j = b /\ kind = "write" THEN 0 ELSE since[i][j].write
  <2>1. CASE kind = "read"
    BY <2>1 DEF P!NoteColumn, HTypeOK, BankAges
  <2>2. CASE kind = "write"
    BY <2>2 DEF P!NoteColumn, HTypeOK, BankAges
  <2>3. QED
    BY <2>1, <2>2
<1>3. /\ bus' \in [rank : Ranks, kind : {"read", "write"}, busy : Int]
      /\ bus'.rank = r /\ bus'.kind = kind
      /\ bus'.busy = (IF kind = "read" THEN T_CAS ELSE T_CWD) + T_DATA_TRANS
  BY Constants DEF P!NoteColumn
<1>4. QED
  BY <1>1, <1>2, <1>3 DEF HTypeOK, P!NoteColumn

LEMMA PreNoted ==
  ASSUME HTypeOK, NEW r \in Ranks, NEW banks \in SUBSET Banks, NEW delay \in Nat,
         P!NotePre(r, banks, delay)
  PROVE  /\ HTypeOK' /\ naps' = naps /\ acts' = acts /\ bus' = bus
         /\ \A i \in Ranks, j \in Banks :
              /\ since'[i][j].act = since[i][j].act
              /\ since'[i][j].read = since[i][j].read /\ since'[i][j].write = since[i][j].write
              /\ since'[i][j].pre = IF i = r /\ j \in banks THEN 0 - delay ELSE since[i][j].pre
<1> DEFINE marked == [b \in Banks |-> IF b \in banks THEN [since[r][b] EXCEPT !.pre = -delay]
                                      ELSE since[r][b]]
<1>1. since' = [since EXCEPT ![r] = marked]
  BY SameTimings DEF P!NotePre
<1>2. marked \in [Banks -> BankAges]
  <2>1. -delay \in Ages
    BY AgesType
  <2>2. \A j \in Banks : since[r][j] \in BankAges
    BY DEF HTypeOK
  <2>3. \A j \in Banks : [since[r][j] EXCEPT !.pre = -delay] \in BankAges
    BY <2>1, <2>2, BankAgesType
  <2>4. QED
    BY <2>2, <2>3
<1>3. \A j \in Banks :
        /\ marked[j].act = since[r][j].act
        /\ marked[j].read = since[r][j].read /\ marked[j].write = since[r][j].write
        /\ marked[j].pre = IF j \in banks THEN 0 - delay ELSE since[r][j].pre
  BY DEF HTypeOK, BankAges
<1> HIDE DEF marked
<1>4. since' \in [Ranks -> [Banks -> BankAges]] /\ since'[r] = marked
  BY <1>1, <1>2 DEF HTypeOK
<1>5. \A i \in Ranks \ {r} : since'[i] = since[i]
  BY <1>1 DEF HTypeOK
<1>6. QED
  BY <1>3, <1>4, <1>5 DEF HTypeOK, P!NotePre

LEMMA NapNoted ==
  ASSUME HTypeOK, NEW r \in Ranks, NEW delay \in Nat, NEW kind \in {"sleep", "wake", "refresh"},
         kind = "wake" => delay = 0, P!NoteNap(r, kind, delay)
  PROVE  /\ HTypeOK' /\ since' = since /\ acts' = acts /\ bus' = bus
         /\ \A i \in Ranks \ {r} : naps'[i] = naps[i]
         /\ naps'[r].sleep = IF kind = "sleep" THEN 0 - delay ELSE naps[r].sleep
         /\ naps'[r].wake = IF kind = "wake" THEN 0 ELSE naps[r].wake
         /\ naps'[r].refresh = IF kind = "refresh" THEN 0 - delay ELSE naps[r].refresh
<1>1. -delay \in Ages /\ (kind = "wake" => -delay \in Nat /\ -delay = 0)
  BY AgesType
<1>2. naps' \in [Ranks -> RankAges]
  <2>1. CASE kind = "sleep"
    BY <1>1, <2>1 DEF P!NoteNap, HTypeOK, RankAges
  <2>2. CASE kind = "wake"
    BY <1>1, <2>2 DEF P!NoteNap, HTypeOK, RankAges
  <2>3. CASE kind = "refresh"
    BY <1>1, <2>3 DEF P!NoteNap, HTypeOK, RankAges
  <2>4. QED
    BY <2>1, <2>2, <2>3
<1>3. /\ \A i \in Ranks \ {r} : naps'[i] = naps[i]
      /\ naps'[r].sleep = IF kind = "sleep" THEN 0 - delay ELSE naps[r].sleep
      /\ naps'[r].wake = IF kind = "wake" THEN 0 ELSE naps[r].wake
      /\ naps'[r].refresh = IF kind = "refresh" THEN 0 - delay ELSE naps[r].refresh
  <2>1. CASE kind = "sleep"
    BY <1>1, <2>1 DEF P!NoteNap, HTypeOK, RankAges
  <2>2. CASE kind = "wake"
    BY <1>1, <2>2 DEF P!NoteNap, HTypeOK, RankAges
  <2>3. CASE kind = "refresh"
    BY <1>1, <2>3 DEF P!NoteNap, HTypeOK, RankAges
  <2>4. QED
    BY <2>1, <2>2, <2>3
<1>4. QED
  BY <1>2, <1>3 DEF HTypeOK, P!NoteNap

-----------------------------------------------------------------------------
\* What each command does to the coverage of one bank.

\* Bank k2 waits for everything at least as long as k.
Raised(k, k2) ==
  /\ k2.next_act >= k.next_act /\ k2.next_pre >= k.next_pre
  /\ k2.next_read >= k.next_read /\ k2.next_write >= k.next_write
  /\ k2.next_powerdown >= k.next_powerdown /\ k2.next_refresh >= k.next_refresh

\* No row has been opened, and a bank that sleeps has not just fallen asleep.
Calmer(k, k2) ==
  /\ k2.state \in RowStates => k.state \in RowStates
  /\ k2.state \in PoweredDown => k.state \in PoweredDown /\ k2.next_powerup >= k.next_powerup

\* The numbers they are made of.
LEMMA Numbers ==
  /\ \A s \in BankAges : s.act \in Int /\ s.pre \in Int /\ s.read \in Int /\ s.write \in Int
  /\ \A n \in RankAges : n.sleep \in Int /\ n.wake \in Nat /\ n.refresh \in Int
  /\ \A k \in BankRecord :
       /\ k.next_act \in Nat /\ k.next_pre \in Nat /\ k.next_read \in Nat
       /\ k.next_write \in Nat /\ k.next_powerdown \in Nat /\ k.next_powerup \in Nat
       /\ k.next_refresh \in Nat
BY DEF BankAges, RankAges, BankRecord, Ages

LEMMA RaisedBank ==
  ASSUME NEW k \in BankRecord, NEW k2 \in BankRecord, Raised(k, k2),
         NEW s \in BankAges, BankCovered(k, s)
  PROVE  BankCovered(k2, s)
BY Numbers, Constants, WriteRecoveryType
   DEF Raised, BankCovered, ActCovered, PreCovered, ColumnCovered

LEMMA RaisedRank ==
  ASSUME NEW k \in BankRecord, NEW k2 \in BankRecord, Raised(k, k2), Calmer(k, k2),
         NEW n \in RankAges, RankCovered(k, n)
  PROVE  RankCovered(k2, n)
BY Numbers, Constants
   DEF Raised, Calmer, RankCovered, WakeCovered, RefreshCovered, SleepCovered

LEMMA RaisedNeighbour ==
  ASSUME NEW k \in BankRecord, NEW k2 \in BankRecord, Raised(k, k2), NEW s \in BankAges
  PROVE  /\ ColumnsCovered(k, s) => ColumnsCovered(k2, s)
         /\ OthersCovered(k, s) => OthersCovered(k2, s)
BY Numbers, Constants DEF Raised, ColumnsCovered, OthersCovered

Bursts == [rank : Ranks, kind : {"read", "write"}, busy : Int]

LEMMA RaisedBurst ==
  ASSUME NEW k \in BankRecord, NEW k2 \in BankRecord, Raised(k, k2), NEW r, NEW u \in Bursts,
         BusCovered(k, r, u)
  PROVE  BusCovered(k2, r, u)
BY Constants DEF Raised, BusCovered, BankRecord, Bursts

LEMMA ActivatedRaised ==
  ASSUME NEW k \in BankRecord, NEW row \in Rows
  PROVE  LET k2 == ActivatedBank(k, row)
         IN  /\ Raised(k, k2) /\ k2.state = "ROW_ACTIVE"
             /\ k2.next_act >= T_RC /\ k2.next_pre >= T_RAS /\ k2.next_refresh >= T_RAS
             /\ k2.next_read >= T_RCD /\ k2.next_write >= T_RCD /\ k2.next_powerdown >= T_RCD
BY Constants, LaterCovers DEF ActivatedBank, Raised, BankRecord

LEMMA ActivatedCovered ==
  ASSUME NEW k \in BankRecord, NEW row \in Rows, NEW s \in BankAges, NEW s2 \in BankAges,
         BankCovered(k, s), s2.act = 0, s2.pre = s.pre, s2.read = s.read, s2.write = s.write
  PROVE  BankCovered(ActivatedBank(k, row), s2)
<1> DEFINE k2 == ActivatedBank(k, row)
<1>1. /\ Raised(k, k2)
      /\ k2.next_act >= T_RC /\ k2.next_pre >= T_RAS /\ k2.next_refresh >= T_RAS
      /\ k2.next_read >= T_RCD /\ k2.next_write >= T_RCD /\ k2.next_powerdown >= T_RCD
  BY ActivatedRaised
<1>2. k2 \in BankRecord
  BY BankTypes
<1> HIDE DEF k2
<1>3. BankCovered(k2, s)
  BY <1>1, <1>2, RaisedBank
<1>4. ActCovered(k2, s2)
  BY <1>1, <1>2, Constants DEF ActCovered, BankRecord
<1>5. PreCovered(k2, s2) /\ ColumnCovered(k2, s2)
  BY <1>3 DEF BankCovered, PreCovered, ColumnCovered
<1>6. QED
  BY <1>4, <1>5 DEF BankCovered, k2

LEMMA PrechargedRaised ==
  ASSUME NEW k \in BankRecord, NEW start \in Nat
  PROVE  LET k2 == PrechargedBank(k, start)
         IN  /\ Raised(k, k2) /\ k2.state = "PRECHARGING"
             /\ k2.next_act >= start + T_RP /\ k2.next_powerdown >= start + T_RP
             /\ k2.next_refresh >= start + T_RP
BY Constants, LaterCovers DEF PrechargedBank, Raised, BankRecord

LEMMA PrechargedCovered ==
  ASSUME NEW k \in BankRecord, NEW start \in Nat, NEW s \in BankAges, NEW s2 \in BankAges,
         BankCovered(k, s), s2.pre = 0 - start, s2.act = s.act, s2.read = s.read,
         s2.write = s.write
  PROVE  BankCovered(PrechargedBank(k, start), s2)
<1> DEFINE k2 == PrechargedBank(k, start)
<1>1. /\ Raised(k, k2)
      /\ k2.next_act >= start + T_RP /\ k2.next_powerdown >= start + T_RP
      /\ k2.next_refresh >= start + T_RP
  BY PrechargedRaised
<1>2. k2 \in BankRecord
  BY BankTypes
<1> HIDE DEF k2
<1>3. BankCovered(k2, s)
  BY <1>1, <1>2, RaisedBank
<1>4. PreCovered(k2, s2)
  BY <1>1, <1>2, Constants DEF PreCovered, BankRecord
<1>5. ActCovered(k2, s2) /\ ColumnCovered(k2, s2)
  BY <1>3 DEF BankCovered, ActCovered, ColumnCovered
<1>6. QED
  BY <1>4, <1>5 DEF BankCovered, k2

\* The other banks of the rank of an activate.
DelayedBank(k) == [k EXCEPT !.next_act = Later(T_RRD, @)]

LEMMA DelayedRaised ==
  ASSUME NEW k \in BankRecord
  PROVE  /\ DelayedBank(k) \in BankRecord /\ Raised(k, DelayedBank(k))
         /\ Calmer(k, DelayedBank(k)) /\ DelayedBank(k).next_act >= T_RRD
<1>1. DelayedBank(k) \in BankRecord
  BY BankTypes DEF DelayedBank
<1>2. QED
  BY <1>1, Constants, LaterCovers DEF DelayedBank, Raised, Calmer, BankRecord

LEMMA PoweredUpRaised ==
  ASSUME NEW k \in BankRecord, k.state \in PoweredDown
  PROVE  LET k2 == PoweredUpBank(k)
         IN  /\ Raised(k, k2) /\ k2.state \notin PoweredDown
             /\ k2.state \in RowStates <=> k.state \in RowStates
             /\ k2.next_act >= T_XP /\ k2.next_pre >= T_XP /\ k2.next_read >= T_XP
             /\ k2.next_write >= T_XP /\ k2.next_powerdown >= T_XP /\ k2.next_refresh >= T_XP
<1> DEFINE k2 == PoweredUpBank(k)
<1>1. /\ k2.next_act = Later(T_XP, k.next_act) /\ k2.next_pre = Later(T_XP, k.next_pre)
      /\ k2.next_read = Later(T_XP, k.next_read) /\ k2.next_write = Later(T_XP, k.next_write)
      /\ k2.next_powerdown = Later(T_XP, k.next_powerdown)
      /\ k2.next_refresh = Later(T_XP, k.next_refresh)
  BY DEF PoweredUpBank, BankRecord, PrePwrDown, PoweredDown
<1>2. k2.state = IF k.state \in PrePwrDown THEN "IDLE" ELSE "ROW_ACTIVE"
  BY DEF PoweredUpBank, BankRecord
<1> HIDE DEF k2
<1>3. k2.state \notin PoweredDown /\ (k2.state \in RowStates <=> k.state \in RowStates)
  BY <1>2 DEF PoweredDown, PrePwrDown, RowStates
<1>4. QED
  BY <1>1, <1>3, Constants, LaterCovers, Numbers DEF Raised, k2

LEMMA PoweredUpCovered ==
  ASSUME NEW k \in BankRecord, k.state \in PoweredDown, NEW n \in RankAges, NEW n2 \in RankAges,
         RankCovered(k, n), n2.wake = 0, n2.refresh = n.refresh
  PROVE  RankCovered(PoweredUpBank(k), n2)
<1> DEFINE k2 == PoweredUpBank(k)
<1>1. k2 \in BankRecord
  BY BankTypes
<1>2. /\ Raised(k, k2) /\ k2.state \notin PoweredDown
      /\ k2.state \in RowStates <=> k.state \in RowStates
      /\ k2.next_act >= T_XP /\ k2.next_pre >= T_XP /\ k2.next_read >= T_XP
      /\ k2.next_write >= T_XP /\ k2.next_powerdown >= T_XP /\ k2.next_refresh >= T_XP
  BY PoweredUpRaised
<1> HIDE DEF k2
<1>3. WakeCovered(k2, n2)
  BY <1>1, <1>2, Numbers, Constants DEF WakeCovered
<1>4. RefreshCovered(k2, n2)
  BY <1>1, <1>2, Numbers, Constants DEF Raised, RefreshCovered, RankCovered
<1>5. SleepCovered(k2, n2)
  BY <1>2 DEF SleepCovered
<1>6. QED
  BY <1>3, <1>4, <1>5 DEF RankCovered, k2

LEMMA PoweredDownCovered ==
  ASSUME NEW k \in BankRecord, NEW sleep \in PrePwrDown, k.state \in PoweredUp,
         NEW n \in RankAges, NEW n2 \in RankAges,
         RankCovered(k, n), n2.sleep = 0, n2.wake = n.wake, n2.refresh = n.refresh
  PROVE  LET k2 == PoweredDownBank(k, sleep)
         IN  /\ RankCovered(k2, n2) /\ Raised(k, k2)
             /\ k2.state = IF k.state = "ROW_ACTIVE" THEN "ACTIVE_POWER_DOWN" ELSE sleep
<1> DEFINE k2 == PoweredDownBank(k, sleep)
<1>1. k2 \in BankRecord
  BY BankTypes
<1>2. /\ k2.next_powerup = Later(T_PD_MIN, k.next_powerdown)
      /\ k2.next_refresh = Later(T_PD_MIN, k.next_refresh)
      /\ k2.next_act = k.next_act /\ k2.next_pre = k.next_pre /\ k2.next_read = k.next_read
      /\ k2.next_write = k.next_write /\ k2.next_powerdown = k.next_powerdown
      /\ k2.state = IF k.state = "ROW_ACTIVE" THEN "ACTIVE_POWER_DOWN" ELSE sleep
  BY DEF PoweredDownBank, BankRecord
<1> HIDE DEF k2
<1>3. Raised(k, k2) /\ k2.next_powerup >= T_PD_MIN /\ k2.next_refresh >= T_PD_MIN
  BY <1>1, <1>2, Numbers, Constants, LaterCovers DEF Raised
<1>4. WakeCovered(k2, n2)
  BY <1>1, <1>3, Numbers, Constants DEF Raised, WakeCovered, RankCovered
<1>5. k2.state \in RowStates => k.state \in RowStates
  BY <1>2 DEF RowStates, PrePwrDown
<1>6. RefreshCovered(k2, n2)
  BY <1>1, <1>3, <1>5, Numbers, Constants DEF Raised, RefreshCovered, RankCovered
<1>7. SleepCovered(k2, n2)
  BY <1>1, <1>3, Numbers, Constants DEF SleepCovered
<1>8. QED
  BY <1>2, <1>3, <1>4, <1>6, <1>7 DEF RankCovered, k2

LEMMA RefreshedCovered ==
  ASSUME NEW k \in BankRecord, NEW lead \in Nat, NEW n \in RankAges, NEW n2 \in RankAges,
         RankCovered(k, n), n2.refresh = 0 - lead, n2.wake = n.wake, n2.sleep = n.sleep
  PROVE  LET k2 == RefreshedBank(k, lead)
         IN  RankCovered(k2, n2) /\ Raised(k, k2) /\ k2.state = "REFRESHING"
<1> DEFINE k2 == RefreshedBank(k, lead)
<1>1. k2 \in BankRecord
  BY BankTypes
<1>2. /\ k2.next_act = Later(lead + T_RFC, k.next_act)
      /\ k2.next_pre = Later(lead + T_RFC, k.next_pre)
      /\ k2.next_refresh = Later(lead + T_RFC, k.next_refresh)
      /\ k2.next_powerdown = Later(lead + T_RFC, k.next_powerdown)
      /\ k2.next_read = k.next_read /\ k2.next_write = k.next_write
      /\ k2.state = "REFRESHING"
  BY DEF RefreshedBank, BankRecord
<1> HIDE DEF k2
<1>3. /\ Raised(k, k2) /\ k2.next_act >= lead + T_RFC /\ k2.next_pre >= lead + T_RFC
      /\ k2.next_refresh >= lead + T_RFC /\ k2.next_powerdown >= lead + T_RFC
  BY <1>1, <1>2, Numbers, Constants, LaterCovers DEF Raised
<1>4. WakeCovered(k2, n2)
  BY <1>1, <1>3, Numbers, Constants DEF Raised, WakeCovered, RankCovered
<1>5. RefreshCovered(k2, n2)
  BY <1>1, <1>2, <1>3, Numbers, Constants DEF RefreshCovered, RowStates
<1>6. SleepCovered(k2, n2)
  BY <1>2 DEF SleepCovered, PoweredDown, PrePwrDown
<1>7. QED
  BY <1>2, <1>3, <1>4, <1>5, <1>6 DEF RankCovered, k2

LEMMA ColumnRaised ==
  ASSUME NEW k \in BankRecord, NEW busy \in Nat
  PROVE  LET k2 == ColumnBank(k, busy)
         IN  /\ k2 \in BankRecord /\ Raised(k, k2)
             /\ k2.state = k.state /\ k2.next_powerup = k.next_powerup
             /\ k2.next_pre >= busy /\ k2.next_refresh >= busy /\ k2.next_powerdown >= busy
<1>1. ColumnBank(k, busy) \in BankRecord
  BY BankTypes
<1>2. QED
  BY <1>1, LaterCovers DEF ColumnBank, Raised, BankRecord

LEMMA AfterReadRaised ==
  ASSUME NEW k \in BankRecord, NEW same \in BOOLEAN
  PROVE  LET k2 == AfterRead(k, same)
         IN  /\ k2 \in BankRecord /\ Raised(k, k2)
             /\ k2.state = k.state /\ k2.next_powerup = k.next_powerup
             /\ k2.next_read >= IF same THEN ColumnGap ELSE T_DATA_TRANS + T_RTRS
             /\ k2.next_write >= T_CAS + T_DATA_TRANS + T_RTRS - T_CWD
<1>1. AfterRead(k, same) \in BankRecord
  BY BankTypes
<1>2. /\ T_CAS + T_DATA_TRANS + T_RTRS - T_CWD \in Int
      /\ (IF same THEN ColumnGap ELSE T_DATA_TRANS + T_RTRS) \in Int
  BY Constants, WriteRecoveryType
<1>3. QED
  BY <1>1, <1>2, LaterCovers DEF AfterRead, Raised, BankRecord

LEMMA AfterWriteRaised ==
  ASSUME NEW k \in BankRecord, NEW same \in BOOLEAN
  PROVE  LET k2 == AfterWrite(k, same)
         IN  /\ k2 \in BankRecord /\ Raised(k, k2)
             /\ k2.state = k.state /\ k2.next_powerup = k.next_powerup
             /\ k2.next_write >= IF same THEN ColumnGap ELSE T_DATA_TRANS + T_RTRS
             /\ k2.next_read >= IF same THEN T_CWD + T_DATA_TRANS + T_WTR
                                ELSE T_CWD + T_DATA_TRANS + T_RTRS - T_CAS
<1>1. AfterWrite(k, same) \in BankRecord
  BY BankTypes
<1>2. CASE same
  <2>1. ColumnGap \in Int /\ T_CWD + T_DATA_TRANS + T_WTR \in Int
    BY Constants, WriteRecoveryType
  <2>2. QED
    BY <1>1, <1>2, <2>1, LaterCovers DEF AfterWrite, Raised, BankRecord
<1>3. CASE ~same
  <2>1. T_DATA_TRANS + T_RTRS \in Int /\ T_CWD + T_DATA_TRANS + T_RTRS - T_CAS \in Int
    BY Constants
  <2>2. QED
    BY <1>1, <1>3, <2>1, LaterCovers DEF AfterWrite, Raised, BankRecord
<1>4. QED
  BY <1>2, <1>3

LEMMA GapCovers == ColumnGap >= T_CCD /\ ColumnGap >= T_DATA_TRANS
BY Constants, LaterCovers DEF ColumnGap

LEMMA RaisedTwice ==
  ASSUME NEW k \in BankRecord, NEW k1 \in BankRecord, NEW k2 \in BankRecord,
         Raised(k, k1), Raised(k1, k2)
  PROVE  Raised(k, k2)
BY Numbers DEF Raised

\* The bank of rank i that is own, the bank of the read, or not, waits for the read.
LEMMA ReadCovered ==
  ASSUME NEW k \in BankRecord, NEW same \in BOOLEAN, NEW own \in BOOLEAN, own => same
  PROVE  LET k2 == AfterRead(IF own THEN ColumnBank(k, T_RTP) ELSE k, same)
         IN  /\ k2 \in BankRecord /\ Raised(k, k2) /\ Calmer(k, k2) /\ k2.state = k.state
             /\ same => k2.next_read >= T_CCD /\ k2.next_read >= T_DATA_TRANS
             /\ ~same => k2.next_read >= T_DATA_TRANS + T_RTRS
             /\ k2.next_write >= T_CAS + T_DATA_TRANS + T_RTRS - T_CWD
             /\ own => /\ k2.next_pre >= T_RTP /\ k2.next_refresh >= T_RTP
                       /\ k2.next_powerdown >= T_RTP
<1> DEFINE k1 == IF own THEN ColumnBank(k, T_RTP) ELSE k
           k2 == AfterRead(k1, same)
<1>1. /\ k1 \in BankRecord /\ Raised(k, k1)
      /\ k1.state = k.state /\ k1.next_powerup = k.next_powerup
      /\ own => /\ k1.next_pre >= T_RTP /\ k1.next_refresh >= T_RTP
                /\ k1.next_powerdown >= T_RTP
  <2>1. CASE own
    <3>1. k1 = ColumnBank(k, T_RTP) /\ T_RTP \in Nat
      BY <2>1, Constants
    <3> HIDE DEF k1
    <3>2. QED
      BY <3>1, ColumnRaised
  <2>2. CASE ~own
    BY <2>2, Numbers DEF Raised
  <2>3. QED
    BY <2>1, <2>2
<1> HIDE DEF k1
<1>2. /\ k2 \in BankRecord /\ Raised(k1, k2)
      /\ k2.state = k1.state /\ k2.next_powerup = k1.next_powerup
      /\ k2.next_read >= IF same THEN ColumnGap ELSE T_DATA_TRANS + T_RTRS
      /\ k2.next_write >= T_CAS + T_DATA_TRANS + T_RTRS - T_CWD
  BY <1>1, AfterReadRaised
<1> HIDE DEF k2
<1>3. Raised(k, k2)
  BY <1>1, <1>2, RaisedTwice
<1>4. Calmer(k, k2)
  BY <1>1, <1>2, Numbers DEF Calmer
<1>5. same => k2.next_read >= T_CCD /\ k2.next_read >= T_DATA_TRANS
  BY <1>2, GapCovers, Constants, WriteRecoveryType, Numbers
<1>6. own => /\ k2.next_pre >= T_RTP /\ k2.next_refresh >= T_RTP /\ k2.next_powerdown >= T_RTP
  BY <1>1, <1>2, Constants, Numbers DEF Raised
<1>7. QED
  BY <1>1, <1>2, <1>3, <1>4, <1>5, <1>6 DEF k1, k2

LEMMA WriteCovered ==
  ASSUME NEW k \in BankRecord, NEW same \in BOOLEAN, NEW own \in BOOLEAN, own => same
  PROVE  LET k2 == AfterWrite(IF own THEN ColumnBank(k, WriteRecovery) ELSE k, same)
         IN  /\ k2 \in BankRecord /\ Raised(k, k2) /\ Calmer(k, k2) /\ k2.state = k.state
             /\ same => /\ k2.next_write >= T_CCD /\ k2.next_write >= T_DATA_TRANS
                        /\ k2.next_read >= T_CWD + T_DATA_TRANS + T_WTR
             /\ ~same => /\ k2.next_write >= T_DATA_TRANS + T_RTRS
                         /\ k2.next_read >= T_CWD + T_DATA_TRANS + T_RTRS - T_CAS
             /\ own => /\ k2.next_pre >= WriteRecovery /\ k2.next_refresh >= WriteRecovery
                       /\ k2.next_powerdown >= WriteRecovery
<1> DEFINE k1 == IF own THEN ColumnBank(k, WriteRecovery) ELSE k
           k2 == AfterWrite(k1, same)
<1>1. /\ k1 \in BankRecord /\ Raised(k, k1)
      /\ k1.state = k.state /\ k1.next_powerup = k.next_powerup
      /\ own => /\ k1.next_pre >= WriteRecovery /\ k1.next_refresh >= WriteRecovery
                /\ k1.next_powerdown >= WriteRecovery
  <2>1. CASE own
    <3>1. k1 = ColumnBank(k, WriteRecovery) /\ WriteRecovery \in Nat
      BY <2>1, WriteRecoveryType
    <3> HIDE DEF k1
    <3>2. QED
      BY <3>1, ColumnRaised
  <2>2. CASE ~own
    BY <2>2, Numbers DEF Raised
  <2>3. QED
    BY <2>1, <2>2
<1> HIDE DEF k1
<1>2. /\ k2 \in BankRecord /\ Raised(k1, k2)
      /\ k2.state = k1.state /\ k2.next_powerup = k1.next_powerup
      /\ k2.next_write >= IF same THEN ColumnGap ELSE T_DATA_TRANS + T_RTRS
      /\ k2.next_read >= IF same THEN T_CWD + T_DATA_TRANS + T_WTR
                         ELSE T_CWD + T_DATA_TRANS + T_RTRS - T_CAS
  BY <1>1, AfterWriteRaised
<1> HIDE DEF k2
<1>3. Raised(k, k2)
  BY <1>1, <1>2, RaisedTwice
<1>4. Calmer(k, k2)
  BY <1>1, <1>2, Numbers DEF Calmer
<1>5. same => k2.next_write >= T_CCD /\ k2.next_write >= T_DATA_TRANS
  BY <1>2, GapCovers, Constants, WriteRecoveryType, Numbers
<1>6. own => /\ k2.next_pre >= WriteRecovery /\ k2.next_refresh >= WriteRecovery
             /\ k2.next_powerdown >= WriteRecovery
  BY <1>1, <1>2, WriteRecoveryType, Numbers DEF Raised
<1>7. QED
  BY <1>1, <1>2, <1>3, <1>4, <1>5, <1>6 DEF k1, k2

-----------------------------------------------------------------------------
\* What each command does to the coverage of the channel.

LEMMA LeftType ==
  ASSUME NEW f \in RefreshRecord
  PROVE  /\ Left(f) \in Nat
         /\ ~f.forced /\ f.issue_deadline \in Nat => Left(f) = f.issue_deadline
BY DEF Left, RefreshRecord

LEMMA OneBank ==
  ASSUME HInv, NEW r \in Ranks, NEW b \in Banks
  PROVE  /\ dram_state[r][b] \in BankRecord /\ since[r][b] \in BankAges /\ naps[r] \in RankAges
         /\ BankCovered(dram_state[r][b], since[r][b]) /\ RankCovered(dram_state[r][b], naps[r])
BY DEF HInv, StateInv, Inv, TypeOK, HTypeOK, Covered, BanksCovered, RanksCovered

\* Every bank waits at least as long, and no column command has been noted.
LEMMA SameColumns ==
  ASSUME HInv, StateInv', HTypeOK', bus' = bus,
         \A i \in Ranks, j \in Banks :
           /\ Raised(dram_state[i][j], dram_state'[i][j])
           /\ since'[i][j].read = since[i][j].read /\ since'[i][j].write = since[i][j].write
  PROVE  /\ \A i \in Ranks, j \in Banks, c \in Banks :
              ColumnsCovered(dram_state'[i][j], since'[i][c])
         /\ BurstsCovered'
<1>1. \A i \in Ranks, j \in Banks : dram_state'[i][j] \in BankRecord
  BY DEF StateInv, Inv, TypeOK
<1>2. ASSUME NEW i \in Ranks, NEW j \in Banks, NEW c \in Banks
      PROVE  ColumnsCovered(dram_state'[i][j], since'[i][c])
  <2>1. ColumnsCovered(dram_state[i][j], since[i][c])
    BY DEF HInv, Covered, NeighboursCovered
  <2>2. ColumnsCovered(dram_state'[i][j], since[i][c])
    BY <1>1, <2>1, OneBank, RaisedNeighbour
  <2>3. QED
    BY <2>2 DEF ColumnsCovered
<1>3. BurstsCovered'
  <2>1. bus \in Bursts
    BY DEF HInv, HTypeOK, Bursts
  <2>2. ASSUME NEW i \in Ranks, NEW j \in Banks PROVE BusCovered(dram_state'[i][j], i, bus)
    <3>1. BusCovered(dram_state[i][j], i, bus)
      BY DEF HInv, Covered, BurstsCovered
    <3>2. QED
      BY <1>1, <2>1, <3>1, OneBank, RaisedBurst
  <2>3. QED
    BY <2>2 DEF HInv, Covered, BurstsCovered
<1>4. QED
  BY <1>2, <1>3

\* Nor has an activate.
LEMMA SameNeighbours ==
  ASSUME HInv, StateInv', HTypeOK', bus' = bus,
         \A i \in Ranks, j \in Banks :
           /\ Raised(dram_state[i][j], dram_state'[i][j]) /\ since'[i][j].act = since[i][j].act
           /\ since'[i][j].read = since[i][j].read /\ since'[i][j].write = since[i][j].write
  PROVE  NeighboursCovered' /\ BurstsCovered'
<1>1. ASSUME NEW i \in Ranks, NEW j \in Banks, NEW c \in Banks \ {j}
      PROVE  OthersCovered(dram_state'[i][j], since'[i][c])
  <2>1. OthersCovered(dram_state[i][j], since[i][c])
    BY DEF HInv, Covered, NeighboursCovered
  <2>2. dram_state'[i][j] \in BankRecord
    BY DEF StateInv, Inv, TypeOK
  <2>3. OthersCovered(dram_state'[i][j], since[i][c])
    BY <2>1, <2>2, OneBank, RaisedNeighbour
  <2>4. QED
    BY <2>3 DEF OthersCovered
<1>2. QED
  BY <1>1, SameColumns DEF NeighboursCovered

LEMMA ActivateCovered ==
  ASSUME HInv, StateInv', NEW r \in Ranks, NEW b \in Banks, NEW row \in Rows,
         ActIssuable(r, b), Activate(r, b, row), P!NoteAct(r, b)
  PROVE  HTypeOK' /\ Covered'
<1>1. /\ HTypeOK' /\ naps' = naps /\ bus' = bus
      /\ \A i \in Ranks, j \in Banks :
           /\ since'[i][j].pre = since[i][j].pre
           /\ since'[i][j].read = since[i][j].read /\ since'[i][j].write = since[i][j].write
           /\ since'[i][j].act = IF i = r /\ j = b THEN 0 ELSE since[i][j].act
      /\ \A i \in Ranks \ {r} : acts'[i] = acts[i]
      /\ acts'[r][1] = 0 /\ acts'[r][2] = acts[r][1]
      /\ acts'[r][3] = acts[r][2] /\ acts'[r][4] = acts[r][3]
  BY ActNoted DEF HInv
<1>2. /\ refresh' = refresh /\ cas_issued_current_cycle' = cas_issued_current_cycle
      /\ ~command_issued_current_cycle /\ command_issued_current_cycle'
      /\ \A i \in Ranks \ {r} : activation_record'[i] = activation_record[i]
      /\ activation_record'[r] = activation_record[r] \cup {0}
  BY DEF Activate, IssueOnBus, HInv, StateInv, Inv, TypeOK
<1>3. ASSUME NEW i \in Ranks, NEW j \in Banks
      PROVE  dram_state'[i][j] = IF i = r /\ j = b THEN ActivatedBank(dram_state[i][j], row)
                                 ELSE IF i = r THEN DelayedBank(dram_state[i][j])
                                 ELSE dram_state[i][j]
  BY DEF Activate, DelayedBank, HInv, StateInv, Inv, TypeOK
<1>4. ASSUME NEW i \in Ranks, NEW j \in Banks
      PROVE  /\ dram_state'[i][j] \in BankRecord /\ since'[i][j] \in BankAges
             /\ Raised(dram_state[i][j], dram_state'[i][j])
             /\ ~(i = r /\ j = b) => Calmer(dram_state[i][j], dram_state'[i][j])
  <2>1. dram_state'[i][j] \in BankRecord /\ since'[i][j] \in BankAges
    BY <1>1 DEF StateInv, Inv, TypeOK, HTypeOK
  <2>2. Raised(dram_state[i][j], dram_state[i][j]) /\ Calmer(dram_state[i][j], dram_state[i][j])
    BY OneBank, Numbers DEF Raised, Calmer
  <2>3. QED
    BY <1>3, <2>1, <2>2, OneBank, ActivatedRaised, DelayedRaised
<1>5. naps[r].refresh >= T_RFC
  BY OneBank, Numbers, Constants DEF ActIssuable, RankCovered, RefreshCovered
<1>6. BanksCovered'
  <2>1. ASSUME NEW i \in Ranks, NEW j \in Banks
        PROVE  BankCovered(dram_state'[i][j], since'[i][j])
    <3>1. CASE i = r /\ j = b
      BY <1>1, <1>3, <1>4, <3>1, OneBank, ActivatedCovered
    <3>2. CASE ~(i = r /\ j = b)
      <4>1. BankCovered(dram_state'[i][j], since[i][j])
        BY <1>4, OneBank, RaisedBank
      <4>2. QED
        BY <1>1, <3>2, <4>1 DEF BankCovered, ActCovered, PreCovered, ColumnCovered
    <3>3. QED
      BY <3>1, <3>2
  <2>2. QED
    BY <2>1 DEF BanksCovered
<1>7. RanksCovered'
  <2>1. ASSUME NEW i \in Ranks, NEW j \in Banks
        PROVE  RankCovered(dram_state'[i][j], naps[i])
    <3>1. CASE i = r /\ j = b
      <4>1. dram_state'[i][j].state = "ROW_ACTIVE"
        BY <1>3, <3>1, OneBank, ActivatedRaised
      <4>2. SleepCovered(dram_state'[i][j], naps[i])
        BY <4>1 DEF SleepCovered, PoweredDown, PrePwrDown
      <4>3. WakeCovered(dram_state'[i][j], naps[i])
        BY <1>4, OneBank, Numbers, Constants DEF RankCovered, WakeCovered, Raised
      <4>4. RefreshCovered(dram_state'[i][j], naps[i])
        BY <1>4, <1>5, <3>1, OneBank, Numbers, Constants DEF RefreshCovered
      <4>5. QED
        BY <4>2, <4>3, <4>4 DEF RankCovered
    <3>2. CASE ~(i = r /\ j = b)
      BY <1>4, <3>2, OneBank, RaisedRank
    <3>3. QED
      BY <3>1, <3>2
  <2>2. QED
    BY <1>1, <2>1 DEF RanksCovered
<1>8. NeighboursCovered' /\ BurstsCovered'
  <2>1. ASSUME NEW i \in Ranks, NEW j \in Banks, NEW c \in Banks \ {j}
        PROVE  OthersCovered(dram_state'[i][j], since'[i][c])
    <3>1. CASE i = r /\ c = b
      BY <1>1, <1>3, <1>4, <3>1, OneBank, DelayedRaised, Numbers, Constants DEF OthersCovered
    <3>2. CASE ~(i = r /\ c = b)
      <4>1. OthersCovered(dram_state[i][j], since[i][c])
        BY DEF HInv, Covered, NeighboursCovered
      <4>2. OthersCovered(dram_state'[i][j], since[i][c])
        BY <1>4, <4>1, OneBank, RaisedNeighbour
      <4>3. QED
        BY <1>1, <3>2, <4>2 DEF OthersCovered
    <3>3. QED
      BY <3>1, <3>2
  <2>2. QED
    BY <1>1, <1>4, <2>1, SameColumns DEF NeighboursCovered
<1>9. DoneByDeadline'
  <2>1. ASSUME NEW i \in Ranks, NEW j \in Banks PROVE DoneIn(Left(refresh[i]), since'[i][j])
    <3>1. DoneIn(Left(refresh[i]), since[i][j])
      BY DEF HInv, Covered, DoneByDeadline
    <3>2. refresh[i] \in RefreshRecord /\ (i = r => ~refresh[i].forced)
      BY DEF ActIssuable, Refreshable, HInv, StateInv, Inv, TypeOK
    <3>3. i = r => T_RAS <= refresh[i].issue_deadline /\ refresh[i].issue_deadline \in Int
      BY <3>2 DEF ActIssuable, Refreshable, RefreshRecord
    <3>4. Left(refresh[i]) \in Nat /\ (i = r => Left(refresh[i]) >= T_RAS)
      BY <3>2, <3>3, LeftType, Constants
    <3>5. QED
      BY <1>1, <3>1, <3>4 DEF DoneIn
  <2>2. QED
    BY <1>2, <2>1 DEF DoneByDeadline
<1>10. RefreshesAlone'
  BY <1>1, <1>2, <1>5 DEF HInv, Covered, RefreshesAlone, RefreshAlone, DoneIn
<1>11. ActivatesRecorded'
  <2>1. ActsRecorded(acts'[r], activation_record'[r])
    <3>1. ActsRecorded(acts[r], activation_record[r]) /\ acts[r][1] > 0
      BY <1>2 DEF HInv, Covered, ActivatesRecorded
    <3>2. QED
      BY <1>1, <1>2, <3>1 DEF ActsRecorded
  <2>2. QED
    BY <1>1, <1>2, <2>1 DEF HInv, Covered, ActivatesRecorded
<1>12. ColumnsAwake'
  BY <1>1, <1>2 DEF HInv, Covered, ColumnsAwake
<1>13. QED
  BY <1>1, <1>6, <1>7, <1>8, <1>9, <1>10, <1>11, <1>12 DEF Covered

LEMMA PrechargeCovered ==
  ASSUME HInv, StateInv', NEW r \in Ranks, NEW banks \in SUBSET Banks, NEW start \in Nat,
         dram_state' = [dram_state EXCEPT ![r] = PrechargedRank(dram_state[r], banks, start)],
         refresh' = refresh, activation_record' = activation_record,
         command_issued_current_cycle => command_issued_current_cycle',
         \A i \in Ranks, j \in Banks :
           cas_issued_current_cycle'[i][j] # 0 => cas_issued_current_cycle[i][j] # 0,
         Refreshable(r, start + T_RP), naps[r].refresh >= T_RFC, P!NotePre(r, banks, start)
  PROVE  HTypeOK' /\ Covered'
<1>1. /\ HTypeOK' /\ naps' = naps /\ acts' = acts /\ bus' = bus
      /\ \A i \in Ranks, j \in Banks :
           /\ since'[i][j].act = since[i][j].act
           /\ since'[i][j].read = since[i][j].read /\ since'[i][j].write = since[i][j].write
           /\ since'[i][j].pre = IF i = r /\ j \in banks THEN 0 - start ELSE since[i][j].pre
  <2>1. HTypeOK
    BY DEF HInv
  <2>2. QED
    BY <2>1, PreNoted
<1>2. ASSUME NEW i \in Ranks, NEW j \in Banks
      PROVE  dram_state'[i][j] = IF i = r /\ j \in banks THEN PrechargedBank(dram_state[i][j], start)
                                 ELSE dram_state[i][j]
  BY DEF PrechargedRank, HInv, StateInv, Inv, TypeOK
<1>3. ASSUME NEW i \in Ranks, NEW j \in Banks
      PROVE  /\ dram_state'[i][j] \in BankRecord /\ since'[i][j] \in BankAges
             /\ Raised(dram_state[i][j], dram_state'[i][j])
             /\ Calmer(dram_state[i][j], dram_state'[i][j])
  <2>1. dram_state'[i][j] \in BankRecord /\ since'[i][j] \in BankAges
    <3>1. dram_state' \in [Ranks -> [Banks -> BankRecord]]
      BY DEF StateInv, Inv, TypeOK
    <3>2. since' \in [Ranks -> [Banks -> BankAges]]
      BY <1>1 DEF HTypeOK
    <3>3. QED
      BY <3>1, <3>2
  <2>2. Raised(dram_state[i][j], dram_state[i][j]) /\ Calmer(dram_state[i][j], dram_state[i][j])
    BY OneBank, Numbers DEF Raised, Calmer
  <2>3. i = r /\ j \in banks => /\ Raised(dram_state[i][j], dram_state'[i][j])
                                /\ dram_state'[i][j].state = "PRECHARGING"
    BY <1>2, OneBank, PrechargedRaised
  <2>4. QED
    BY <1>2, <2>1, <2>2, <2>3 DEF Calmer, RowStates, PoweredDown, PrePwrDown
<1>4. BanksCovered'
  <2>1. ASSUME NEW i \in Ranks, NEW j \in Banks
        PROVE  BankCovered(dram_state'[i][j], since'[i][j])
    <3>1. CASE i = r /\ j \in banks
      BY <1>1, <1>2, <1>3, <3>1, OneBank, PrechargedCovered
    <3>2. CASE ~(i = r /\ j \in banks)
      <4>1. BankCovered(dram_state[i][j], since[i][j])
        BY OneBank
      <4>2. QED
        BY <1>1, <1>2, <3>2, <4>1 DEF BankCovered, ActCovered, PreCovered, ColumnCovered
    <3>3. QED
      BY <3>1, <3>2
  <2>2. QED
    BY <2>1 DEF BanksCovered
<1>5. RanksCovered'
  BY <1>1, <1>3, OneBank, RaisedRank DEF RanksCovered
<1>6. NeighboursCovered' /\ BurstsCovered'
  BY <1>1, <1>3, SameNeighbours
<1>7. DoneByDeadline'
  <2>1. ASSUME NEW i \in Ranks, NEW j \in Banks PROVE DoneIn(Left(refresh[i]), since'[i][j])
    <3>1. DoneIn(Left(refresh[i]), since[i][j])
      BY DEF HInv, Covered, DoneByDeadline
    <3>2. refresh[i] \in RefreshRecord /\ (i = r => ~refresh[i].forced)
      BY DEF Refreshable, HInv, StateInv, Inv, TypeOK
    <3>3. i = r => start + T_RP <= refresh[i].issue_deadline /\ refresh[i].issue_deadline \in Int
      BY <3>2 DEF Refreshable, RefreshRecord
    <3>4. Left(refresh[i]) \in Nat /\ (i = r => Left(refresh[i]) >= start + T_RP)
      BY <3>2, <3>3, LeftType, Constants
    <3>5. QED
      BY <1>1, <3>1, <3>4, Constants DEF DoneIn
  <2>2. QED
    BY <2>1 DEF DoneByDeadline
<1>8. RefreshesAlone'
  BY <1>1 DEF HInv, Covered, RefreshesAlone, RefreshAlone, DoneIn
<1>9. ActivatesRecorded' /\ ColumnsAwake'
  BY <1>1 DEF HInv, Covered, ActivatesRecorded, ColumnsAwake
<1>10. QED
  BY <1>1, <1>4, <1>5, <1>6, <1>7, <1>8, <1>9 DEF Covered

\* A command that is noted as a nap: it changes no bank but of its rank.
LEMMA NapCovered ==
  ASSUME HInv, StateInv', HTypeOK', NEW r \in Ranks,
         since' = since, acts' = acts, bus' = bus, \A i \in Ranks \ {r} : naps'[i] = naps[i],
         \A i \in Ranks \ {r} : dram_state'[i] = dram_state[i],
         activation_record' = activation_record,
         ~command_issued_current_cycle, command_issued_current_cycle',
         cas_issued_current_cycle' = cas_issued_current_cycle,
         \A j \in Banks : /\ Raised(dram_state[r][j], dram_state'[r][j])
                          /\ RankCovered(dram_state'[r][j], naps'[r])
  PROVE  BanksCovered' /\ RanksCovered' /\ NeighboursCovered' /\ BurstsCovered'
         /\ ActivatesRecorded' /\ ColumnsAwake'
<1>1. ASSUME NEW i \in Ranks, NEW j \in Banks
      PROVE  dram_state'[i][j] \in BankRecord /\ Raised(dram_state[i][j], dram_state'[i][j])
  <2>1. dram_state'[i][j] \in BankRecord
    BY DEF StateInv, Inv, TypeOK
  <2>2. Raised(dram_state[i][j], dram_state[i][j])
    BY OneBank, Numbers DEF Raised
  <2>3. QED
    BY <2>1, <2>2
<1>2. BanksCovered'
  BY <1>1, OneBank, RaisedBank DEF BanksCovered
<1>3. RanksCovered'
  BY DEF RanksCovered, HInv, Covered
<1>4. NeighboursCovered' /\ BurstsCovered'
  BY <1>1, SameNeighbours
<1>5. ActivatesRecorded'
  BY DEF HInv, Covered, ActivatesRecorded
<1>6. ColumnsAwake'
  BY DEF HInv, StateInv, ColumnsOpen, ColumnsAwake
<1>7. QED
  BY <1>2, <1>3, <1>4, <1>5, <1>6

LEMMA PowerUpCovered ==
  ASSUME HInv, StateInv', NEW r \in Ranks, NEW b \in Banks, State(r, b) \in PoweredDown,
         PowerUp(r), P!NoteNap(r, "wake", 0)
  PROVE  HTypeOK' /\ Covered'
<1>1. /\ HTypeOK' /\ since' = since /\ acts' = acts /\ bus' = bus
      /\ \A i \in Ranks \ {r} : naps'[i] = naps[i]
      /\ naps'[r].sleep = naps[r].sleep /\ naps'[r].wake = 0
      /\ naps'[r].refresh = naps[r].refresh
  BY NapNoted DEF HInv
<1>2. /\ \A i \in Ranks \ {r} : dram_state'[i] = dram_state[i]
      /\ \A j \in Banks : dram_state'[r][j] = PoweredUpBank(dram_state[r][j])
      /\ activation_record' = activation_record /\ refresh' = refresh
      /\ ~command_issued_current_cycle /\ command_issued_current_cycle'
      /\ cas_issued_current_cycle' = cas_issued_current_cycle
  BY DEF PowerUp, IssueOnBus, HInv, StateInv, Inv, TypeOK
<1>3. \A j \in Banks : dram_state[r][j].state \in PoweredDown
  BY Constants DEF HInv, StateInv, RankInv, SleepsAsOne, State
<1>4. ASSUME NEW j \in Banks
      PROVE  /\ Raised(dram_state[r][j], dram_state'[r][j])
             /\ RankCovered(dram_state'[r][j], naps'[r])
  <2>1. naps'[r] \in RankAges
    BY <1>1 DEF HTypeOK
  <2>2. QED
    BY <1>1, <1>2, <1>3, <2>1, OneBank, PoweredUpRaised, PoweredUpCovered
<1>5. BanksCovered' /\ RanksCovered' /\ NeighboursCovered' /\ BurstsCovered'
      /\ ActivatesRecorded' /\ ColumnsAwake'
  BY <1>1, <1>2, <1>4, NapCovered
<1>6. DoneByDeadline' /\ RefreshesAlone'
  BY <1>1, <1>2 DEF HInv, Covered, DoneByDeadline, RefreshesAlone, RefreshesFit, RefreshAlone
<1>7. QED
  BY <1>1, <1>5, <1>6 DEF Covered

LEMMA PowerdownCovered ==
  ASSUME HInv, StateInv', NEW r \in Ranks, NEW sleep \in PrePwrDown,
         IssuePowerdownCommand(r, sleep), P!NoteNap(r, "sleep", 0)
  PROVE  HTypeOK' /\ Covered'
<1>1. /\ HTypeOK' /\ since' = since /\ acts' = acts /\ bus' = bus
      /\ \A i \in Ranks \ {r} : naps'[i] = naps[i]
      /\ naps'[r].sleep = 0 /\ naps'[r].wake = naps[r].wake
      /\ naps'[r].refresh = naps[r].refresh
  BY NapNoted DEF HInv
<1>2. /\ \A i \in Ranks \ {r} : dram_state'[i] = dram_state[i]
      /\ \A j \in Banks : dram_state'[r][j] = PoweredDownBank(dram_state[r][j], sleep)
      /\ activation_record' = activation_record /\ refresh' = refresh
      /\ ~command_issued_current_cycle /\ command_issued_current_cycle'
      /\ cas_issued_current_cycle' = cas_issued_current_cycle
  BY DEF IssuePowerdownCommand, IssueOnBus, HInv, StateInv, Inv, TypeOK
<1>3. \A j \in Banks : dram_state[r][j].state \in PoweredUp
  BY DEF IssuePowerdownCommand, IsPowerdownFastAllowed, IsPowerdownSlowAllowed, State, PoweredUp
<1>4. ASSUME NEW j \in Banks
      PROVE  /\ Raised(dram_state[r][j], dram_state'[r][j])
             /\ RankCovered(dram_state'[r][j], naps'[r])
  <2>1. naps'[r] \in RankAges
    BY <1>1 DEF HTypeOK
  <2>2. QED
    BY <1>1, <1>2, <1>3, <2>1, OneBank, PoweredDownCovered
<1>5. BanksCovered' /\ RanksCovered' /\ NeighboursCovered' /\ BurstsCovered'
      /\ ActivatesRecorded' /\ ColumnsAwake'
  BY <1>1, <1>2, <1>4, NapCovered
<1>6. DoneByDeadline' /\ RefreshesAlone'
  BY <1>1, <1>2 DEF HInv, Covered, DoneByDeadline, RefreshesAlone, RefreshesFit, RefreshAlone
<1>7. QED
  BY <1>1, <1>5, <1>6 DEF Covered

LEMMA OneMoreRefresh ==
  ASSUME NEW m \in Nat
  PROVE  m * T_RFC \in Nat /\ (m + 1) * T_RFC = m * T_RFC + T_RFC
BY Constants

LEMMA RefreshCommandCovered ==
  ASSUME HInv, StateInv', NEW r \in Ranks, IssueRefreshCommand(r),
         P!NoteNap(r, "refresh", RefreshLead(dram_state[r]))
  PROVE  HTypeOK' /\ Covered'
<1> DEFINE lead == RefreshLead(dram_state[r])
<1>1. lead \in Nat
  BY RefreshLeadType
<1> HIDE DEF lead
<1>2. /\ HTypeOK' /\ since' = since /\ acts' = acts /\ bus' = bus
      /\ \A i \in Ranks \ {r} : naps'[i] = naps[i]
      /\ naps'[r].sleep = naps[r].sleep /\ naps'[r].wake = naps[r].wake
      /\ naps'[r].refresh = 0 - lead
  <2>1. P!NoteNap(r, "refresh", lead) /\ HTypeOK
    BY DEF lead, HInv
  <2>2. QED
    BY <1>1, <2>1, NapNoted
<1>3. /\ \A i \in Ranks \ {r} : dram_state'[i] = dram_state[i]
      /\ \A j \in Banks : dram_state'[r][j] = RefreshedBank(dram_state[r][j], lead)
      /\ activation_record' = activation_record
      /\ ~command_issued_current_cycle /\ command_issued_current_cycle'
      /\ cas_issued_current_cycle' = cas_issued_current_cycle
  BY DEF lead, IssueRefreshCommand, IssueOnBus, HInv, StateInv, Inv, TypeOK
<1>4. /\ refresh \in [Ranks -> RefreshRecord]
      /\ refresh' = [refresh EXCEPT ![r] = [refresh[r] EXCEPT !.num_issued = refresh[r].num_issued + 1]]
  BY DEF IssueRefreshCommand, HInv, StateInv, Inv, TypeOK
<1>5. /\ \A i \in Ranks \ {r} : refresh'[i] = refresh[i]
      /\ refresh'[r].num_issued = refresh[r].num_issued + 1
      /\ refresh'[r].forced = refresh[r].forced
      /\ refresh'[r].completion_deadline = refresh[r].completion_deadline
      /\ refresh'[r].issue_deadline = refresh[r].issue_deadline
  BY <1>4 DEF RefreshRecord
<1>6. ASSUME NEW j \in Banks
      PROVE  /\ Raised(dram_state[r][j], dram_state'[r][j])
             /\ RankCovered(dram_state'[r][j], naps'[r])
  <2>1. naps'[r] \in RankAges
    BY <1>2 DEF HTypeOK
  <2>2. QED
    BY <1>1, <1>2, <1>3, <2>1, OneBank, RefreshedCovered
<1>7. BanksCovered' /\ RanksCovered' /\ NeighboursCovered' /\ BurstsCovered'
      /\ ActivatesRecorded' /\ ColumnsAwake'
  BY <1>2, <1>3, <1>6, NapCovered
<1>8. DoneByDeadline'
  <2>1. \A i \in Ranks : Left(refresh'[i]) = Left(refresh[i])
    BY <1>5 DEF Left
  <2>2. QED
    BY <1>2, <2>1 DEF HInv, Covered, DoneByDeadline
<1>9. ASSUME NEW j \in Banks PROVE DoneIn(0, since[r][j]) /\ naps[r].refresh >= T_RFC
  <2>1. dram_state[r][j].next_refresh = 0
    BY DEF IssueRefreshCommand, IsRefreshAllowed
  <2>2. QED
    BY <2>1, OneBank, Numbers, Constants, WriteRecoveryType
    DEF BankCovered, ActCovered, PreCovered, ColumnCovered, DoneIn, RankCovered, RefreshCovered
<1>10. RefreshesFit(refresh'[r], naps'[r])
  <2>1. RefreshesFit(refresh[r], naps[r])
    BY DEF HInv, Covered, RefreshesAlone
  <2>2. /\ refresh[r].num_issued \in Nat /\ refresh[r].completion_deadline \in Int
        /\ naps[r].refresh \in Int /\ naps[r].refresh >= T_RFC
    BY <1>4, <1>9, OneBank, Constants, Numbers DEF RefreshRecord
  <2>3. Later(T_RFC - naps[r].refresh, 0) = 0
    BY <2>2, Constants DEF Later
  <2>4. Later(T_RFC - naps'[r].refresh, 0) >= T_RFC /\ Later(T_RFC - naps'[r].refresh, 0) \in Nat
    BY <1>1, <1>2, Constants DEF Later
  <2>5. /\ (refresh[r].num_issued + 1) * T_RFC = refresh[r].num_issued * T_RFC + T_RFC
        /\ refresh[r].num_issued * T_RFC \in Nat
    BY <2>2, OneMoreRefresh
  <2>6. ~refresh[r].forced =>
          refresh[r].num_issued * T_RFC <= RefreshWindow - refresh[r].completion_deadline
    BY <2>1, <2>2, <2>3, <2>5, WindowType DEF RefreshesFit
  <2>7. ~refresh[r].forced =>
          (refresh[r].num_issued + 1) * T_RFC <=
             RefreshWindow - refresh[r].completion_deadline + Later(T_RFC - naps'[r].refresh, 0)
    BY <2>2, <2>4, <2>5, <2>6, WindowType, Constants
  <2>8. QED
    BY <1>5, <2>7 DEF RefreshesFit
<1>11. RefreshesAlone'
  BY <1>2, <1>5, <1>9, <1>10 DEF HInv, Covered, RefreshesAlone, RefreshAlone
<1>12. QED
  BY <1>2, <1>7, <1>8, <1>11 DEF Covered

LEMMA ReadCommandCovered ==
  ASSUME HInv, StateInv', NEW r \in Ranks, NEW b \in Banks, RequestRead(r, b),
         P!NoteColumn(r, b, "read")
  PROVE  HTypeOK' /\ Covered'
<1>1. /\ HTypeOK' /\ naps' = naps /\ acts' = acts
      /\ bus'.rank = r /\ bus'.kind = "read" /\ bus'.busy = T_CAS + T_DATA_TRANS
      /\ \A i \in Ranks, j \in Banks :
           /\ since'[i][j].act = since[i][j].act /\ since'[i][j].pre = since[i][j].pre
           /\ since'[i][j].read = IF i = r /\ j = b THEN 0 ELSE since[i][j].read
           /\ since'[i][j].write = since[i][j].write
  <2>1. HTypeOK /\ "read" \in {"read", "write"}
    BY DEF HInv
  <2>2. QED
    BY <2>1, ColumnNoted
<1>2. /\ refresh' = refresh /\ activation_record' = activation_record
      /\ ~command_issued_current_cycle /\ command_issued_current_cycle'
      /\ dram_state[r][b].state = "ROW_ACTIVE" /\ dram_state[r][b].next_read = 0
      /\ Refreshable(r, T_RTP)
  BY DEF RequestRead, ReadIssuable, IssueOnBus, State
<1>3. \A i \in Ranks, j \in Banks : cas_issued_current_cycle'[i][j] # 0 => i = r /\ j = b
  <2>1. \A i \in Ranks, j \in Banks : cas_issued_current_cycle[i][j] = 0
    BY <1>2 DEF HInv, StateInv, ColumnsOpen
  <2>2. QED
    BY <2>1 DEF RequestRead, HInv, StateInv, Inv, TypeOK
<1>4. ASSUME NEW i \in Ranks, NEW j \in Banks
      PROVE  /\ dram_state'[i][j] \in BankRecord /\ since'[i][j] \in BankAges
             /\ Raised(dram_state[i][j], dram_state'[i][j])
             /\ Calmer(dram_state[i][j], dram_state'[i][j])
             /\ i = r => dram_state'[i][j].next_read >= T_CCD /\ dram_state'[i][j].next_read >= T_DATA_TRANS
             /\ i # r => dram_state'[i][j].next_read >= T_DATA_TRANS + T_RTRS
             /\ dram_state'[i][j].next_write >= T_CAS + T_DATA_TRANS + T_RTRS - T_CWD
             /\ i = r /\ j = b => /\ dram_state'[i][j].next_pre >= T_RTP
                                  /\ dram_state'[i][j].next_refresh >= T_RTP
                                  /\ dram_state'[i][j].next_powerdown >= T_RTP
  <2>1. dram_state'[i][j] = AfterRead(IF i = r /\ j = b THEN ColumnBank(dram_state[i][j], T_RTP)
                                      ELSE dram_state[i][j], i = r)
    BY DEF RequestRead
  <2>2. (i = r) \in BOOLEAN /\ (i = r /\ j = b) \in BOOLEAN /\ (i = r /\ j = b => i = r)
    OBVIOUS
  <2>3. since'[i][j] \in BankAges /\ dram_state[i][j] \in BankRecord
    BY <1>1, OneBank DEF HTypeOK
  <2>4. QED
    BY <2>1, <2>2, <2>3, ReadCovered
<1>5. naps[r].wake >= T_XP /\ naps[r].refresh >= T_RFC
  BY <1>2, OneBank, Numbers, Constants DEF RankCovered, WakeCovered, RefreshCovered, RowStates
<1>6. BanksCovered'
  <2>1. ASSUME NEW i \in Ranks, NEW j \in Banks
        PROVE  BankCovered(dram_state'[i][j], since'[i][j])
    <3>1. BankCovered(dram_state'[i][j], since[i][j])
      BY <1>4, OneBank, RaisedBank
    <3>2. ActCovered(dram_state'[i][j], since'[i][j]) /\ PreCovered(dram_state'[i][j], since'[i][j])
      BY <1>1, <3>1 DEF BankCovered, ActCovered, PreCovered
    <3>3. ColumnCovered(dram_state'[i][j], since'[i][j])
      <4>1. CASE i = r /\ j = b
        BY <1>1, <1>4, <3>1, <4>1, Numbers, Constants, WriteRecoveryType
        DEF BankCovered, ColumnCovered
      <4>2. CASE ~(i = r /\ j = b)
        BY <1>1, <3>1, <4>2 DEF BankCovered, ColumnCovered
      <4>3. QED
        BY <4>1, <4>2
    <3>4. QED
      BY <3>2, <3>3 DEF BankCovered
  <2>2. QED
    BY <2>1 DEF BanksCovered
<1>7. RanksCovered'
  BY <1>1, <1>4, OneBank, RaisedRank DEF RanksCovered
<1>8. NeighboursCovered'
  <2>1. ASSUME NEW i \in Ranks, NEW j \in Banks, NEW c \in Banks
        PROVE  /\ ColumnsCovered(dram_state'[i][j], since'[i][c])
               /\ c # j => OthersCovered(dram_state'[i][j], since'[i][c])
    <3>1. /\ ColumnsCovered(dram_state[i][j], since[i][c])
          /\ c # j => OthersCovered(dram_state[i][j], since[i][c])
      BY DEF HInv, Covered, NeighboursCovered
    <3>2. /\ ColumnsCovered(dram_state'[i][j], since[i][c])
          /\ c # j => OthersCovered(dram_state'[i][j], since[i][c])
      BY <1>4, <3>1, OneBank, RaisedNeighbour
    <3>3. CASE i = r /\ c = b
      BY <1>1, <1>4, <3>2, <3>3, Numbers, Constants DEF ColumnsCovered, OthersCovered
    <3>4. CASE ~(i = r /\ c = b)
      BY <1>1, <3>2, <3>4 DEF ColumnsCovered, OthersCovered
    <3>5. QED
      BY <3>3, <3>4
  <2>2. QED
    BY <2>1 DEF NeighboursCovered
<1>9. BurstsCovered'
  <2>1. ASSUME NEW i \in Ranks, NEW j \in Banks PROVE BusCovered(dram_state'[i][j], i, bus')
    <3>1. CASE i = r
      BY <1>1, <1>4, <3>1, Numbers, Constants DEF BusCovered
    <3>2. CASE i # r
      BY <1>1, <1>4, <3>2, Numbers, Constants DEF BusCovered
    <3>3. QED
      BY <3>1, <3>2
  <2>2. bus'.busy >= -T_RTRS
    BY <1>1, Constants
  <2>3. QED
    BY <2>1, <2>2 DEF BurstsCovered
<1>10. DoneByDeadline'
  <2>1. ASSUME NEW i \in Ranks, NEW j \in Banks PROVE DoneIn(Left(refresh[i]), since'[i][j])
    <3>1. DoneIn(Left(refresh[i]), since[i][j])
      BY DEF HInv, Covered, DoneByDeadline
    <3>2. refresh[i] \in RefreshRecord /\ (i = r => ~refresh[i].forced)
      BY <1>2 DEF Refreshable, HInv, StateInv, Inv, TypeOK
    <3>3. i = r => T_RTP <= refresh[i].issue_deadline /\ refresh[i].issue_deadline \in Int
      BY <1>2, <3>2 DEF Refreshable, RefreshRecord
    <3>4. Left(refresh[i]) \in Nat /\ (i = r => Left(refresh[i]) >= T_RTP)
      BY <3>2, <3>3, LeftType, Constants, WriteRecoveryType
    <3>5. QED
      BY <1>1, <3>1, <3>4, Constants, WriteRecoveryType DEF DoneIn
  <2>2. QED
    BY <1>2, <2>1 DEF DoneByDeadline
<1>11. RefreshesAlone'
  BY <1>1, <1>2, <1>5 DEF HInv, Covered, RefreshesAlone, RefreshAlone, DoneIn
<1>12. ActivatesRecorded' /\ ColumnsAwake'
  BY <1>1, <1>2, <1>3, <1>5 DEF HInv, Covered, ActivatesRecorded, ColumnsAwake
<1>13. QED
  BY <1>1, <1>6, <1>7, <1>8, <1>9, <1>10, <1>11, <1>12 DEF Covered

LEMMA WriteCommandCovered ==
  ASSUME HInv, StateInv', NEW r \in Ranks, NEW b \in Banks, RequestWrite(r, b),
         P!NoteColumn(r, b, "write")
  PROVE  HTypeOK' /\ Covered'
<1>1. /\ HTypeOK' /\ naps' = naps /\ acts' = acts
      /\ bus'.rank = r /\ bus'.kind = "write" /\ bus'.busy = T_CWD + T_DATA_TRANS
      /\ \A i \in Ranks, j \in Banks :
           /\ since'[i][j].act = since[i][j].act /\ since'[i][j].pre = since[i][j].pre
           /\ since'[i][j].write = IF i = r /\ j = b THEN 0 ELSE since[i][j].write
           /\ since'[i][j].read = since[i][j].read
  <2>1. HTypeOK /\ "write" \in {"read", "write"}
    BY DEF HInv
  <2>2. QED
    BY <2>1, ColumnNoted
<1>2. /\ refresh' = refresh /\ activation_record' = activation_record
      /\ ~command_issued_current_cycle /\ command_issued_current_cycle'
      /\ dram_state[r][b].state = "ROW_ACTIVE" /\ dram_state[r][b].next_write = 0
      /\ Refreshable(r, WriteRecovery)
  BY DEF RequestWrite, WriteIssuable, IssueOnBus, State
<1>3. \A i \in Ranks, j \in Banks : cas_issued_current_cycle'[i][j] # 0 => i = r /\ j = b
  <2>1. \A i \in Ranks, j \in Banks : cas_issued_current_cycle[i][j] = 0
    BY <1>2 DEF HInv, StateInv, ColumnsOpen
  <2>2. QED
    BY <2>1 DEF RequestWrite, HInv, StateInv, Inv, TypeOK
<1>4. ASSUME NEW i \in Ranks, NEW j \in Banks
      PROVE  /\ dram_state'[i][j] \in BankRecord /\ since'[i][j] \in BankAges
             /\ Raised(dram_state[i][j], dram_state'[i][j])
             /\ Calmer(dram_state[i][j], dram_state'[i][j])
             /\ i = r => /\ dram_state'[i][j].next_write >= T_CCD
                         /\ dram_state'[i][j].next_write >= T_DATA_TRANS
                         /\ dram_state'[i][j].next_read >= T_CWD + T_DATA_TRANS + T_WTR
             /\ i # r => /\ dram_state'[i][j].next_write >= T_DATA_TRANS + T_RTRS
                         /\ dram_state'[i][j].next_read >= T_CWD + T_DATA_TRANS + T_RTRS - T_CAS
             /\ i = r /\ j = b => /\ dram_state'[i][j].next_pre >= WriteRecovery
                                  /\ dram_state'[i][j].next_refresh >= WriteRecovery
                                  /\ dram_state'[i][j].next_powerdown >= WriteRecovery
  <2>1. dram_state'[i][j] = AfterWrite(IF i = r /\ j = b THEN ColumnBank(dram_state[i][j], WriteRecovery)
                                      ELSE dram_state[i][j], i = r)
    BY DEF RequestWrite
  <2>2. (i = r) \in BOOLEAN /\ (i = r /\ j = b) \in BOOLEAN /\ (i = r /\ j = b => i = r)
    OBVIOUS
  <2>3. since'[i][j] \in BankAges /\ dram_state[i][j] \in BankRecord
    BY <1>1, OneBank DEF HTypeOK
  <2>4. QED
    BY <2>1, <2>2, <2>3, WriteCovered
<1>5. naps[r].wake >= T_XP /\ naps[r].refresh >= T_RFC
  BY <1>2, OneBank, Numbers, Constants DEF RankCovered, WakeCovered, RefreshCovered, RowStates
<1>6. BanksCovered'
  <2>1. ASSUME NEW i \in Ranks, NEW j \in Banks
        PROVE  BankCovered(dram_state'[i][j], since'[i][j])
    <3>1. BankCovered(dram_state'[i][j], since[i][j])
      BY <1>4, OneBank, RaisedBank
    <3>2. ActCovered(dram_state'[i][j], since'[i][j]) /\ PreCovered(dram_state'[i][j], since'[i][j])
      BY <1>1, <3>1 DEF BankCovered, ActCovered, PreCovered
    <3>3. ColumnCovered(dram_state'[i][j], since'[i][j])
      <4>1. CASE i = r /\ j = b
        BY <1>1, <1>4, <3>1, <4>1, Numbers, Constants, WriteRecoveryType
        DEF BankCovered, ColumnCovered
      <4>2. CASE ~(i = r /\ j = b)
        BY <1>1, <3>1, <4>2 DEF BankCovered, ColumnCovered
      <4>3. QED
        BY <4>1, <4>2
    <3>4. QED
      BY <3>2, <3>3 DEF BankCovered
  <2>2. QED
    BY <2>1 DEF BanksCovered
<1>7. RanksCovered'
  BY <1>1, <1>4, OneBank, RaisedRank DEF RanksCovered
<1>8. NeighboursCovered'
  <2>1. ASSUME NEW i \in Ranks, NEW j \in Banks, NEW c \in Banks
        PROVE  /\ ColumnsCovered(dram_state'[i][j], since'[i][c])
               /\ c # j => OthersCovered(dram_state'[i][j], since'[i][c])
    <3>1. /\ ColumnsCovered(dram_state[i][j], since[i][c])
          /\ c # j => OthersCovered(dram_state[i][j], since[i][c])
      BY DEF HInv, Covered, NeighboursCovered
    <3>2. /\ ColumnsCovered(dram_state'[i][j], since[i][c])
          /\ c # j => OthersCovered(dram_state'[i][j], since[i][c])
      BY <1>4, <3>1, OneBank, RaisedNeighbour
    <3>3. CASE i = r /\ c = b
      BY <1>1, <1>4, <3>2, <3>3, Numbers, Constants DEF ColumnsCovered, OthersCovered
    <3>4. CASE ~(i = r /\ c = b)
      BY <1>1, <3>2, <3>4 DEF ColumnsCovered, OthersCovered
    <3>5. QED
      BY <3>3, <3>4
  <2>2. QED
    BY <2>1 DEF NeighboursCovered
<1>9. BurstsCovered'
  <2>1. ASSUME NEW i \in Ranks, NEW j \in Banks PROVE BusCovered(dram_state'[i][j], i, bus')
    <3>1. CASE i = r
      BY <1>1, <1>4, <3>1, Numbers, Constants DEF BusCovered
    <3>2. CASE i # r
      BY <1>1, <1>4, <3>2, Numbers, Constants DEF BusCovered
    <3>3. QED
      BY <3>1, <3>2
  <2>2. bus'.busy >= -T_RTRS
    BY <1>1, Constants
  <2>3. QED
    BY <2>1, <2>2 DEF BurstsCovered
<1>10. DoneByDeadline'
  <2>1. ASSUME NEW i \in Ranks, NEW j \in Banks PROVE DoneIn(Left(refresh[i]), since'[i][j])
    <3>1. DoneIn(Left(refresh[i]), since[i][j])
      BY DEF HInv, Covered, DoneByDeadline
    <3>2. refresh[i] \in RefreshRecord /\ (i = r => ~refresh[i].forced)
      BY <1>2 DEF Refreshable, HInv, StateInv, Inv, TypeOK
    <3>3. i = r => WriteRecovery <= refresh[i].issue_deadline /\ refresh[i].issue_deadline \in Int
      BY <1>2, <3>2 DEF Refreshable, RefreshRecord
    <3>4. Left(refresh[i]) \in Nat /\ (i = r => Left(refresh[i]) >= WriteRecovery)
      BY <3>2, <3>3, LeftType, Constants, WriteRecoveryType
    <3>5. QED
      BY <1>1, <3>1, <3>4, Constants, WriteRecoveryType DEF DoneIn
  <2>2. QED
    BY <1>2, <2>1 DEF DoneByDeadline
<1>11. RefreshesAlone'
  BY <1>1, <1>2, <1>5 DEF HInv, Covered, RefreshesAlone, RefreshAlone, DoneIn
<1>12. ActivatesRecorded' /\ ColumnsAwake'
  BY <1>1, <1>2, <1>3, <1>5 DEF HInv, Covered, ActivatesRecorded, ColumnsAwake
<1>13. QED
  BY <1>1, <1>6, <1>7, <1>8, <1>9, <1>10, <1>11, <1>12 DEF Covered

-----------------------------------------------------------------------------
\* What a cycle does to the coverage of one bank.

\* The ages of a bank, and those of a rank that starts no forced refreshes, a cycle later.
Older(s, s2) ==
  /\ s2.act = P!Longer(s.act) /\ s2.pre = P!Longer(s.pre)
  /\ s2.read = P!Longer(s.read) /\ s2.write = P!Longer(s.write)

Rested(n, n2) ==
  /\ n2.sleep = P!Longer(n.sleep) /\ n2.wake = P!Longer(n.wake)
  /\ n2.refresh = P!Longer(n.refresh)

LEMMA AgedFields ==
  ASSUME NEW k \in BankRecord
  PROVE  /\ Aged(k) \in BankRecord /\ Aged(k).state = k.state
         /\ Aged(k).next_act = Elapsed(k.next_act) /\ Aged(k).next_pre = Elapsed(k.next_pre)
         /\ Aged(k).next_read = Elapsed(k.next_read) /\ Aged(k).next_write = Elapsed(k.next_write)
         /\ Aged(k).next_powerdown = Elapsed(k.next_powerdown)
         /\ Aged(k).next_powerup = Elapsed(k.next_powerup)
         /\ Aged(k).next_refresh = Elapsed(k.next_refresh)
<1>1. Aged(k) \in BankRecord
  BY BankTypes
<1>2. QED
  BY <1>1 DEF Aged, BankRecord

LEMMA AgeFields ==
  /\ \A s \in BankAges : s.act \in Ages /\ s.pre \in Ages /\ s.read \in Ages /\ s.write \in Ages
  /\ \A n \in RankAges : n.sleep \in Ages /\ n.wake \in Ages /\ n.refresh \in Ages
BY DEF BankAges, RankAges

LEMMA AgedBankCovered ==
  ASSUME NEW k \in BankRecord, NEW s \in BankAges, NEW s2 \in BankAges, Older(s, s2),
         BankCovered(k, s)
  PROVE  BankCovered(Aged(k), s2)
<1>1. ActCovered(Aged(k), s2)
  BY AgedFields, AgeFields, AgesCover, HorizonCovers, Numbers DEF BankCovered, ActCovered, Older
<1>2. PreCovered(Aged(k), s2)
  BY AgedFields, AgeFields, AgesCover, HorizonCovers, Numbers DEF BankCovered, PreCovered, Older
<1>3. ColumnCovered(Aged(k), s2)
  BY AgedFields, AgeFields, AgesCover, HorizonCovers, Numbers DEF BankCovered, ColumnCovered, Older
<1>4. QED
  BY <1>1, <1>2, <1>3 DEF BankCovered

LEMMA AgedRankCovered ==
  ASSUME NEW k \in BankRecord, NEW n \in RankAges, NEW n2 \in RankAges, Rested(n, n2),
         RankCovered(k, n)
  PROVE  RankCovered(Aged(k), n2)
<1>1. WakeCovered(Aged(k), n2)
  BY AgedFields, AgeFields, AgesCover, HorizonCovers, Numbers DEF RankCovered, WakeCovered, Rested
<1>2. RefreshCovered(Aged(k), n2)
  <2>1. n.refresh >= T_RFC => n2.refresh >= T_RFC
    BY AgeFields, AgesType, Numbers, Constants DEF Rested
  <2>2. QED
    BY <2>1, AgedFields, AgeFields, AgesCover, HorizonCovers, Numbers
    DEF RankCovered, RefreshCovered, Rested
<1>3. SleepCovered(Aged(k), n2)
  BY AgedFields, AgeFields, AgesCover, HorizonCovers, Numbers DEF RankCovered, SleepCovered, Rested
<1>4. QED
  BY <1>1, <1>2, <1>3 DEF RankCovered

LEMMA AgedNeighbourCovered ==
  ASSUME NEW k \in BankRecord, NEW s \in BankAges, NEW s2 \in BankAges, Older(s, s2)
  PROVE  /\ ColumnsCovered(k, s) => ColumnsCovered(Aged(k), s2)
         /\ OthersCovered(k, s) => OthersCovered(Aged(k), s2)
BY AgedFields, AgeFields, AgesCover, HorizonCovers, Numbers
   DEF ColumnsCovered, OthersCovered, Older

LEMMA AgedBurstCovered ==
  ASSUME NEW k \in BankRecord, NEW r, NEW u \in Bursts, NEW u2 \in Bursts,
         u.busy >= -T_RTRS, u2.rank = u.rank, u2.kind = u.kind,
         u2.busy = IF u.busy > -T_RTRS THEN u.busy - 1 ELSE u.busy,
         BusCovered(k, r, u)
  PROVE  BusCovered(Aged(k), r, u2)
<1>1. /\ u.busy \in Int /\ u2.busy \in Int /\ u.busy >= 0 - T_RTRS
      /\ u2.busy = IF u.busy > 0 - T_RTRS THEN u.busy - 1 ELSE u.busy
  BY Constants DEF Bursts
<1>2. QED
  BY <1>1, AgedFields, Numbers, Constants DEF BusCovered, Elapsed

LEMMA AgedDone ==
  ASSUME NEW s \in BankAges, NEW s2 \in BankAges, Older(s, s2), NEW t \in Nat, DoneIn(t, s)
  PROVE  DoneIn(Elapsed(t), s2)
BY AgeFields, AgesCover, HorizonCovers DEF DoneIn, Older

LEMMA DoneLater ==
  ASSUME NEW s \in BankAges, NEW t \in Nat, NEW later \in Nat, t <= later, DoneIn(t, s)
  PROVE  DoneIn(later, s)
BY Numbers, Constants, WriteRecoveryType DEF DoneIn

\* Forced refreshes start on a bank on which everything but a row cycle is over, and end
\* late enough for the row cycle.
LEMMA ForcedCovered ==
  ASSUME NEW k \in BankRecord, NEW completion \in Nat, completion >= RefreshTail(1),
         NEW s \in BankAges, DoneIn(0, s), NEW n \in RankAges, n.refresh = T_RFC - completion,
         WakeCovered(k, n)
  PROVE  LET k2 == ForceRefreshedBank(k, completion)
         IN  /\ BankCovered(k, s) => BankCovered(k2, s)
             /\ RankCovered(k2, n)
             /\ \A z \in BankAges : /\ ColumnsCovered(k, z) => ColumnsCovered(k2, z)
                                    /\ DoneIn(0, z) => OthersCovered(k2, z)
             /\ \A r, u : BusCovered(k, r, u) => BusCovered(k2, r, u)
<1> DEFINE k2 == ForceRefreshedBank(k, completion)
<1>1. k2 \in BankRecord
  BY BankTypes
<1>2. /\ k2.next_act = completion /\ k2.next_pre = completion /\ k2.next_refresh = completion
      /\ k2.next_powerdown = completion /\ k2.state = "REFRESHING"
      /\ k2.next_read = k.next_read /\ k2.next_write = k.next_write
  BY DEF ForceRefreshedBank, BankRecord
<1> HIDE DEF k2
<1>3. /\ T_RC <= T_RAS + RefreshTail(1) /\ T_RCD <= T_RAS + RefreshTail(1)
      /\ T_RRD <= T_RAS + RefreshTail(1) /\ T_XP <= RefreshTail(1) /\ RefreshTail(1) \in Int
  BY RecoveryAssumption, TailShrinks, Constants
<1>4. BankCovered(k, s) => BankCovered(k2, s)
  <2>1. BankCovered(k, s) => ActCovered(k2, s)
    BY <1>2, <1>3, Numbers, Constants DEF DoneIn, BankCovered, ActCovered
  <2>2. PreCovered(k2, s) /\ ColumnCovered(k2, s)
    BY <1>2, Numbers, Constants, WriteRecoveryType DEF DoneIn, PreCovered, ColumnCovered
  <2>3. QED
    BY <2>1, <2>2 DEF BankCovered
<1>5. RankCovered(k2, n)
  <2>1. WakeCovered(k2, n)
    BY <1>2, <1>3, Numbers, Constants DEF WakeCovered
  <2>2. RefreshCovered(k2, n)
    BY <1>2, Constants DEF RefreshCovered, RowStates
  <2>3. SleepCovered(k2, n)
    BY <1>2 DEF SleepCovered, PoweredDown, PrePwrDown
  <2>4. QED
    BY <2>1, <2>2, <2>3 DEF RankCovered
<1>6. ASSUME NEW z \in BankAges
      PROVE  /\ ColumnsCovered(k, z) => ColumnsCovered(k2, z)
             /\ DoneIn(0, z) => OthersCovered(k2, z)
  BY <1>2, <1>3, Numbers, Constants DEF ColumnsCovered, OthersCovered, DoneIn
<1>7. \A r, u : BusCovered(k, r, u) => BusCovered(k2, r, u)
  BY <1>2 DEF BusCovered
<1>8. QED
  BY <1>4, <1>5, <1>6, <1>7 DEF k2

-----------------------------------------------------------------------------
\* What a cycle does to the refresh bookkeeping of a rank.

LEMMA TailDistributes ==
  ASSUME NEW m \in Nat
  PROVE  /\ RefreshTail(REFRESHES - m) = RefreshTail(REFRESHES) - m * T_RFC
         /\ RefreshTail(REFRESHES) \in Int /\ m * T_RFC \in Nat
         /\ REFRESHES - m >= 1 => RefreshTail(REFRESHES - m) >= RefreshTail(1)
<1>1. (REFRESHES - m) * T_RFC = REFRESHES * T_RFC - m * T_RFC
  BY Constants
<1>2. m * T_RFC \in Nat /\ REFRESHES * T_RFC \in Nat
  BY Constants
<1>3. REFRESHES - m >= 1 => (REFRESHES - m) * T_RFC >= 1 * T_RFC
  <2>1. SUFFICES ASSUME REFRESHES - m >= 1 PROVE (REFRESHES - m) * T_RFC >= T_RFC
    BY Constants
  <2>2. REFRESHES - m - 1 \in Nat
    BY <2>1, Constants
  <2>3. (REFRESHES - m - 1) * T_RFC \in Nat
    BY <2>2, Constants
  <2>4. (REFRESHES - m - 1) * T_RFC = (REFRESHES - m) * T_RFC - T_RFC
    BY Constants
  <2>5. (REFRESHES - m) * T_RFC \in Int
    BY Constants
  <2>6. QED
    BY <2>3, <2>4, <2>5, Constants
<1>4. QED
  BY <1>1, <1>2, <1>3, Constants DEF RefreshTail

\* The cases of RefreshCycle, with what they mean for the deadline of a command.
LEMMA DeadlineCycle ==
  ASSUME NEW f \in RefreshRecord, Scheduled(f), NEW n \in RankAges, RefreshesFit(f, n)
  PROVE  LET g == AgedRefresh(f)
             h == UpdatedRefresh(g)
         IN  /\ n.refresh >= T_RFC => Elapsed(Left(f)) <= Left(h)
             /\ f.completion_deadline > 1 => Elapsed(Left(f)) <= Left(h)
             /\ AtForcedRefresh(g) <=> h.forced /\ ~f.forced
             /\ AtForcedRefresh(g) => /\ Left(f) = 1 /\ Left(h) = 0
                                      /\ g.completion_deadline >= RefreshTail(1)
                                      /\ h.completion_deadline = g.completion_deadline
             /\ \A n2 \in RankAges :
                  ~AtForcedRefresh(g) /\ n2.refresh = P!Longer(n.refresh) => RefreshesFit(h, n2)
<1> DEFINE g == AgedRefresh(f)
           h == UpdatedRefresh(g)
<1>1. /\ f.completion_deadline \in Int /\ f.issue_deadline \in Int
      /\ f.num_issued \in Nat /\ f.forced \in BOOLEAN /\ f.completion_deadline > 0
      /\ g.completion_deadline = f.completion_deadline - 1
      /\ g.issue_deadline = f.issue_deadline - 1
      /\ g.num_issued = f.num_issued /\ g.forced = f.forced
      /\ g \in RefreshRecord /\ h \in RefreshRecord /\ Scheduled(h)
  <2>1. g \in RefreshRecord /\ h \in RefreshRecord /\ Scheduled(h)
    BY RefreshCycle
  <2>2. QED
    BY <2>1 DEF AgedRefresh, RefreshRecord, Scheduled
<1>2. /\ f.issue_deadline <= f.completion_deadline - RefreshTail(REFRESHES) + f.num_issued * T_RFC
      /\ f.forced => f.issue_deadline <= 0
      /\ f.forced \/ f.num_issued >= REFRESHES \/ f.issue_deadline > 0
      /\ RefreshTail(REFRESHES) \in Int /\ f.num_issued * T_RFC \in Nat
      /\ RefreshTail(REFRESHES - f.num_issued) = RefreshTail(REFRESHES) - f.num_issued * T_RFC
      /\ REFRESHES - f.num_issued >= 1 =>
           RefreshTail(REFRESHES - f.num_issued) >= RefreshTail(1)
  BY <1>1, TailDistributes DEF Scheduled
<1>3. Left(f) = (IF f.forced \/ f.issue_deadline < 0 THEN 0 ELSE f.issue_deadline) /\ Left(h) \in Nat
  BY <1>1, LeftType DEF Left
<1> HIDE DEF g, h
<1>4. CASE AtCompletion(g)
  <2>1. /\ h.completion_deadline = RefreshWindow /\ h.num_issued = 0 /\ ~h.forced
        /\ h.issue_deadline = RefreshWindow - RefreshTail(REFRESHES)
    BY <1>4 DEF h, UpdatedRefresh, NewRefreshWindow
  <2>2. RefreshWindow \in Nat /\ RefreshTail(REFRESHES) < RefreshWindow
    BY WindowType, WindowAssumption
  <2>3. Left(h) = RefreshWindow - RefreshTail(REFRESHES)
    BY <1>2, <2>1, <2>2 DEF Left
  <2>4. f.completion_deadline = 1
    BY <1>1, <1>4 DEF AtCompletion
  <2>5. ASSUME n.refresh >= T_RFC PROVE Elapsed(Left(f)) <= Left(h)
    <3>1. Later(T_RFC - n.refresh, 0) = 0
      BY <2>5, Numbers, Constants DEF Later
    <3>2. ~f.forced => f.num_issued * T_RFC <= RefreshWindow - 1
      BY <1>2, <2>2, <2>4, <3>1 DEF RefreshesFit
    <3>3. QED
      BY <1>1, <1>2, <1>3, <2>2, <2>3, <2>4, <3>2 DEF Elapsed
  <2>6. ASSUME NEW n2 \in RankAges PROVE RefreshesFit(h, n2)
    <3>1. Later(T_RFC - n2.refresh, 0) \in Nat
      BY Numbers, Constants DEF Later
    <3>2. 0 * T_RFC = 0
      BY Constants
    <3>3. QED
      BY <2>1, <2>2, <3>1, <3>2 DEF RefreshesFit
  <2>7. ~AtForcedRefresh(g)
    BY <1>4 DEF AtForcedRefresh
  <2>8. QED
    BY <1>1, <2>1, <2>4, <2>5, <2>6, <2>7 DEF g, h
<1>5. CASE AtForcedRefresh(g)
  <2>1. h = [g EXCEPT !.forced = TRUE]
    BY <1>5 DEF h, UpdatedRefresh, AtForcedRefresh
  <2>2. h.forced /\ h.completion_deadline = g.completion_deadline /\ h.num_issued = f.num_issued
    BY <1>1, <2>1 DEF RefreshRecord
  <2>3. f.issue_deadline = 1 /\ ~f.forced /\ REFRESHES - f.num_issued >= 1
    BY <1>1, <1>2, <1>5, Constants DEF AtForcedRefresh
  <2>4. Left(f) = 1 /\ Left(h) = 0 /\ Elapsed(Left(f)) = 0
    BY <1>3, <2>2, <2>3 DEF Left, Elapsed
  <2>5. g.completion_deadline >= RefreshTail(REFRESHES - f.num_issued)
    BY <2>2, <2>3, RefreshCycle DEF g, h
  <2>6. g.completion_deadline >= RefreshTail(1)
    BY <1>1, <1>2, <2>3, <2>5, TailShrinks
  <2>7. QED
    BY <1>5, <2>2, <2>3, <2>4, <2>6 DEF g, h
<1>6. CASE ~AtCompletion(g) /\ ~AtForcedRefresh(g)
  <2>1. /\ h.completion_deadline = g.completion_deadline /\ h.forced = g.forced
        /\ h.num_issued = g.num_issued
        /\ h.issue_deadline = IF g.issue_deadline > 0
             THEN g.completion_deadline - RefreshTail(REFRESHES - g.num_issued)
             ELSE g.issue_deadline
    BY <1>1, <1>6 DEF h, UpdatedRefresh, RefreshRecord
  <2>2. Elapsed(Left(f)) <= Left(h)
    BY <1>1, <1>2, <1>3, <2>1 DEF Elapsed, Left
  <2>3. ASSUME NEW n2 \in RankAges, n2.refresh = P!Longer(n.refresh) PROVE RefreshesFit(h, n2)
    <3>1. n.refresh \in Int /\ n2.refresh \in Int /\ n2.refresh <= n.refresh + 1
      BY <2>3, Numbers, AgeFields, HorizonCovers DEF P!Longer, Ages
    <3>2. /\ Later(T_RFC - n.refresh, 0) \in Int /\ Later(T_RFC - n2.refresh, 0) \in Int
          /\ Later(T_RFC - n2.refresh, 0) >= Later(T_RFC - n.refresh, 0) - 1
      BY <3>1, Constants DEF Later
    <3>3. QED
      BY <1>1, <1>2, <2>1, <3>2, WindowType DEF RefreshesFit
  <2>4. QED
    BY <1>1, <1>6, <2>1, <2>2, <2>3 DEF g, h
<1>7. QED
  BY <1>4, <1>5, <1>6

LEMMA CycleNoted ==
  ASSUME HTypeOK, NEW forced \in SUBSET Ranks, NEW length,
         \A r \in forced : length[r] \in Nat, P!NoteCycle(forced, length)
  PROVE  /\ HTypeOK'
         /\ \A r \in Ranks, b \in Banks : Older(since[r][b], since'[r][b])
         /\ \A r \in Ranks \ forced : Rested(naps[r], naps'[r])
         /\ \A r \in forced : /\ naps'[r].refresh = T_RFC - length[r]
                              /\ naps'[r].wake = P!Longer(naps[r].wake)
                              /\ naps'[r].sleep = P!Longer(naps[r].sleep)
         /\ \A r \in Ranks : \A i \in 1 .. 4 :
              acts'[r][i] = IF acts[r][i] > T_FAW THEN acts[r][i] ELSE acts[r][i] + 1
         /\ bus' \in Bursts /\ bus'.rank = bus.rank /\ bus'.kind = bus.kind
         /\ bus'.busy = IF bus.busy > -T_RTRS THEN bus.busy - 1 ELSE bus.busy
<1>1. /\ \A r \in Ranks, b \in Banks : since[r][b] \in BankAges
      /\ \A r \in Ranks : naps[r] \in RankAges
      /\ \A r \in Ranks : \A i \in 1 .. 4 : acts[r][i] \in 0 .. T_FAW + 1
  BY DEF HTypeOK
<1>2. since' \in [Ranks -> [Banks -> BankAges]]
  <2>1. ASSUME NEW r \in Ranks, NEW b \in Banks
        PROVE  [act |-> P!Longer(since[r][b].act), pre |-> P!Longer(since[r][b].pre),
                read |-> P!Longer(since[r][b].read), write |-> P!Longer(since[r][b].write)]
                 \in BankAges
    BY <1>1, AgeFields, AgesType DEF BankAges
  <2>2. QED
    BY <2>1, SameTimings DEF P!NoteCycle
<1>3. \A r \in Ranks, b \in Banks : Older(since[r][b], since'[r][b])
  BY SameTimings DEF P!NoteCycle, Older
<1>4. naps' \in [Ranks -> RankAges]
  <2>1. ASSUME NEW r \in Ranks
        PROVE  [sleep |-> P!Longer(naps[r].sleep), wake |-> P!Longer(naps[r].wake),
                refresh |-> IF r \in forced THEN T_RFC - length[r] ELSE P!Longer(naps[r].refresh)]
                 \in RankAges
    <3>1. r \in forced => T_RFC - length[r] \in Ages
      BY HorizonCovers, Constants DEF Ages
    <3>2. P!Longer(naps[r].wake) \in Nat
      BY <1>1, AgesType, AgeFields, Numbers
    <3>3. QED
      BY <1>1, <3>1, <3>2, AgeFields, AgesType DEF RankAges
  <2>2. QED
    BY <2>1, SameTimings DEF P!NoteCycle
<1>5. /\ \A r \in Ranks \ forced : Rested(naps[r], naps'[r])
      /\ \A r \in forced : /\ naps'[r].refresh = T_RFC - length[r]
                           /\ naps'[r].wake = P!Longer(naps[r].wake)
                           /\ naps'[r].sleep = P!Longer(naps[r].sleep)
  BY SameTimings DEF P!NoteCycle, Rested
<1>6. /\ acts' \in [Ranks -> [1 .. 4 -> 0 .. T_FAW + 1]]
      /\ \A r \in Ranks : \A i \in 1 .. 4 :
           acts'[r][i] = IF acts[r][i] > T_FAW THEN acts[r][i] ELSE acts[r][i] + 1
  <2>1. acts' = [r \in Ranks |-> [i \in 1 .. 4 |->
                   IF acts[r][i] > T_FAW THEN acts[r][i] ELSE acts[r][i] + 1]]
    BY SameTimings DEF P!NoteCycle
  <2>2. \A r \in Ranks : \A i \in 1 .. 4 :
          (IF acts[r][i] > T_FAW THEN acts[r][i] ELSE acts[r][i] + 1) \in 0 .. T_FAW + 1
    BY <1>1, Constants
  <2>3. QED
    BY <2>1, <2>2
<1>7. /\ bus' \in Bursts /\ bus'.rank = bus.rank /\ bus'.kind = bus.kind
      /\ bus'.busy = IF bus.busy > -T_RTRS THEN bus.busy - 1 ELSE bus.busy
  <2>1. bus \in Bursts /\ bus.busy \in Int /\ -T_RTRS \in Int
    BY Constants DEF HTypeOK, Bursts
  <2>2. bus' = [bus EXCEPT !.busy = IF bus.busy > -T_RTRS THEN bus.busy - 1 ELSE bus.busy]
    BY DEF P!NoteCycle
  <2>3. (IF bus.busy > -T_RTRS THEN bus.busy - 1 ELSE bus.busy) \in Int
    BY <2>1
  <2>4. QED
    BY <2>1, <2>2, <2>3 DEF Bursts
<1>8. QED
  BY <1>2, <1>3, <1>4, <1>5, <1>6, <1>7 DEF HTypeOK, Bursts

\* The ranks whose forced refreshes start in the cycle.
Forcing == {r \in Ranks : refresh'[r].forced /\ ~refresh[r].forced}

LEMMA CycleCovered ==
  ASSUME HInv, StateInv', NotedUpdateMemory
  PROVE  /\ HTypeOK' /\ Covered'
         /\ \A r \in Forcing : /\ refresh'[r].completion_deadline >= RefreshTail(1)
                               /\ naps'[r].refresh = T_RFC - refresh'[r].completion_deadline
                               /\ \A b \in Banks : DoneIn(0, since'[r][b])
<1> DEFINE f(r) == refresh[r]
           g(r) == AgedRefresh(refresh[r])
<1>1. ASSUME NEW r \in Ranks
      PROVE  /\ refresh[r] \in RefreshRecord /\ Scheduled(refresh[r])
             /\ naps[r] \in RankAges /\ RefreshesFit(refresh[r], naps[r])
             /\ refresh'[r] = UpdatedRefresh(g(r)) /\ refresh'[r] \in RefreshRecord
             /\ r \in Forcing <=> AtForcedRefresh(g(r))
  <2>1. /\ refresh[r] \in RefreshRecord /\ Scheduled(refresh[r])
        /\ naps[r] \in RankAges /\ RefreshesFit(refresh[r], naps[r])
    BY DEF HInv, StateInv, Inv, TypeOK, RefreshOnSchedule, HTypeOK, Covered, RefreshesAlone
  <2>2. refresh'[r] = UpdatedRefresh(g(r)) /\ refresh'[r] \in RefreshRecord
    BY DEF NotedUpdateMemory, UpdateMemory, StateInv, Inv, TypeOK
  <2>3. QED
    BY <2>1, <2>2, DeadlineCycle DEF Forcing
<1>2. ASSUME NEW r \in Forcing
      PROVE  /\ Left(refresh[r]) = 1 /\ Left(refresh'[r]) = 0
             /\ refresh'[r].completion_deadline = g(r).completion_deadline
             /\ refresh'[r].completion_deadline >= RefreshTail(1)
             /\ refresh'[r].completion_deadline \in Nat
  <2>1. r \in Ranks
    BY DEF Forcing
  <2>2. g(r).completion_deadline \in Nat
    BY <1>1, <2>1, RefreshCycle
  <2>3. QED
    BY <1>1, <2>1, <2>2, DeadlineCycle
<1> DEFINE length == [r \in Ranks |-> refresh'[r].completion_deadline]
<1>3. /\ HTypeOK'
      /\ \A r \in Ranks, b \in Banks : Older(since[r][b], since'[r][b])
      /\ \A r \in Ranks \ Forcing : Rested(naps[r], naps'[r])
      /\ \A r \in Forcing : /\ naps'[r].refresh = T_RFC - refresh'[r].completion_deadline
                            /\ naps'[r].wake = P!Longer(naps[r].wake)
      /\ \A r \in Ranks : \A i \in 1 .. 4 :
           acts'[r][i] = IF acts[r][i] > T_FAW THEN acts[r][i] ELSE acts[r][i] + 1
      /\ bus' \in Bursts /\ bus'.rank = bus.rank /\ bus'.kind = bus.kind
      /\ bus'.busy = IF bus.busy > -T_RTRS THEN bus.busy - 1 ELSE bus.busy
  <2>1. P!NoteCycle(Forcing, length) /\ HTypeOK
    BY DEF NotedUpdateMemory, Forcing, HInv
  <2>2. Forcing \in SUBSET Ranks /\ \A r \in Forcing : length[r] = refresh'[r].completion_deadline
    BY DEF Forcing
  <2> HIDE DEF length
  <2>3. \A r \in Forcing : length[r] \in Nat
    BY <1>2, <2>2
  <2>4. /\ HTypeOK'
        /\ \A r \in Ranks, b \in Banks : Older(since[r][b], since'[r][b])
        /\ \A r \in Ranks \ Forcing : Rested(naps[r], naps'[r])
        /\ \A r \in Ranks : \A i \in 1 .. 4 :
             acts'[r][i] = IF acts[r][i] > T_FAW THEN acts[r][i] ELSE acts[r][i] + 1
        /\ bus' \in Bursts /\ bus'.rank = bus.rank /\ bus'.kind = bus.kind
        /\ bus'.busy = IF bus.busy > -T_RTRS THEN bus.busy - 1 ELSE bus.busy
    BY <2>1, <2>2, <2>3, CycleNoted
  <2>5. \A r \in Forcing : /\ naps'[r].refresh = T_RFC - length[r]
                           /\ naps'[r].wake = P!Longer(naps[r].wake)
    BY <2>1, <2>2, <2>3, CycleNoted
  <2>6. QED
    BY <2>2, <2>4, <2>5
<1>4. ASSUME NEW r \in Ranks, NEW b \in Banks
      PROVE  /\ dram_state[r][b] \in BankRecord /\ Aged(dram_state[r][b]) \in BankRecord
             /\ since[r][b] \in BankAges /\ since'[r][b] \in BankAges /\ naps'[r] \in RankAges
             /\ dram_state'[r][b] =
                  IF r \in Forcing
                  THEN ForceRefreshedBank(Aged(dram_state[r][b]), refresh'[r].completion_deadline)
                  ELSE Aged(dram_state[r][b])
  <2>1. naps'[r] \in RankAges /\ since'[r][b] \in BankAges
    BY <1>3 DEF HTypeOK
  <2>2. dram_state'[r][b] = IF AtForcedRefresh(g(r))
                            THEN ForceRefreshedBank(Aged(dram_state[r][b]), g(r).completion_deadline)
                            ELSE Aged(dram_state[r][b])
    BY DEF NotedUpdateMemory, UpdateMemory
  <2>3. QED
    BY <1>1, <1>2, <2>1, <2>2, OneBank, AgedFields
<1>5. ASSUME NEW r \in Ranks, NEW b \in Banks
      PROVE  /\ r \in Forcing => DoneIn(0, since'[r][b])
             /\ DoneIn(Left(refresh'[r]), since'[r][b])
             /\ RefreshAlone(naps'[r], since'[r][b])
  <2>1. DoneIn(Left(refresh[r]), since[r][b]) /\ RefreshAlone(naps[r], since[r][b])
    BY DEF HInv, Covered, DoneByDeadline, RefreshesAlone
  <2>2. Left(refresh[r]) \in Nat /\ Left(refresh'[r]) \in Nat /\ Elapsed(Left(refresh[r])) \in Nat
    BY <1>1, LeftType, ElapsedType
  <2>3. DoneIn(Elapsed(Left(refresh[r])), since'[r][b])
    BY <1>3, <1>4, <2>1, <2>2, AgedDone
  <2>4. DoneIn(0, since[r][b]) => DoneIn(0, since'[r][b])
    BY <1>3, <1>4, AgedDone DEF Elapsed
  <2>5. r \in Forcing => DoneIn(0, since'[r][b])
    BY <1>2, <2>3 DEF Elapsed
  <2>6. naps[r].refresh < T_RFC => DoneIn(0, since'[r][b])
    BY <1>1, <2>1, <2>4, Numbers, Constants DEF RefreshAlone
  <2>7. naps[r].refresh >= T_RFC => Elapsed(Left(refresh[r])) <= Left(refresh'[r])
    BY <1>1, DeadlineCycle
  <2>8. DoneIn(Left(refresh'[r]), since'[r][b])
    BY <1>1, <1>4, <2>2, <2>3, <2>6, <2>7, DoneLater, Numbers, Constants
  <2>9. RefreshAlone(naps'[r], since'[r][b])
    <3>1. r \notin Forcing /\ naps[r].refresh >= T_RFC => naps'[r].refresh >= T_RFC
      BY <1>1, <1>3, <1>4, AgeFields, AgesType, Numbers, Constants DEF Rested
    <3>2. QED
      BY <1>1, <2>5, <2>6, <3>1, Numbers, Constants DEF RefreshAlone
  <2>10. QED
    BY <2>5, <2>8, <2>9
<1>6. ASSUME NEW r \in Ranks, NEW b \in Banks
      PROVE  /\ BankCovered(Aged(dram_state[r][b]), since'[r][b])
             /\ r \notin Forcing => RankCovered(Aged(dram_state[r][b]), naps'[r])
             /\ WakeCovered(Aged(dram_state[r][b]), naps'[r])
             /\ BusCovered(Aged(dram_state[r][b]), r, bus')
  <2>1. BankCovered(Aged(dram_state[r][b]), since'[r][b])
    BY <1>3, <1>4, OneBank, AgedBankCovered
  <2>2. r \notin Forcing => RankCovered(Aged(dram_state[r][b]), naps'[r])
    BY <1>3, <1>4, OneBank, AgedRankCovered
  <2>3. WakeCovered(Aged(dram_state[r][b]), naps'[r])
    <3>1. naps'[r].wake = P!Longer(naps[r].wake) /\ WakeCovered(dram_state[r][b], naps[r])
      BY <1>3, OneBank DEF Rested, RankCovered
    <3>2. QED
      BY <1>1, <1>4, <3>1, AgedFields, AgeFields, AgesCover, HorizonCovers, Numbers DEF WakeCovered
  <2>4. BusCovered(Aged(dram_state[r][b]), r, bus')
    <3>1. bus \in Bursts /\ bus.busy >= -T_RTRS /\ BusCovered(dram_state[r][b], r, bus)
      BY DEF HInv, HTypeOK, Bursts, Covered, BurstsCovered
    <3>2. QED
      BY <1>3, <1>4, <3>1, AgedBurstCovered
  <2>5. QED
    BY <2>1, <2>2, <2>3, <2>4
<1>7. ASSUME NEW r \in Ranks, NEW b \in Banks, NEW c \in Banks
      PROVE  /\ ColumnsCovered(Aged(dram_state[r][b]), since'[r][c])
             /\ c # b => OthersCovered(Aged(dram_state[r][b]), since'[r][c])
  <2>1. /\ ColumnsCovered(dram_state[r][b], since[r][c])
        /\ c # b => OthersCovered(dram_state[r][b], since[r][c])
    BY DEF HInv, Covered, NeighboursCovered
  <2>2. QED
    BY <1>3, <1>4, <2>1, AgedNeighbourCovered
<1>8. ASSUME NEW r \in Forcing, NEW b \in Banks
      PROVE  /\ BankCovered(dram_state'[r][b], since'[r][b])
             /\ RankCovered(dram_state'[r][b], naps'[r])
             /\ BusCovered(dram_state'[r][b], r, bus')
             /\ \A c \in Banks : /\ ColumnsCovered(dram_state'[r][b], since'[r][c])
                                 /\ OthersCovered(dram_state'[r][b], since'[r][c])
  <2>1. r \in Ranks
    BY DEF Forcing
  <2>2. /\ DoneIn(0, since'[r][b]) /\ \A c \in Banks : DoneIn(0, since'[r][c])
        /\ naps'[r].refresh = T_RFC - refresh'[r].completion_deadline
        /\ WakeCovered(Aged(dram_state[r][b]), naps'[r])
    BY <1>3, <1>5, <1>6, <2>1
  <2>3. dram_state'[r][b] =
          ForceRefreshedBank(Aged(dram_state[r][b]), refresh'[r].completion_deadline)
    BY <1>4, <2>1
  <2>4. QED
    BY <1>2, <1>4, <1>6, <1>7, <2>1, <2>2, <2>3, ForcedCovered
<1>9. ASSUME NEW r \in Ranks \ Forcing, NEW b \in Banks
      PROVE  dram_state'[r][b] = Aged(dram_state[r][b])
  BY <1>4
<1>10. BanksCovered' /\ RanksCovered' /\ NeighboursCovered'
  BY <1>6, <1>7, <1>8, <1>9 DEF BanksCovered, RanksCovered, NeighboursCovered
<1>11. BurstsCovered'
  <2>1. bus'.busy >= -T_RTRS
    <3>1. bus.busy \in Int /\ bus.busy >= 0 - T_RTRS
      BY Constants DEF HInv, HTypeOK, Covered, BurstsCovered
    <3>2. QED
      BY <1>3, <3>1, Constants
  <2>2. QED
    BY <1>6, <1>8, <1>9, <2>1 DEF BurstsCovered
<1>12. DoneByDeadline'
  BY <1>5 DEF DoneByDeadline
<1>13. RefreshesAlone'
  <2>1. ASSUME NEW r \in Ranks PROVE RefreshesFit(refresh'[r], naps'[r])
    <3>1. CASE r \in Forcing
      BY <3>1 DEF RefreshesFit, Forcing
    <3>2. CASE r \notin Forcing
      <4>1. naps'[r] \in RankAges /\ naps'[r].refresh = P!Longer(naps[r].refresh)
        BY <1>3, <3>2 DEF HTypeOK, Rested
      <4>2. QED
        BY <1>1, <3>2, <4>1, DeadlineCycle
    <3>3. QED
      BY <3>1, <3>2
  <2>2. QED
    BY <1>5, <2>1 DEF RefreshesAlone
<1>14. ActivatesRecorded'
  <2>1. ASSUME NEW r \in Ranks
        PROVE  ActsRecorded(acts'[r], activation_record'[r]) /\ acts'[r][1] > 0
    <3>1. ActsRecorded(acts[r], activation_record[r])
      BY DEF HInv, Covered, ActivatesRecorded
    <3>2. \A i \in 1 .. 4 : acts[r][i] \in 0 .. T_FAW + 1
      BY DEF HInv, HTypeOK
    <3>3. activation_record'[r] = {age + 1 : age \in activation_record[r]} \ {T_FAW + 1}
      BY DEF NotedUpdateMemory, UpdateMemory, FlushActivateRecord
    <3>4. \A i \in 1 .. 4 : acts'[r][i] <= T_FAW => acts'[r][i] \in activation_record'[r]
      BY <1>3, <3>1, <3>2, <3>3, Constants DEF ActsRecorded
    <3>5. \A i \in 1 .. 3 : acts'[r][i] < acts'[r][i + 1] \/ acts'[r][i + 1] > T_FAW
      BY <1>3, <3>1, <3>2, Constants DEF ActsRecorded
    <3>6. acts'[r][1] > 0
      BY <1>3, <3>2, Constants
    <3>7. QED
      BY <3>4, <3>5, <3>6 DEF ActsRecorded
  <2>2. QED
    BY <2>1 DEF ActivatesRecorded
<1>15. ColumnsAwake'
  BY DEF NotedUpdateMemory, UpdateMemory, NoCas, ColumnsAwake
<1>16. Covered'
  BY <1>10, <1>11, <1>12, <1>13, <1>14, <1>15 DEF Covered
<1>17. \A r \in Forcing : r \in Ranks
  BY DEF Forcing
<1>18. QED
  BY <1>2, <1>3, <1>5, <1>16, <1>17

-----------------------------------------------------------------------------
\* The invariant holds.

LEMMA HistoryInitially == HInit => HInv
<1> SUFFICES ASSUME HInit PROVE HInv
  OBVIOUS
<1>1. /\ dram_state = [r \in Ranks |-> [b \in Banks |-> IdleBank]]
      /\ refresh = [r \in Ranks |-> NewRefreshWindow]
      /\ activation_record = [r \in Ranks |-> {}]
      /\ cas_issued_current_cycle = NoCas
      /\ since = [r \in Ranks |-> [b \in Banks |->
           [act |-> P!Horizon, pre |-> P!Horizon, read |-> P!Horizon, write |-> P!Horizon]]]
      /\ naps = [r \in Ranks |->
           [sleep |-> P!Horizon, wake |-> P!Horizon, refresh |-> P!Horizon]]
      /\ acts = [r \in Ranks |-> [i \in 1 .. 4 |-> T_FAW + 1]]
      /\ bus = [rank |-> 0, kind |-> "read", busy |-> -T_RTRS]
  BY SameTimings DEF HInit, Init, P!Init
<1>2. StateInv
  BY StateInitially DEF HInit
<1>3. P!Horizon \in Ages /\ P!Horizon \in Nat
  BY HorizonCovers DEF Ages
<1>4. HTypeOK
  <2>1. since \in [Ranks -> [Banks -> BankAges]]
    BY <1>1, <1>3 DEF BankAges
  <2>2. naps \in [Ranks -> RankAges]
    BY <1>1, <1>3 DEF RankAges
  <2>3. acts \in [Ranks -> [1 .. 4 -> 0 .. T_FAW + 1]]
    BY <1>1, Constants
  <2>4. bus \in [rank : Ranks, kind : {"read", "write"}, busy : Int]
    BY <1>1, Constants
  <2>5. QED
    BY <2>1, <2>2, <2>3, <2>4 DEF HTypeOK
<1>5. ASSUME NEW r \in Ranks, NEW b \in Banks
      PROVE  /\ dram_state[r][b] = IdleBank /\ refresh[r] = NewRefreshWindow
             /\ since[r][b].act = P!Horizon /\ since[r][b].pre = P!Horizon
             /\ since[r][b].read = P!Horizon /\ since[r][b].write = P!Horizon
             /\ naps[r].sleep = P!Horizon /\ naps[r].wake = P!Horizon
             /\ naps[r].refresh = P!Horizon
  BY <1>1
<1>6. /\ IdleBank.next_act = 0 /\ IdleBank.next_pre = 0 /\ IdleBank.next_read = 0
      /\ IdleBank.next_write = 0 /\ IdleBank.next_powerdown = 0 /\ IdleBank.next_powerup = 0
      /\ IdleBank.next_refresh = 0 /\ IdleBank.state = "IDLE"
  BY DEF IdleBank
<1>7. BanksCovered
  BY <1>3, <1>5, <1>6, HorizonCovers, Constants, WriteRecoveryType
  DEF BanksCovered, BankCovered, ActCovered, PreCovered, ColumnCovered
<1>8. RanksCovered
  BY <1>3, <1>5, <1>6, HorizonCovers, Constants
  DEF RanksCovered, RankCovered, WakeCovered, RefreshCovered, SleepCovered, PoweredDown,
      PrePwrDown, RowStates
<1>9. NeighboursCovered
  BY <1>3, <1>5, <1>6, HorizonCovers, Constants
  DEF NeighboursCovered, ColumnsCovered, OthersCovered
<1>10. BurstsCovered
  <2>1. bus.busy = 0 - T_RTRS /\ bus.busy >= -T_RTRS
    BY <1>1, Constants
  <2>2. QED
    BY <1>5, <1>6, <2>1, Constants DEF BurstsCovered, BusCovered
<1>11. DoneByDeadline /\ RefreshesAlone
  <2>1. Left(NewRefreshWindow) \in Nat
    BY WindowType, LeftType
  <2>2. RefreshesFit(NewRefreshWindow, naps[0])
    <3>1. Later(T_RFC - naps[0].refresh, 0) \in Nat /\ 0 * T_RFC = 0
      BY <1>3, <1>5, Constants DEF Later
    <3>2. QED
      BY <3>1, WindowType DEF RefreshesFit, NewRefreshWindow
  <2>3. \A r \in Ranks : naps[r] = naps[0]
    BY <1>1, Constants
  <2>4. QED
    BY <1>3, <1>5, <2>1, <2>2, <2>3, HorizonCovers, Constants, WriteRecoveryType
    DEF DoneByDeadline, DoneIn, RefreshesAlone, RefreshAlone
<1>12. ActivatesRecorded
  BY <1>1, Constants DEF ActivatesRecorded, ActsRecorded
<1>13. ColumnsAwake
  BY <1>1 DEF ColumnsAwake, NoCas
<1>14. QED
  BY <1>2, <1>4, <1>7, <1>8, <1>9, <1>10, <1>11, <1>12, <1>13 DEF HInv, Covered

\* The history restrains nothing.
LEMMA HistoryIsPassive ==
  /\ HLazyNext => LazyNext
  /\ HNext => Next
BY DEF HLazyNext, HNext, LazyNext, Next, NotedUpdateMemory, NotedRankStep, NotedBankStep,
       NotedRefresh, RankStep, BankStep

\* The precharges: the three that begin at once, and the one that does not.
LEMMA PrechargeNow ==
  ASSUME HInv, StateInv', NEW r \in Ranks, NEW banks \in SUBSET Banks, NEW b \in banks,
         Refreshable(r, T_RP), dram_state[r][b].next_pre = 0,
         Precharge(r, banks), P!NotePre(r, banks, 0)
  PROVE  HTypeOK' /\ Covered'
<1>1. dram_state' = [dram_state EXCEPT ![r] = PrechargedRank(dram_state[r], banks, 0)]
  BY DEF Precharge, PrechargedRank
<1>2. naps[r].refresh >= T_RFC
  BY OneBank, Numbers, Constants DEF RankCovered, RefreshCovered
<1>3. Refreshable(r, 0 + T_RP) /\ 0 \in Nat
  BY Constants
<1>4. QED
  BY <1>1, <1>2, <1>3, PrechargeCovered DEF Precharge, IssueOnBus

LEMMA AutoprechargeFacts ==
  ASSUME HInv, NEW r \in Ranks, NEW b \in Banks, IssueAutoprecharge(r, b)
  PROVE  /\ StartPrecharge(r, b) \in Nat /\ StartPrecharge(r, b) >= dram_state[r][b].next_pre
         /\ dram_state[r][b].state = "ROW_ACTIVE"
         /\ Refreshable(r, StartPrecharge(r, b) + T_RP)
         /\ naps[r].refresh >= T_RFC /\ naps[r].wake >= T_XP
<1>1. StartPrecharge(r, b) \in Nat
  BY StartPrechargeType DEF HInv, StateInv, Inv
<1>2. StartPrecharge(r, b) >= dram_state[r][b].next_pre
  BY OneBank, Numbers, LaterCovers, Constants, WriteRecoveryType DEF StartPrecharge
<1>3. /\ cas_issued_current_cycle[r][b] # 0
      /\ StartPrecharge(r, b) + T_RP <= refresh[r].issue_deadline
  BY DEF IssueAutoprecharge, IsAutoprechargeAllowed
<1>4. dram_state[r][b].state = "ROW_ACTIVE" /\ naps[r].wake >= T_XP
  BY <1>3 DEF HInv, StateInv, ColumnsOpen, Covered, ColumnsAwake, State
<1>5. naps[r].refresh >= T_RFC
  BY <1>4, OneBank DEF RankCovered, RefreshCovered, RowStates
<1>6. ~refresh[r].forced
  BY <1>1, <1>3, OneRank, Constants, PrechargeAssumption
  DEF HInv, Scheduled, RefreshRecord
<1>7. QED
  BY <1>1, <1>2, <1>3, <1>4, <1>5, <1>6 DEF Refreshable

LEMMA AutoprechargeCovered ==
  ASSUME HInv, StateInv', NEW r \in Ranks, NEW b \in Banks, IssueAutoprecharge(r, b),
         P!NotePre(r, {b}, StartPrecharge(r, b))
  PROVE  HTypeOK' /\ Covered'
<1> DEFINE start == StartPrecharge(r, b)
<1>1. start \in Nat /\ Refreshable(r, start + T_RP) /\ naps[r].refresh >= T_RFC
  BY AutoprechargeFacts
<1>2. /\ dram_state' = [dram_state EXCEPT ![r] = PrechargedRank(dram_state[r], {b}, start)]
      /\ refresh' = refresh /\ activation_record' = activation_record
      /\ command_issued_current_cycle' = command_issued_current_cycle
      /\ \A i \in Ranks, j \in Banks : cas_issued_current_cycle'[i][j] = 0
  BY DEF IssueAutoprecharge, NoCas, HInv, StateInv, Inv, TypeOK, PrechargedRank
<1>3. P!NotePre(r, {b}, start) /\ {b} \in SUBSET Banks
  OBVIOUS
<1> HIDE DEF start
<1>4. QED
  BY <1>1, <1>2, <1>3, PrechargeCovered

LEMMA HistoryStep ==
  ASSUME HInv, [HNext]_<<vars, history>>
  PROVE  HInv'
<1>1. StateInv'
  BY StateStep, HistoryIsPassive DEF HInv, vars
<1> SUFFICES HTypeOK' /\ Covered'
  BY <1>1 DEF HInv
<1>2. CASE NotedUpdateMemory
  BY <1>1, <1>2, CycleCovered
<1>3. ASSUME NEW r \in Ranks, NotedRankStep(r) PROVE HTypeOK' /\ Covered'
  <2>1. CASE IssueAllBankPrechargeCommand(r) /\ P!NotePre(r, Banks, 0)
    BY <1>1, <2>1, PrechargeNow, Constants
    DEF IssueAllBankPrechargeCommand, IsAllBankPrechargeAllowed, IsPrechargeAllowed
  <2>2. CASE IssuePowerupCommand(r) /\ P!NoteNap(r, "wake", 0)
    BY <1>1, <2>2, PowerUpCovered, Constants DEF IssuePowerupCommand, IsPowerupAllowed
  <2>3. CASE \E sleep \in PrePwrDown :
               IssuePowerdownCommand(r, sleep) /\ P!NoteNap(r, "sleep", 0)
    BY <1>1, <2>3, PowerdownCovered
  <2>4. QED
    BY <1>3, <2>1, <2>2, <2>3 DEF NotedRankStep
<1>4. ASSUME NEW r \in Ranks, NEW b \in Banks, NotedBankStep(r, b) PROVE HTypeOK' /\ Covered'
  <2>1. CASE \E row \in Rows : /\ RequestActivate(r, b, row) \/ IssueActivateCommand(r, b, row)
                               /\ P!NoteAct(r, b)
    BY <1>1, <2>1, ActivateCovered DEF RequestActivate, IssueActivateCommand
  <2>2. CASE RequestRead(r, b) /\ P!NoteColumn(r, b, "read")
    BY <1>1, <2>2, ReadCommandCovered
  <2>3. CASE RequestWrite(r, b) /\ P!NoteColumn(r, b, "write")
    BY <1>1, <2>3, WriteCommandCovered
  <2>4. CASE (RequestPrecharge(r, b) \/ IssuePrechargeCommand(r, b)) /\ P!NotePre(r, {b}, 0)
    <3>1. Refreshable(r, T_RP) /\ dram_state[r][b].next_pre = 0 /\ Precharge(r, {b})
      BY <2>4 DEF RequestPrecharge, PreIssuable, IssuePrechargeCommand, IsPrechargeAllowed
    <3>2. {b} \in SUBSET Banks /\ b \in {b}
      OBVIOUS
    <3>3. QED
      BY <1>1, <2>4, <3>1, <3>2, PrechargeNow
  <2>5. CASE IssueAutoprecharge(r, b) /\ P!NotePre(r, {b}, StartPrecharge(r, b))
    BY <1>1, <2>5, AutoprechargeCovered
  <2>6. CASE RequestPowerUp(r, b) /\ P!NoteNap(r, "wake", 0)
    BY <1>1, <2>6, PowerUpCovered DEF RequestPowerUp, PwrUpIssuable
  <2>7. QED
    BY <1>4, <2>1, <2>2, <2>3, <2>4, <2>5, <2>6 DEF NotedBankStep
<1>5. ASSUME NEW r \in Ranks, NotedRefresh(r) PROVE HTypeOK' /\ Covered'
  BY <1>1, <1>5, RefreshCommandCovered DEF NotedRefresh
<1>6. CASE UNCHANGED <<vars, history>>
  BY <1>6 DEF vars, history, HInv, HTypeOK, Covered, BanksCovered, RanksCovered,
              NeighboursCovered, BurstsCovered, DoneByDeadline, RefreshesAlone,
              ActivatesRecorded, ColumnsAwake
<1>7. QED
  BY <1>2, <1>3, <1>4, <1>5, <1>6 DEF HNext, HLazyNext

LEMMA HistoryInvariance == HSpec => []HInv
BY HistoryInitially, HistoryStep, PTL DEF HSpec
=============================================================================
