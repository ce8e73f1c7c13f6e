-------------------------- MODULE RefreshClockProofs --------------------------
(***************************************************************************)
(* The clock of the source, with its absolute cycles, its int deadline and *)
(* its ring of activates, implements the relative clock of the other       *)
(* models for as long as its cycles fit the int.                           *)
(*                                                                         *)
(* All cycles are multiples of PROCESSOR_CLK_MULTIPLIER.  The lemmas of    *)
(* the first part let the rest reason about the turns of which they are    *)
(* the multiples, in linear arithmetic.                                    *)
(***************************************************************************)
EXTENDS RefreshClock, FiniteSetTheorems, TLAPS

M == PROCESSOR_CLK_MULTIPLIER

LEMMA ClockConstants ==
  /\ M \in Nat /\ M > 0 /\ BIG_ACTIVATION_WINDOW \in Nat /\ BIG_ACTIVATION_WINDOW > 0
  /\ INT_MAX \in Nat /\ LastCycle \in Nat /\ MaxRefreshes \in Nat
  /\ T_FAW \in Nat /\ T_RAS \in Nat /\ T_RP \in Nat /\ T_RFC \in Nat /\ T_REFI \in Nat
  /\ REFRESHES \in Nat /\ REFRESHES > 0 /\ T_RP > 0
BY ClockAssumption, TimingsAssumption, SizesAssumption, PrechargeAssumption DEF M, Timings

-----------------------------------------------------------------------------
\* Cycles and turns.

LEMMA CyclesOf ==
  ASSUME NEW a \in Int
  PROVE  Cycles(a) \in Int /\ Cycles(a) \div M = a
BY ClockConstants DEF Cycles, M

LEMMA CyclesSum ==
  ASSUME NEW a \in Int, NEW b \in Int
  PROVE  Cycles(a) + Cycles(b) = Cycles(a + b) /\ Cycles(a) - Cycles(b) = Cycles(a - b)
BY ClockConstants DEF Cycles, M

LEMMA OneTurn == Cycles(1) = M /\ Cycles(0) = 0
BY ClockConstants DEF Cycles, M

LEMMA CyclesOrder ==
  ASSUME NEW a \in Int, NEW b \in Int
  PROVE  (Cycles(a) < Cycles(b) <=> a < b) /\ (Cycles(a) = Cycles(b) <=> a = b)
<1>1. ASSUME NEW x \in Int, NEW y \in Int, x < y PROVE Cycles(x) < Cycles(y)
  <2>1. (y - x) * M > 0
    BY <1>1, ClockConstants
  <2>2. Cycles(y) - Cycles(x) = (y - x) * M
    BY CyclesSum DEF Cycles, M
  <2>3. QED
    BY <2>1, <2>2, CyclesOf
<1>2. QED
  BY <1>1, CyclesOf

\* Two cycles that share an entry of the ring are the same or a lap apart.
LEMMA EntryUnique ==
  ASSUME NEW a \in Int, NEW b \in Int, a <= b, b < a + BIG_ACTIVATION_WINDOW, Entry(a) = Entry(b)
  PROVE  a = b
<1> DEFINE B == BIG_ACTIVATION_WINDOW
           lap == b \div B - a \div B
<1>1. a = B * (a \div B) + (a % B) /\ b = B * (b \div B) + (b % B)
  BY ClockConstants
<1>2. a \div B \in Int /\ b \div B \in Int
  BY ClockConstants
<1>3. b - a = B * lap
  BY <1>1, <1>2, ClockConstants DEF Entry
<1>4. lap \in Int
  BY <1>2
<1> HIDE DEF lap
<1>5. lap < 1
  <2>1. lap >= 1 => B * lap >= B
    BY <1>4, ClockConstants
  <2>2. QED
    BY <1>3, <1>4, <2>1, ClockConstants
<1>6. lap > -1
  <2>1. lap <= -1 => B * lap <= -B
    BY <1>4, ClockConstants
  <2>2. QED
    BY <1>3, <1>4, <2>1, ClockConstants
<1>7. lap = 0
  BY <1>4, <1>5, <1>6
<1>8. QED
  BY <1>3, <1>7, ClockConstants

LEMMA EntryType ==
  ASSUME NEW a \in Int
  PROVE  Entry(a) \in 0 .. BIG_ACTIVATION_WINDOW - 1
<1>1. a % BIG_ACTIVATION_WINDOW \in Int /\ 0 <= a % BIG_ACTIVATION_WINDOW
      /\ a % BIG_ACTIVATION_WINDOW < BIG_ACTIVATION_WINDOW
  BY ClockConstants
<1>2. QED
  BY <1>1, ClockConstants DEF Entry

\* An int keeps the values it has room for.
LEMMA IntKeeps ==
  ASSUME NEW n \in Int, -INT_MAX <= n, n <= INT_MAX
  PROVE  ToInt(n) = n
<1>1. ASSUME NEW k \in Int, NEW m \in Int, 0 <= k, k < m PROVE k % m = k
  BY <1>1
<1>2. 0 <= n + INT_MAX + 1 /\ n + INT_MAX + 1 < 2 * (INT_MAX + 1)
  BY ClockConstants
<1>3. (n + INT_MAX + 1) % (2 * (INT_MAX + 1)) = n + INT_MAX + 1
  BY <1>1, <1>2, ClockConstants
<1>4. QED
  BY <1>3, ClockConstants DEF ToInt

-----------------------------------------------------------------------------
\* The inductive invariant.

Turn == CYCLE_VAL \div M
Aligned(cycle) == cycle \in Int /\ cycle = Cycles(cycle \div M)

\* Every entry of the ring was made within the last T_FAW turns.
RingRecent ==
  \A i \in DOMAIN activation_record : activation_record[i] = 1 =>
    \E age \in 0 .. T_FAW : Cycles(age) <= CYCLE_VAL /\ i = Entry(CYCLE_VAL - Cycles(age))

ClockInv ==
  /\ CYCLE_VAL \in 0 .. LastCycle /\ Aligned(CYCLE_VAL)
  /\ Aligned(next_refresh_completion_deadline) /\ Aligned(refresh_issue_deadline)
  /\ CYCLE_VAL < next_refresh_completion_deadline
  /\ next_refresh_completion_deadline <= CYCLE_VAL + Cycles(RefreshWindow)
  /\ num_issued_refreshes \in 0 .. MaxRefreshes
  /\ forced_refresh_mode_on \in BOOLEAN /\ command_issued_current_cycle \in BOOLEAN
  /\ activation_record \in [0 .. BIG_ACTIVATION_WINDOW - 1 -> {0, 1}]
  /\ RingRecent

LEMMA AlignedCycles ==
  ASSUME NEW a \in Int
  PROVE  Aligned(Cycles(a))
BY CyclesOf DEF Aligned

\* What an aligned cycle is in turns from now.
LEMMA TurnsFromNow ==
  ASSUME Aligned(CYCLE_VAL), NEW c, Aligned(c)
  PROVE  /\ Turn \in Int /\ CYCLE_VAL = Cycles(Turn)
         /\ FromNow(c) \in Int /\ c = Cycles(Turn + FromNow(c))
<1>1. Turn \in Int /\ CYCLE_VAL = Cycles(Turn)
  BY ClockConstants DEF Aligned, Turn
<1>2. c \div M \in Int /\ c = Cycles(c \div M)
  BY ClockConstants DEF Aligned
<1>3. c - CYCLE_VAL = Cycles(c \div M - Turn)
  BY <1>1, <1>2, CyclesSum
<1>4. FromNow(c) = c \div M - Turn
  BY <1>1, <1>2, <1>3, CyclesOf DEF FromNow, M
<1>5. QED
  BY <1>1, <1>2, <1>4

LEMMA Windows ==
  /\ RefreshWindow \in Int /\ RefreshWindow > 0 /\ REFRESHES * T_REFI = RefreshWindow
  /\ \A m \in Int : RefreshTail(m) \in Int
  /\ 0 < RefreshTail(REFRESHES) /\ RefreshTail(REFRESHES) < RefreshWindow
<1>1. \A m \in Int : m * T_RFC \in Int
  BY ClockConstants
<1>2. REFRESHES * T_REFI \in Int /\ REFRESHES * T_RFC >= 0
  BY ClockConstants
<1>3. QED
  BY <1>1, <1>2, ClockConstants, WindowAssumption DEF RefreshWindow, RefreshTail

LEMMA DeadlineAtStart ==
  ASSUME CyclesFit
  PROVE  LET deadline == RefreshWindow - RefreshTail(REFRESHES)
         IN  ToInt(Cycles(deadline)) = Cycles(deadline)
<1> DEFINE deadline == RefreshWindow - RefreshTail(REFRESHES)
<1>1. Cycles(RefreshWindow) \in Int /\ Cycles(0) < Cycles(RefreshWindow)
  BY Windows, CyclesOf, CyclesOrder
<1>2. /\ deadline \in Int /\ 0 < deadline /\ deadline < RefreshWindow
      /\ Cycles(deadline) \in Int
  BY Windows, CyclesOf, ClockConstants
<1>3. Cycles(0) < Cycles(deadline) /\ Cycles(deadline) < Cycles(RefreshWindow)
  BY <1>2, Windows, CyclesOrder
<1>4. Cycles(RefreshWindow) <= INT_MAX
  <2>1. MaxRefreshes * T_RFC \in Int /\ MaxRefreshes * T_RFC >= 0
    BY ClockConstants
  <2>2. Cycles(RefreshWindow) <= Cycles(RefreshWindow + MaxRefreshes * T_RFC)
    BY <2>1, Windows, CyclesOrder, CyclesOf
  <2>3. QED
    BY <1>1, <2>1, <2>2, Windows, CyclesOf, ClockConstants DEF CyclesFit
<1>5. QED
  BY <1>1, <1>2, <1>3, <1>4, OneTurn, IntKeeps, ClockConstants

LEMMA ClockInitially == CyclesFit /\ ClockInit => ClockInv
<1> SUFFICES ASSUME CyclesFit, ClockInit PROVE ClockInv
  OBVIOUS
<1>1. CYCLE_VAL = Cycles(0)
  BY OneTurn DEF ClockInit
<1>2. Cycles(RefreshWindow) \in Int /\ Cycles(0) < Cycles(RefreshWindow)
  BY Windows, CyclesOf, CyclesOrder
<1> DEFINE deadline == RefreshWindow - RefreshTail(REFRESHES)
<1>3. ToInt(Cycles(deadline)) = Cycles(deadline)
  BY DeadlineAtStart
<1>4. Aligned(CYCLE_VAL) /\ Aligned(next_refresh_completion_deadline) /\ Aligned(refresh_issue_deadline)
  BY <1>1, <1>3, Windows, AlignedCycles, ClockConstants DEF ClockInit
<1>5. CYCLE_VAL \in 0 .. LastCycle /\ num_issued_refreshes \in 0 .. MaxRefreshes
  BY ClockConstants DEF ClockInit
<1>6. /\ CYCLE_VAL < next_refresh_completion_deadline
      /\ next_refresh_completion_deadline <= CYCLE_VAL + Cycles(RefreshWindow)
  BY <1>2, OneTurn DEF ClockInit
<1>7. activation_record \in [0 .. BIG_ACTIVATION_WINDOW - 1 -> {0, 1}] /\ RingRecent
  BY DEF ClockInit, RingRecent
<1>8. QED
  BY <1>4, <1>5, <1>6, <1>7 DEF ClockInit, ClockInv

-----------------------------------------------------------------------------
\* The steps.

\* A deadline computed from the completion of the current window, or of the one that
\* begins now, fits the int.
LEMMA DeadlineFits ==
  ASSUME CyclesFit, ClockInv,
         NEW c \in Int, Aligned(c), CYCLE_VAL < c, c <= LastCycle + Cycles(RefreshWindow),
         NEW n \in 0 .. MaxRefreshes
  PROVE  ToInt(c - Cycles(RefreshTail(REFRESHES - n))) = c - Cycles(RefreshTail(REFRESHES - n))
<1> DEFINE tail == RefreshTail(REFRESHES - n)
<1>1. n * T_RFC \in Nat /\ MaxRefreshes * T_RFC \in Nat /\ n * T_RFC <= MaxRefreshes * T_RFC
  BY ClockConstants
<1>2. (REFRESHES - n) * T_RFC = REFRESHES * T_RFC - n * T_RFC /\ REFRESHES * T_RFC \in Nat
  BY ClockConstants
<1>3. /\ tail \in Int /\ tail <= RefreshTail(REFRESHES) /\ -(MaxRefreshes * T_RFC) < tail
      /\ tail < RefreshWindow
  BY <1>1, <1>2, ClockConstants, Windows DEF RefreshTail
<1> HIDE DEF tail
<1>4. Cycles(tail) < Cycles(RefreshWindow) /\ Cycles(0 - MaxRefreshes * T_RFC) < Cycles(tail)
  BY <1>1, <1>3, Windows, CyclesOrder
<1>5. Cycles(0 - MaxRefreshes * T_RFC) = 0 - Cycles(MaxRefreshes * T_RFC)
  BY <1>1, OneTurn, CyclesSum
<1>6. Cycles(RefreshWindow + MaxRefreshes * T_RFC) = Cycles(RefreshWindow) + Cycles(MaxRefreshes * T_RFC)
  BY <1>1, Windows, CyclesSum
<1>7. /\ Cycles(tail) \in Int /\ Cycles(RefreshWindow) \in Int
      /\ Cycles(MaxRefreshes * T_RFC) \in Int /\ 0 <= Cycles(MaxRefreshes * T_RFC)
  <2>1. 0 < MaxRefreshes * T_RFC \/ 0 = MaxRefreshes * T_RFC
    BY <1>1
  <2>2. QED
    BY <1>1, <1>3, <2>1, Windows, CyclesOf, CyclesOrder, OneTurn
<1>8. CYCLE_VAL \in Nat
  BY ClockConstants DEF ClockInv
<1>9. c - Cycles(tail) <= INT_MAX
  BY <1>4, <1>5, <1>6, <1>7, ClockConstants DEF CyclesFit
<1>10. -INT_MAX <= c - Cycles(tail)
  BY <1>4, <1>6, <1>7, <1>8, ClockConstants DEF CyclesFit
<1>11. QED
  BY <1>7, <1>9, <1>10, IntKeeps DEF tail

LEMMA TurnsBetween ==
  ASSUME NEW a \in Int, NEW b \in Int
  PROVE  (Cycles(a) - Cycles(b)) \div PROCESSOR_CLK_MULTIPLIER = a - b
BY CyclesOf, CyclesSum DEF M

\* RankClock has its own names for the operators of DramTiming.
LEMMA SameRefresh ==
  /\ \A f : R!UpdatedRefresh(f) = UpdatedRefresh(f) /\ R!AgedRefresh(f) = AgedRefresh(f)
  /\ R!NewRefreshWindow = NewRefreshWindow
  /\ \A record : R!IsFawMet(record) <=> IsFawMet(record)
  /\ \A record : R!FlushActivateRecord(record) = FlushActivateRecord(record)
<1>1. R!RefreshWindow = RefreshWindow /\ \A m : R!RefreshTail(m) = RefreshTail(m)
  BY DEF R!RefreshWindow, RefreshWindow, R!RefreshTail, RefreshTail
<1>2. R!NewRefreshWindow = NewRefreshWindow
  BY <1>1 DEF R!NewRefreshWindow, NewRefreshWindow
<1>3. \A f : R!AtCompletion(f) = AtCompletion(f) /\ R!AtForcedRefresh(f) = AtForcedRefresh(f)
  BY DEF R!AtCompletion, AtCompletion, R!AtForcedRefresh, AtForcedRefresh
<1>4. \A f : R!UpdatedRefresh(f) = UpdatedRefresh(f)
  BY <1>1, <1>2, <1>3, Zenon DEF R!UpdatedRefresh, UpdatedRefresh
<1>5. \A f : R!AgedRefresh(f) = AgedRefresh(f)
  BY DEF R!AgedRefresh, AgedRefresh
<1>6. \A record : R!IsFawMet(record) <=> IsFawMet(record)
  <2>1. \A S : R!Cardinality(S) = Cardinality(S)
    BY DEF R!Cardinality, Cardinality
  <2>2. QED
    BY <2>1 DEF R!IsFawMet, IsFawMet
<1>7. \A record : R!FlushActivateRecord(record) = FlushActivateRecord(record)
  BY DEF R!FlushActivateRecord, FlushActivateRecord
<1>8. QED
  BY <1>2, <1>4, <1>5, <1>6, <1>7

\* The records of deadlines are compared field by field.
HasFields(f, d, e, n, forced) ==
  /\ f \in RefreshRecord
  /\ f.completion_deadline = d /\ f.issue_deadline = e /\ f.num_issued = n
  /\ f.forced <=> forced

LEMMA RefreshEqual ==
  ASSUME NEW d, NEW e, NEW n, NEW forced, NEW f, NEW g,
         HasFields(f, d, e, n, forced), HasFields(g, d, e, n, forced)
  PROVE  f = g
BY DEF HasFields, RefreshRecord

LEMMA RefreshAged ==
  ASSUME NEW d \in Int, NEW e \in Int, NEW n, NEW forced, NEW f, HasFields(f, d, e, n, forced)
  PROVE  HasFields(AgedRefresh(f), d - 1, e - 1, n, forced)
<1> DEFINE g == [f EXCEPT !.completion_deadline = d - 1]
<1>1. HasFields(g, d - 1, e, n, forced)
  BY DEF HasFields, RefreshRecord
<1>2. AgedRefresh(f) = [g EXCEPT !.issue_deadline = e - 1]
  BY DEF HasFields, AgedRefresh
<1> HIDE DEF g
<1>3. HasFields([g EXCEPT !.issue_deadline = e - 1], d - 1, e - 1, n, forced)
  BY <1>1 DEF HasFields, RefreshRecord
<1>4. QED
  BY <1>2, <1>3

LEMMA RefreshUpdated ==
  ASSUME NEW d, NEW e, NEW n, NEW forced, NEW f, HasFields(f, d, e, n, forced)
  PROVE  /\ d = 0 => UpdatedRefresh(f) = NewRefreshWindow
         /\ d # 0 /\ e = 0 /\ n < REFRESHES => HasFields(UpdatedRefresh(f), d, e, n, TRUE)
         /\ d # 0 /\ ~(e = 0 /\ n < REFRESHES) =>
              HasFields(UpdatedRefresh(f), d,
                        IF e > 0 THEN d - RefreshTail(REFRESHES - n) ELSE e, n, forced)
<1>1. d = 0 => UpdatedRefresh(f) = NewRefreshWindow
  BY DEF HasFields, UpdatedRefresh, AtCompletion
<1>2. ASSUME d # 0, e = 0, n < REFRESHES PROVE HasFields(UpdatedRefresh(f), d, e, n, TRUE)
  BY <1>2 DEF HasFields, UpdatedRefresh, AtCompletion, AtForcedRefresh, RefreshRecord
<1>3. ASSUME d # 0, ~(e = 0 /\ n < REFRESHES)
      PROVE  HasFields(UpdatedRefresh(f), d,
                       IF e > 0 THEN d - RefreshTail(REFRESHES - n) ELSE e, n, forced)
  <2>1. CASE e > 0
    <3>1. UpdatedRefresh(f) = [f EXCEPT !.issue_deadline = d - RefreshTail(REFRESHES - n)]
      BY <1>3, <2>1 DEF HasFields, UpdatedRefresh, AtCompletion, AtForcedRefresh
    <3>2. d - RefreshTail(REFRESHES - n) \in Int
      BY Windows, ClockConstants DEF HasFields, RefreshRecord
    <3>3. QED
      BY <2>1, <3>1, <3>2 DEF HasFields, RefreshRecord
  <2>2. CASE ~(e > 0)
    BY <1>3, <2>2 DEF HasFields, UpdatedRefresh, AtCompletion, AtForcedRefresh
  <2>3. QED
    BY <2>1, <2>2
<1>4. QED
  BY <1>1, <1>2, <1>3

LEMMA NewWindowFields ==
  HasFields(NewRefreshWindow, RefreshWindow, RefreshWindow - RefreshTail(REFRESHES), 0, FALSE)
BY Windows, ClockConstants DEF HasFields, NewRefreshWindow, RefreshRecord

\* The next cycle, and what update_memory makes of the deadlines in it.
LEMMA UpdateDeadlines ==
  ASSUME CyclesFit, ClockInv, UpdateClock
  PROVE  /\ CYCLE_VAL' \in 0 .. LastCycle /\ Aligned(CYCLE_VAL')
         /\ Aligned(next_refresh_completion_deadline') /\ Aligned(refresh_issue_deadline')
         /\ CYCLE_VAL' < next_refresh_completion_deadline'
         /\ next_refresh_completion_deadline' <= CYCLE_VAL' + Cycles(RefreshWindow)
         /\ num_issued_refreshes' \in 0 .. MaxRefreshes /\ forced_refresh_mode_on' \in BOOLEAN
         /\ Deadlines' = UpdatedRefresh(AgedRefresh(Deadlines))
<1> DEFINE t == Turn
           d == FromNow(next_refresh_completion_deadline)
           e == FromNow(refresh_issue_deadline)
           n == num_issued_refreshes
<1>1. /\ t \in Int /\ d \in Int /\ e \in Int /\ n \in 0 .. MaxRefreshes
      /\ CYCLE_VAL = Cycles(t) /\ next_refresh_completion_deadline = Cycles(t + d)
      /\ refresh_issue_deadline = Cycles(t + e)
  BY TurnsFromNow DEF ClockInv
<1>2. HasFields(Deadlines, d, e, n, forced_refresh_mode_on)
  BY <1>1, ClockConstants DEF ClockInv, HasFields, Deadlines, RefreshRecord
<1> HIDE DEF t, d, e
<1>3. /\ CYCLE_VAL' = Cycles(t + 1) /\ CYCLE_VAL' \in 0 .. LastCycle
      /\ CYCLE_VAL + PROCESSOR_CLK_MULTIPLIER = Cycles(t + 1)
  <2>1. /\ CYCLE_VAL' = CYCLE_VAL + PROCESSOR_CLK_MULTIPLIER /\ CYCLE_VAL' <= LastCycle
        /\ CYCLE_VAL \in Nat
    BY ClockConstants DEF UpdateClock, ClockInv
  <2>2. Cycles(t) + Cycles(1) = Cycles(t + 1)
    BY <1>1, CyclesSum
  <2>3. QED
    BY <1>1, <2>1, <2>2, OneTurn, ClockConstants DEF M
<1>4. 0 < d /\ d <= RefreshWindow
  <2>1. Cycles(t) < Cycles(t + d) /\ Cycles(t + d) <= Cycles(t + RefreshWindow)
    BY <1>1, Windows, CyclesSum DEF ClockInv
  <2>2. t < t + d /\ ~(t + RefreshWindow < t + d)
    BY <1>1, <2>1, Windows, CyclesOrder, CyclesOf
  <2>3. QED
    BY <1>1, <2>2, Windows
<1> DEFINE aged == AgedRefresh(Deadlines)
<1>5. HasFields(aged, d - 1, e - 1, n, forced_refresh_mode_on)
  BY <1>1, <1>2, RefreshAged
<1> HIDE DEF aged
<1>6. ASSUME NEW x \in Int, NEW y \in Int,
             next_refresh_completion_deadline' = Cycles(t + 1 + x),
             refresh_issue_deadline' = Cycles(t + 1 + y),
             num_issued_refreshes' \in Nat, forced_refresh_mode_on' \in BOOLEAN
      PROVE  HasFields(Deadlines', x, y, num_issued_refreshes', forced_refresh_mode_on')
  <2>1. FromNow(next_refresh_completion_deadline)' = x /\ FromNow(refresh_issue_deadline)' = y
    <3>1. /\ FromNow(next_refresh_completion_deadline)' = (t + 1 + x) - (t + 1)
          /\ FromNow(refresh_issue_deadline)' = (t + 1 + y) - (t + 1)
      BY <1>1, <1>3, <1>6, TurnsBetween DEF FromNow
    <3>2. QED
      BY <1>1, <1>6, <3>1
  <2>2. QED
    BY <1>6, <2>1 DEF HasFields, Deadlines, RefreshRecord
<1>7. \A x \in Int : 0 < x /\ x <= RefreshWindow =>
        CYCLE_VAL' < Cycles(t + 1 + x) /\ Cycles(t + 1 + x) <= CYCLE_VAL' + Cycles(RefreshWindow)
  <2>1. CYCLE_VAL' + Cycles(RefreshWindow) = Cycles(t + 1 + RefreshWindow)
    BY <1>1, <1>3, Windows, CyclesSum
  <2>2. ASSUME NEW x \in Int, 0 < x, x <= RefreshWindow
        PROVE  Cycles(t + 1) < Cycles(t + 1 + x) /\ Cycles(t + 1 + x) <= Cycles(t + 1 + RefreshWindow)
    BY <1>1, <2>2, Windows, CyclesOrder, CyclesOf
  <2>3. QED
    BY <1>3, <2>1, <2>2
<1>8. CASE NewWindow(CYCLE_VAL + PROCESSOR_CLK_MULTIPLIER)
  <2> DEFINE w == RefreshWindow
             tail == RefreshTail(REFRESHES)
  <2>1. d - 1 = 0
    <3>1. Cycles(t + 1) = Cycles(t + d)
      BY <1>1, <1>3, <1>8 DEF NewWindow, UpdateClock
    <3>2. QED
      BY <1>1, <3>1, CyclesOrder
  <2>2. next_refresh_completion_deadline' = Cycles(t + 1 + w)
    BY <1>1, <1>3, <1>8, Windows, CyclesSum DEF NewWindow, UpdateClock
  <2>3. refresh_issue_deadline' = Cycles(t + 1 + (w - tail))
    <3>1. refresh_issue_deadline' = ToInt(Cycles(t + 1) + Cycles(w - tail))
      BY <1>3, <1>8 DEF NewWindow, UpdateClock
    <3>2. Cycles(t + 1) + Cycles(w - tail) = Cycles(t + 1 + w) - Cycles(tail)
      <4>1. t + 1 \in Int /\ w \in Int /\ tail \in Int /\ t + 1 + w \in Int
        BY <1>1, Windows, ClockConstants
      <4> HIDE DEF w, tail
      <4>2. /\ Cycles(w) - Cycles(tail) = Cycles(w - tail)
            /\ Cycles(t + 1) + Cycles(w) = Cycles(t + 1 + w)
        BY <4>1, CyclesSum
      <4>3. QED
        BY <4>1, <4>2, CyclesOf
    <3>3. ToInt(Cycles(t + 1 + w) - Cycles(tail)) = Cycles(t + 1 + w) - Cycles(tail)
      <4>1. /\ Cycles(t + 1 + w) \in Int /\ Aligned(Cycles(t + 1 + w))
            /\ Cycles(t) < Cycles(t + 1 + w)
        BY <1>1, Windows, CyclesOf, AlignedCycles, CyclesOrder
      <4>2. Cycles(t + 1 + w) <= LastCycle + Cycles(w)
        <5>1. Cycles(t + 1) + Cycles(w) = Cycles(t + 1 + w)
          BY <1>1, Windows, CyclesSum
        <5>2. QED
          BY <1>1, <1>3, <5>1, Windows, CyclesOf, ClockConstants
      <4>3. REFRESHES - 0 = REFRESHES /\ 0 \in 0 .. MaxRefreshes
        BY ClockConstants
      <4>4. QED
        BY <1>1, <4>1, <4>2, <4>3, DeadlineFits
    <3>4. Cycles(t + 1) + Cycles(w - tail) = Cycles(t + 1 + (w - tail))
      <4>1. t + 1 \in Int /\ w - tail \in Int
        BY <1>1, Windows, ClockConstants
      <4>2. QED
        BY <4>1, CyclesSum
    <3>5. QED
      BY <3>1, <3>2, <3>3, <3>4
  <2>4. HasFields(UpdatedRefresh(aged), w, w - tail, 0, FALSE)
    BY <1>5, <2>1, RefreshUpdated, NewWindowFields
  <2>5. num_issued_refreshes' = 0 /\ forced_refresh_mode_on' = FALSE
    BY <1>8 DEF NewWindow
  <2>6. Deadlines' = UpdatedRefresh(AgedRefresh(Deadlines))
    <3>1. w \in Int /\ w - tail \in Int
      BY Windows, ClockConstants
    <3>2. HasFields(Deadlines', w, w - tail, 0, FALSE)
      BY <1>6, <2>2, <2>3, <2>5, <3>1
    <3>3. QED
      BY <2>4, <3>2, RefreshEqual DEF aged
  <2>7. Aligned(Cycles(t + 1)) /\ Aligned(Cycles(t + 1 + w)) /\ Aligned(Cycles(t + 1 + (w - tail)))
    BY <1>1, Windows, AlignedCycles, ClockConstants
  <2>8. /\ CYCLE_VAL' < next_refresh_completion_deadline'
        /\ next_refresh_completion_deadline' <= CYCLE_VAL' + Cycles(RefreshWindow)
    <3>1. w \in Int /\ 0 < w /\ w <= RefreshWindow
      BY Windows
    <3>2. QED
      BY <1>7, <2>2, <3>1
  <2>9. num_issued_refreshes' \in 0 .. MaxRefreshes /\ forced_refresh_mode_on' \in BOOLEAN
    <3>1. num_issued_refreshes' \in 0 .. MaxRefreshes
      BY <2>5, ClockConstants
    <3>2. QED
      BY <2>5, <3>1, Zenon
  <2> HIDE DEF w, tail
  <2>10. QED
    BY <1>3, <2>2, <2>3, <2>6, <2>7, <2>8, <2>9
<1>9. ASSUME next_refresh_completion_deadline' = next_refresh_completion_deadline,
             CYCLE_VAL + PROCESSOR_CLK_MULTIPLIER # next_refresh_completion_deadline
      PROVE  /\ d - 1 # 0 /\ Aligned(CYCLE_VAL')
             /\ next_refresh_completion_deadline' = Cycles(t + 1 + (d - 1))
             /\ Aligned(next_refresh_completion_deadline')
             /\ CYCLE_VAL' < next_refresh_completion_deadline'
             /\ next_refresh_completion_deadline' <= CYCLE_VAL' + Cycles(RefreshWindow)
  <2>1. t + 1 + (d - 1) = t + d
    BY <1>1
  <2>2. d # 1
    BY <1>1, <1>3, <1>9 DEF UpdateClock
  <2>3. Aligned(Cycles(t + 1)) /\ Aligned(Cycles(t + d))
    BY <1>1, AlignedCycles
  <2>4. /\ d - 1 \in Int /\ 0 < d - 1 /\ d - 1 <= RefreshWindow
    BY <1>1, <1>4, <2>2, Windows
  <2>5. QED
    BY <1>1, <1>3, <1>7, <1>9, <2>1, <2>2, <2>3, <2>4
<1>10. (CYCLE_VAL + PROCESSOR_CLK_MULTIPLIER = refresh_issue_deadline <=> e - 1 = 0)
       /\ (CYCLE_VAL + PROCESSOR_CLK_MULTIPLIER < refresh_issue_deadline <=> e - 1 > 0)
  <2>1. CYCLE_VAL + PROCESSOR_CLK_MULTIPLIER = Cycles(t + 1)
    BY <1>3 DEF UpdateClock
  <2>2. QED
    BY <1>1, <2>1, CyclesOrder
<1>11. refresh_issue_deadline = Cycles(t + 1 + (e - 1)) /\ Aligned(refresh_issue_deadline)
  <2>1. t + 1 + (e - 1) = t + e
    BY <1>1
  <2>2. QED
    BY <1>1, <2>1, AlignedCycles
<1>12. CASE ForceRefreshes(CYCLE_VAL + PROCESSOR_CLK_MULTIPLIER)
  <2>1. d - 1 # 0 /\ e - 1 = 0 /\ n < REFRESHES
    BY <1>9, <1>10, <1>12 DEF ForceRefreshes
  <2>2. HasFields(UpdatedRefresh(aged), d - 1, e - 1, n, TRUE)
    BY <1>5, <2>1, RefreshUpdated
  <2>3. /\ num_issued_refreshes' = n /\ forced_refresh_mode_on' = TRUE
        /\ refresh_issue_deadline' = refresh_issue_deadline
        /\ next_refresh_completion_deadline' = next_refresh_completion_deadline
    BY <1>12 DEF ForceRefreshes
  <2>4. HasFields(Deadlines', d - 1, e - 1, n, TRUE)
    <3>1. d - 1 \in Int /\ e - 1 \in Int /\ n \in Nat
      BY <1>1, ClockConstants
    <3>2. QED
      BY <1>6, <1>9, <1>11, <1>12, <2>3, <3>1 DEF ForceRefreshes
  <2>5. Deadlines' = UpdatedRefresh(AgedRefresh(Deadlines))
    BY <2>2, <2>4, RefreshEqual DEF aged
  <2>6. QED
    BY <1>1, <1>3, <1>9, <1>11, <1>12, <2>3, <2>5 DEF ForceRefreshes
<1>13. CASE MoveDeadline(CYCLE_VAL + PROCESSOR_CLK_MULTIPLIER)
  <2> DEFINE tail == RefreshTail(REFRESHES - n)
             moved == IF e - 1 > 0 THEN d - 1 - tail ELSE e - 1
  <2>1. d - 1 # 0 /\ ~(e - 1 = 0 /\ n < REFRESHES)
    BY <1>9, <1>10, <1>13 DEF MoveDeadline
  <2>2. HasFields(UpdatedRefresh(aged), d - 1, moved, n, forced_refresh_mode_on)
    BY <1>5, <2>1, RefreshUpdated
  <2>3. tail \in Int /\ moved \in Int
    BY <1>1, ClockConstants, Windows
  <2>4. refresh_issue_deadline' = Cycles(t + 1 + moved)
    <3>1. CASE e - 1 > 0
      <4>1. refresh_issue_deadline' = ToInt(Cycles(t + d) - Cycles(tail))
        BY <1>1, <1>10, <1>13, <3>1 DEF MoveDeadline
      <4>2. ToInt(Cycles(t + d) - Cycles(tail)) = Cycles(t + d) - Cycles(tail)
        <5>1. Cycles(t + d) \in Int /\ Aligned(Cycles(t + d)) /\ CYCLE_VAL < Cycles(t + d)
          BY <1>1, CyclesOf, AlignedCycles DEF ClockInv
        <5>2. Cycles(t + d) <= LastCycle + Cycles(RefreshWindow)
          <6>1. CYCLE_VAL \in 0 .. LastCycle /\ Cycles(t + d) <= CYCLE_VAL + Cycles(RefreshWindow)
            BY <1>1 DEF ClockInv
          <6>2. QED
            BY <5>1, <6>1, Windows, CyclesOf, ClockConstants
        <5>3. QED
          BY <1>1, <5>1, <5>2, DeadlineFits
      <4>3. Cycles(t + d) - Cycles(tail) = Cycles(t + 1 + moved)
        <5>1. t + d \in Int /\ t + 1 + moved = (t + d) - tail
          BY <1>1, <2>3, <3>1
        <5> HIDE DEF tail, moved
        <5>2. Cycles(t + d) - Cycles(tail) = Cycles((t + d) - tail)
          BY <2>3, <5>1, CyclesSum
        <5>3. QED
          BY <5>1, <5>2, Zenon
      <4>4. QED
        BY <4>1, <4>2, <4>3
    <3>2. CASE ~(e - 1 > 0)
      BY <1>10, <1>11, <1>13, <3>2 DEF MoveDeadline
    <3>3. QED
      BY <3>1, <3>2
  <2>5. Aligned(refresh_issue_deadline')
    BY <1>1, <2>3, <2>4, AlignedCycles
  <2> HIDE DEF moved
  <2>6. Deadlines' = UpdatedRefresh(AgedRefresh(Deadlines))
    <3>1. /\ num_issued_refreshes' = n /\ forced_refresh_mode_on' = forced_refresh_mode_on
          /\ forced_refresh_mode_on \in BOOLEAN
      BY <1>13 DEF MoveDeadline, ClockInv
    <3>2. d - 1 \in Int /\ n \in Nat
      BY <1>1, ClockConstants
    <3>3. HasFields(Deadlines', d - 1, moved, n, forced_refresh_mode_on)
      BY <1>6, <1>9, <1>13, <2>3, <2>4, <3>1, <3>2 DEF MoveDeadline
    <3>4. QED
      BY <2>2, <3>3, RefreshEqual DEF aged
  <2>7. QED
    BY <1>1, <1>3, <1>9, <1>13, <2>5, <2>6 DEF MoveDeadline, ClockInv
<1>14. QED
  BY <1>8, <1>12, <1>13 DEF UpdateClock

-----------------------------------------------------------------------------
\* The ring.

\* The ages the ring holds span less than a lap.
LEMMA AgesSpan ==
  ASSUME NEW a \in 0 .. T_FAW
  PROVE  /\ Cycles(a) \in Nat /\ Cycles(a) <= Cycles(T_FAW)
         /\ Cycles(T_FAW) \in Nat /\ Cycles(T_FAW) + M <= BIG_ACTIVATION_WINDOW
         /\ Cycles(a) + M = Cycles(a + 1)
<1>1. a \in Int /\ 0 <= a /\ a <= T_FAW /\ T_FAW \in Int
  BY ClockConstants
<1>2. Cycles(a) \in Int /\ Cycles(T_FAW) \in Int /\ ~(Cycles(a) < Cycles(0))
      /\ ~(Cycles(T_FAW) < Cycles(a))
  BY <1>1, CyclesOf, CyclesOrder
<1>3. Cycles(T_FAW) + Cycles(1) = Cycles(T_FAW + 1) /\ Cycles(a) + Cycles(1) = Cycles(a + 1)
  BY <1>1, CyclesSum
<1>4. QED
  BY <1>1, <1>2, <1>3, OneTurn, RingAssumption, ClockConstants

LEMMA UpdateRing ==
  ASSUME ClockInv, UpdateClock
  PROVE  /\ activation_record' \in [0 .. BIG_ACTIVATION_WINDOW - 1 -> {0, 1}] /\ RingRecent'
         /\ AgesInRing' = FlushActivateRecord({age + 1 : age \in AgesInRing})
<1> DEFINE flushed == Flushed(CYCLE_VAL')
<1>1. /\ CYCLE_VAL \in Nat /\ CYCLE_VAL' = CYCLE_VAL + M
      /\ activation_record \in [0 .. BIG_ACTIVATION_WINDOW - 1 -> {0, 1}]
      /\ activation_record' = [i \in 0 .. BIG_ACTIVATION_WINDOW - 1 |->
                                 IF i \in flushed THEN 0 ELSE activation_record[i]]
  BY ClockConstants DEF ClockInv, UpdateClock, M
<1>2. \A a \in 0 .. T_FAW :
        /\ CYCLE_VAL' - Cycles(a + 1) = CYCLE_VAL - Cycles(a)
        /\ Cycles(a + 1) <= CYCLE_VAL' <=> Cycles(a) <= CYCLE_VAL
  <2>1. M \in Nat
    BY ClockConstants
  <2>2. ASSUME NEW a \in 0 .. T_FAW
        PROVE  /\ CYCLE_VAL' - Cycles(a + 1) = CYCLE_VAL - Cycles(a)
               /\ Cycles(a + 1) <= CYCLE_VAL' <=> Cycles(a) <= CYCLE_VAL
    <3>1. Cycles(a) \in Nat /\ Cycles(a + 1) = Cycles(a) + M
      BY AgesSpan
    <3>2. QED
      BY <1>1, <2>1, <3>1
  <2>3. QED
    BY <2>2
<1>3. Cycles(T_FAW) <= CYCLE_VAL => Entry(CYCLE_VAL - Cycles(T_FAW)) \in flushed
  <2>1. T_FAW \in 0 .. T_FAW
    BY ClockConstants
  <2>2. Cycles(T_FAW) \in Nat /\ M \in 1 .. M
    BY <2>1, AgesSpan, ClockConstants
  <2>3. CYCLE_VAL' - Cycles(T_FAW) - M = CYCLE_VAL - Cycles(T_FAW)
    BY <1>1, <2>2, ClockConstants
  <2>4. ASSUME Cycles(T_FAW) <= CYCLE_VAL PROVE ~(CYCLE_VAL' < Cycles(T_FAW) + M)
    BY <1>1, <2>2, <2>4, ClockConstants
  <2>5. QED
    BY <2>2, <2>3, <2>4 DEF Flushed, M
<1>4. ASSUME NEW a \in 0 .. T_FAW - 1, Cycles(a) <= CYCLE_VAL
      PROVE  Entry(CYCLE_VAL - Cycles(a)) \notin flushed
  <2>1. a \in 0 .. T_FAW /\ a + 1 \in 0 .. T_FAW
    BY ClockConstants
  <2>2. /\ Cycles(a) \in Nat /\ Cycles(a) + M <= Cycles(T_FAW)
        /\ Cycles(T_FAW) \in Nat /\ Cycles(T_FAW) + M <= BIG_ACTIVATION_WINDOW
    BY <2>1, AgesSpan
  <2>3. ASSUME NEW i \in 1 .. M, ~(CYCLE_VAL' < Cycles(T_FAW) + M),
               Entry(CYCLE_VAL - Cycles(a)) = Entry(CYCLE_VAL' - Cycles(T_FAW) - i)
        PROVE  FALSE
    <3> DEFINE early == CYCLE_VAL' - Cycles(T_FAW) - i
               late == CYCLE_VAL - Cycles(a)
    <3>1. /\ early \in Int /\ late \in Int /\ early < late
          /\ late < early + BIG_ACTIVATION_WINDOW
      <4>1. M \in Nat /\ BIG_ACTIVATION_WINDOW \in Nat /\ i \in Int /\ 1 <= i /\ i <= M
        BY ClockConstants
      <4>2. early = (CYCLE_VAL + M) - Cycles(T_FAW) - i
        BY <1>1
      <4>3. CYCLE_VAL \in Nat /\ late = CYCLE_VAL - Cycles(a)
        BY <1>1
      <4> HIDE DEF early, late
      <4>4. early \in Int /\ late \in Int
        BY <2>2, <4>1, <4>2, <4>3
      <4>5. early < late
        BY <2>2, <4>1, <4>2, <4>3
      <4>6. late < early + BIG_ACTIVATION_WINDOW
        BY <2>2, <4>1, <4>2, <4>3
      <4>7. QED
        BY <4>4, <4>5, <4>6
    <3>2. Entry(early) = Entry(late)
      BY <2>3
    <3> HIDE DEF early, late
    <3>3. QED
      BY <3>1, <3>2, EntryUnique
  <2>4. QED
    BY <2>3 DEF Flushed, M
<1> HIDE DEF flushed
<1>5. ASSUME NEW i \in DOMAIN activation_record', activation_record'[i] = 1
      PROVE  \E b \in 1 .. T_FAW : Cycles(b) <= CYCLE_VAL' /\ i = Entry(CYCLE_VAL' - Cycles(b))
  <2>1. i \in DOMAIN activation_record /\ activation_record[i] = 1 /\ i \notin flushed
    BY <1>1, <1>5
  <2>2. PICK a \in 0 .. T_FAW : Cycles(a) <= CYCLE_VAL /\ i = Entry(CYCLE_VAL - Cycles(a))
    BY <2>1 DEF ClockInv, RingRecent
  <2>3. a # T_FAW
    BY <1>3, <2>1, <2>2
  <2>4. a + 1 \in 1 .. T_FAW
    BY <2>2, <2>3, ClockConstants
  <2>5. Cycles(a + 1) <= CYCLE_VAL' /\ i = Entry(CYCLE_VAL' - Cycles(a + 1))
    BY <1>2, <2>2
  <2>6. QED
    BY <2>4, <2>5
<1>6. activation_record' \in [0 .. BIG_ACTIVATION_WINDOW - 1 -> {0, 1}]
  BY <1>1
<1>7. RingRecent'
  BY <1>5, ClockConstants DEF RingRecent
<1>8. 0 \notin AgesInRing'
  <2>1. SUFFICES ASSUME activation_record'[Entry(CYCLE_VAL')] = 1 PROVE FALSE
    BY <1>1, OneTurn, ClockConstants DEF AgesInRing
  <2>2. Entry(CYCLE_VAL') \in DOMAIN activation_record'
    BY <1>1, EntryType, ClockConstants
  <2>3. PICK b \in 1 .. T_FAW :
          Cycles(b) <= CYCLE_VAL' /\ Entry(CYCLE_VAL') = Entry(CYCLE_VAL' - Cycles(b))
    BY <1>5, <2>1, <2>2
  <2>4. /\ Cycles(b) \in Nat /\ Cycles(b) > 0 /\ Cycles(b) < BIG_ACTIVATION_WINDOW
    <3>1. b \in 0 .. T_FAW /\ b \in Int /\ 0 < b
      BY ClockConstants
    <3>2. Cycles(0) < Cycles(b)
      BY <3>1, CyclesOrder
    <3>3. QED
      BY <3>1, <3>2, AgesSpan, OneTurn, ClockConstants
  <2>5. CYCLE_VAL' - Cycles(b) = CYCLE_VAL'
    BY <1>1, <2>3, <2>4, EntryUnique, ClockConstants
  <2>6. QED
    BY <1>1, <2>4, <2>5, ClockConstants
<1>9. ASSUME NEW a \in 0 .. T_FAW - 1
      PROVE  a + 1 \in AgesInRing' <=> a \in AgesInRing
  <2>1. a \in 0 .. T_FAW /\ a + 1 \in 0 .. T_FAW
    BY ClockConstants
  <2>2. /\ Cycles(a + 1) <= CYCLE_VAL' <=> Cycles(a) <= CYCLE_VAL
        /\ Entry(CYCLE_VAL' - Cycles(a + 1)) = Entry(CYCLE_VAL - Cycles(a))
    BY <1>2, <2>1
  <2>3. ASSUME Cycles(a) <= CYCLE_VAL
        PROVE  activation_record'[Entry(CYCLE_VAL - Cycles(a))]
                 = activation_record[Entry(CYCLE_VAL - Cycles(a))]
    <3>1. CYCLE_VAL - Cycles(a) \in Int
      BY <1>1, <2>1, AgesSpan
    <3>2. QED
      BY <1>1, <1>4, <2>3, <3>1, EntryType
  <2>4. QED
    BY <2>1, <2>2, <2>3 DEF AgesInRing
<1>10. AgesInRing' = FlushActivateRecord({age + 1 : age \in AgesInRing})
  <2>1. AgesInRing' \subseteq 0 .. T_FAW /\ AgesInRing \subseteq 0 .. T_FAW
    BY DEF AgesInRing
  <2>2. ASSUME NEW x \in AgesInRing'
        PROVE  x \in {age + 1 : age \in AgesInRing} /\ x # T_FAW + 1
    <3>1. x \in 1 .. T_FAW
      BY <1>8, <2>1, <2>2, ClockConstants
    <3>2. x - 1 \in 0 .. T_FAW - 1 /\ (x - 1) + 1 = x
      BY <3>1, ClockConstants
    <3>3. x - 1 \in AgesInRing
      BY <1>9, <2>2, <3>2
    <3>4. QED
      BY <3>1, <3>2, <3>3, ClockConstants
  <2>3. ASSUME NEW a \in AgesInRing, a + 1 # T_FAW + 1
        PROVE  a + 1 \in AgesInRing'
    <3>1. a \in 0 .. T_FAW - 1
      BY <2>1, <2>3, ClockConstants
    <3>2. QED
      BY <1>9, <2>3, <3>1
  <2>4. QED
    BY <2>2, <2>3 DEF FlushActivateRecord
<1>11. QED
  BY <1>6, <1>7, <1>10

\* record_activate adds an entry of age 0, and no other age shares it.
LEMMA ActivateRing ==
  ASSUME ClockInv, CYCLE_VAL' = CYCLE_VAL,
         activation_record' = [activation_record EXCEPT ![Entry(CYCLE_VAL)] = 1]
  PROVE  /\ activation_record' \in [0 .. BIG_ACTIVATION_WINDOW - 1 -> {0, 1}] /\ RingRecent'
         /\ AgesInRing' = AgesInRing \cup {0}
<1>1. /\ CYCLE_VAL \in Nat /\ Entry(CYCLE_VAL) \in 0 .. BIG_ACTIVATION_WINDOW - 1
      /\ activation_record \in [0 .. BIG_ACTIVATION_WINDOW - 1 -> {0, 1}]
  BY EntryType, ClockConstants DEF ClockInv
<1>2. 0 \in 0 .. T_FAW /\ Cycles(0) <= CYCLE_VAL /\ CYCLE_VAL - Cycles(0) = CYCLE_VAL
  BY <1>1, OneTurn, ClockConstants
<1>3. RingRecent'
  <2>1. ASSUME NEW i \in DOMAIN activation_record', activation_record'[i] = 1
        PROVE  \E age \in 0 .. T_FAW : Cycles(age) <= CYCLE_VAL /\ i = Entry(CYCLE_VAL - Cycles(age))
    <3>1. CASE i = Entry(CYCLE_VAL)
      BY <1>2, <3>1
    <3>2. CASE i # Entry(CYCLE_VAL)
      BY <1>1, <2>1, <3>2 DEF ClockInv, RingRecent
    <3>3. QED
      BY <3>1, <3>2
  <2>2. QED
    BY <2>1 DEF RingRecent
<1>4. ASSUME NEW a \in 0 .. T_FAW, a # 0, Cycles(a) <= CYCLE_VAL
      PROVE  activation_record'[Entry(CYCLE_VAL - Cycles(a))]
               = activation_record[Entry(CYCLE_VAL - Cycles(a))]
  <2> DEFINE early == CYCLE_VAL - Cycles(a)
  <2>1. Cycles(a) \in Nat /\ Cycles(a) < BIG_ACTIVATION_WINDOW
    BY AgesSpan, ClockConstants
  <2>2. Cycles(a) # 0
    BY <1>4, CyclesOrder, OneTurn
  <2>3. early \in Int /\ early < CYCLE_VAL /\ CYCLE_VAL < early + BIG_ACTIVATION_WINDOW
    BY <1>1, <2>1, <2>2, ClockConstants
  <2> HIDE DEF early
  <2>4. Entry(early) # Entry(CYCLE_VAL) /\ Entry(early) \in 0 .. BIG_ACTIVATION_WINDOW - 1
    BY <1>1, <2>3, EntryUnique, EntryType
  <2>5. activation_record'[Entry(early)] = activation_record[Entry(early)]
    BY <1>1, <2>4
  <2>6. QED
    BY <2>5 DEF early
<1>5. activation_record'[Entry(CYCLE_VAL)] = 1
  BY <1>1
<1>6. AgesInRing' = AgesInRing \cup {0}
  <2>1. ASSUME NEW a \in 0 .. T_FAW, a # 0 PROVE a \in AgesInRing' <=> a \in AgesInRing
    BY <1>4, <2>1 DEF AgesInRing
  <2>2. 0 \in AgesInRing'
    BY <1>2, <1>5 DEF AgesInRing
  <2>3. AgesInRing' \subseteq 0 .. T_FAW /\ AgesInRing \subseteq 0 .. T_FAW
    BY DEF AgesInRing
  <2>4. QED
    BY <2>1, <2>2, <2>3
<1>7. activation_record' \in [0 .. BIG_ACTIVATION_WINDOW - 1 -> {0, 1}]
  BY <1>1
<1>8. QED
  BY <1>3, <1>6, <1>7

\* is_T_FAW_met finds in the ring every activate the relative record holds.
LEMMA FawSeen ==
  ASSUME CyclesFit, ClockInv, IsTFawMet(CYCLE_VAL)
  PROVE  IsFawMet(AgesInRing)
<1> DEFINE Seen == 1 .. (IF CYCLE_VAL >= Cycles(T_FAW) THEN Cycles(T_FAW) ELSE CYCLE_VAL)
           found == {i \in Seen : activation_record[Entry(CYCLE_VAL - i)] = 1}
           recent == AgesInRing \cap (1 .. T_FAW)
           f == [age \in recent |-> Cycles(age)]
<1>1. CYCLE_VAL \in Nat /\ ToInt(CYCLE_VAL) = CYCLE_VAL
  <2>1. CYCLE_VAL \in Nat /\ CYCLE_VAL <= LastCycle
    BY ClockConstants DEF ClockInv
  <2>2. LastCycle <= INT_MAX
    <3>1. MaxRefreshes * T_RFC \in Nat
      BY ClockConstants
    <3>2. Cycles(0) < Cycles(RefreshWindow + MaxRefreshes * T_RFC)
      BY <3>1, Windows, CyclesOrder
    <3>3. Cycles(RefreshWindow + MaxRefreshes * T_RFC) \in Int
      BY <3>1, Windows, CyclesOf
    <3>4. QED
      BY <3>2, <3>3, OneTurn, ClockConstants DEF CyclesFit
  <2>3. QED
    BY <2>1, <2>2, IntKeeps, ClockConstants
<1>2. Cardinality(found) < 4
  BY <1>1 DEF IsTFawMet
<1>3. Cycles(T_FAW) \in Nat
  BY AgesSpan, ClockConstants
<1>4. IsFiniteSet(found)
  <2>1. IsFiniteSet(Seen)
    <3>1. IsFiniteSet(1 .. Cycles(T_FAW)) /\ IsFiniteSet(1 .. CYCLE_VAL)
      BY <1>1, <1>3, FS_Interval
    <3>2. QED
      BY <3>1
  <2>2. QED
    BY <2>1, FS_Subset
<1>5. \A age \in recent : Cycles(age) \in found
  <2>1. ASSUME NEW age \in recent PROVE Cycles(age) \in found
    <3>1. /\ age \in 0 .. T_FAW /\ age > 0 /\ age \in Int
          /\ Cycles(age) <= CYCLE_VAL /\ activation_record[Entry(CYCLE_VAL - Cycles(age))] = 1
      BY ClockConstants DEF AgesInRing
    <3>2. Cycles(age) \in Nat /\ Cycles(age) <= Cycles(T_FAW) /\ Cycles(0) < Cycles(age)
      BY <3>1, AgesSpan, CyclesOrder
    <3>3. Cycles(age) \in Seen
      BY <1>1, <1>3, <3>1, <3>2, OneTurn
    <3>4. QED
      BY <3>1, <3>3
  <2>2. QED
    BY <2>1
<1>6. \A a, b \in recent : Cycles(a) = Cycles(b) => a = b
  BY CyclesOrder DEF AgesInRing
<1> HIDE DEF found, recent
<1>7. f \in Injection(recent, found)
  BY <1>5, <1>6 DEF Injection, IsInjective
<1>8. Cardinality(recent) <= Cardinality(found)
  BY <1>4, <1>7, FS_Injection
<1>9. Cardinality(recent) \in Nat /\ Cardinality(found) \in Nat
  BY <1>4, <1>7, FS_Injection, FS_CardinalityType
<1>10. QED
  BY <1>2, <1>8, <1>9 DEF IsFawMet, recent

-----------------------------------------------------------------------------
\* The implementation, step by step.

LEMMA ClockStep ==
  ASSUME CyclesFit, ClockInv, [ClockNext]_clockVars
  PROVE  ClockInv' /\ [R!RankNext]_(R!rankVars)
<1>1. CASE IssueActivate
  <2>1. Deadlines' = Deadlines
    BY <1>1 DEF IssueActivate, deadlineVars, Deadlines, FromNow
  <2>2. RingRecent' /\ AgesInRing' = AgesInRing \cup {0}
        /\ activation_record' \in [0 .. BIG_ACTIVATION_WINDOW - 1 -> {0, 1}]
    BY <1>1, ActivateRing DEF IssueActivate
  <2>3. ClockInv'
    BY <1>1, <2>2 DEF IssueActivate, deadlineVars, ClockInv, Aligned
  <2>4. T_RAS <= Deadlines.issue_deadline /\ ~Deadlines.forced
    <3> DEFINE e == FromNow(refresh_issue_deadline)
    <3>1. /\ Turn \in Int /\ e \in Int /\ T_RAS \in Int
          /\ CYCLE_VAL = Cycles(Turn) /\ refresh_issue_deadline = Cycles(Turn + e)
      BY TurnsFromNow, ClockConstants DEF ClockInv
    <3> HIDE DEF e
    <3>2. Cycles(Turn) + Cycles(T_RAS) = Cycles(Turn + T_RAS)
      BY <3>1, CyclesSum
    <3>3. Cycles(Turn + T_RAS) <= Cycles(Turn + e)
      BY <1>1, <3>1, <3>2 DEF IssueActivate
    <3>4. ~(Turn + e < Turn + T_RAS)
      BY <3>1, <3>3, CyclesOrder, CyclesOf
    <3>5. T_RAS <= e
      BY <3>1, <3>4
    <3>6. QED
      BY <1>1, <3>5 DEF e, Deadlines, IssueActivate
  <2>5. R!IsFawMet(AgesInRing)
    BY <1>1, FawSeen, SameRefresh DEF IssueActivate
  <2>6. R!RankActivate
    BY <1>1, <2>1, <2>2, <2>4, <2>5 DEF R!RankActivate, IssueActivate
  <2>7. QED
    BY <2>3, <2>6 DEF R!RankNext
<1>2. CASE IssueRefresh
  <2>1. AgesInRing' = AgesInRing
    BY <1>2 DEF IssueRefresh, AgesInRing
  <2>2. ClockInv'
    BY <1>2, ClockConstants DEF IssueRefresh, ClockInv, Aligned, RingRecent
  <2>3. ~Deadlines.forced
    BY <1>2 DEF IssueRefresh, Deadlines
  <2>4. Deadlines' = [Deadlines EXCEPT !.num_issued = Deadlines.num_issued + 1]
    <3> DEFINE d == FromNow(next_refresh_completion_deadline)
               e == FromNow(refresh_issue_deadline)
    <3>1. d' = d /\ e' = e /\ d \in Int /\ e \in Int
      BY <1>2, TurnsFromNow DEF IssueRefresh, ClockInv, FromNow
    <3>2. HasFields(Deadlines, d, e, num_issued_refreshes, forced_refresh_mode_on)
      BY <3>1, ClockConstants DEF ClockInv, HasFields, Deadlines, RefreshRecord
    <3>3. HasFields(Deadlines', d, e, num_issued_refreshes + 1, forced_refresh_mode_on)
      BY <1>2, <3>1, ClockConstants DEF IssueRefresh, ClockInv, HasFields, Deadlines, RefreshRecord
    <3> HIDE DEF d, e
    <3>4. HasFields([Deadlines EXCEPT !.num_issued = Deadlines.num_issued + 1],
                    d, e, num_issued_refreshes + 1, forced_refresh_mode_on)
      BY <3>2, ClockConstants DEF HasFields, RefreshRecord
    <3>5. QED
      BY <3>3, <3>4, RefreshEqual
  <2>5. R!RankRefresh
    BY <1>2, <2>1, <2>3, <2>4 DEF R!RankRefresh, IssueRefresh
  <2>6. QED
    BY <2>2, <2>5 DEF R!RankNext
<1>3. CASE UpdateClock
  <2>1. ClockInv'
    BY <1>3, UpdateDeadlines, UpdateRing DEF UpdateClock, ClockInv, Aligned
  <2>2. R!RankUpdate
    BY <1>3, UpdateDeadlines, UpdateRing, SameRefresh DEF R!RankUpdate, UpdateClock
  <2>3. QED
    BY <2>1, <2>2 DEF R!RankNext
<1>4. CASE UNCHANGED clockVars
  <2>1. Deadlines' = Deadlines /\ AgesInRing' = AgesInRing
    BY <1>4 DEF clockVars, deadlineVars, Deadlines, FromNow, AgesInRing
  <2>2. ClockInv'
    BY <1>4 DEF clockVars, deadlineVars, ClockInv, Aligned, RingRecent
  <2>3. QED
    BY <1>4, <2>1, <2>2 DEF clockVars, R!rankVars
<1>5. QED
  BY <1>1, <1>2, <1>3, <1>4 DEF ClockNext

\* For as long as no cycle exceeds the largest int, the absolute clock of the source, its
\* int deadline and its ring of activates are what the rest of the models take them for.
THEOREM ClockIsRelative ==
  ASSUME CyclesFit
  PROVE  ClockSpec => RelativeClock
<1>1. ClockInit => R!RankInit
  <2> SUFFICES ASSUME ClockInit PROVE R!RankInit
    OBVIOUS
  <2>1. ClockInv
    BY ClockInitially
  <2>2. AgesInRing = {}
    <3>1. ASSUME NEW age \in 0 .. T_FAW PROVE age \notin AgesInRing
      <4>1. CYCLE_VAL \in Int /\ Cycles(age) \in Int /\ CYCLE_VAL - Cycles(age) \in Int
        BY AgesSpan DEF ClockInit
      <4>2. Entry(CYCLE_VAL - Cycles(age)) \in 0 .. BIG_ACTIVATION_WINDOW - 1
        BY <4>1, EntryType
      <4>3. QED
        BY <4>2 DEF ClockInit, AgesInRing
    <3>2. QED
      BY <3>1 DEF AgesInRing
  <2>3. Deadlines = NewRefreshWindow
    <3> DEFINE w == RefreshWindow
               tail == RefreshTail(REFRESHES)
    <3>1. w \in Int /\ tail \in Int /\ 0 < tail /\ tail < w /\ w - tail \in Int
      BY Windows, ClockConstants
    <3>2. ToInt(Cycles(w - tail)) = Cycles(w - tail)
      BY DeadlineAtStart
    <3>3. CYCLE_VAL = Cycles(0)
      BY OneTurn DEF ClockInit
    <3>4. FromNow(next_refresh_completion_deadline) = w /\ FromNow(refresh_issue_deadline) = w - tail
      <4>1. /\ FromNow(next_refresh_completion_deadline) = w - 0
            /\ FromNow(refresh_issue_deadline) = (w - tail) - 0
        BY <3>1, <3>2, <3>3, TurnsBetween DEF ClockInit, FromNow
      <4>2. QED
        BY <3>1, <4>1
    <3>5. HasFields(Deadlines, w, w - tail, 0, FALSE)
      <4>1. num_issued_refreshes = 0 /\ forced_refresh_mode_on = FALSE
        BY DEF ClockInit
      <4> HIDE DEF w, tail
      <4>2. QED
        BY <3>1, <3>4, <4>1 DEF Deadlines, HasFields, RefreshRecord
    <3>6. QED
      BY <3>5, NewWindowFields, RefreshEqual
  <2>4. QED
    BY <2>2, <2>3, SameRefresh DEF R!RankInit, ClockInit
<1>2. ClockInit => ClockInv
  BY ClockInitially
<1>3. ClockInv /\ [ClockNext]_clockVars => ClockInv' /\ [R!RankNext]_(R!rankVars)
  BY ClockStep
<1>4. QED
  BY <1>1, <1>2, <1>3, PTL DEF ClockSpec, RelativeClock, R!RankSpec

\* Nor does the ring keep an activate beyond its time, to be found a lap later.
THEOREM RingHoldsRecentHolds ==
  ASSUME CyclesFit
  PROVE  ClockSpec => []RingHoldsRecent
<1>1. ClockInit => ClockInv
  BY ClockInitially
<1>2. ClockInv /\ [ClockNext]_clockVars => ClockInv'
  BY ClockStep
<1>3. ClockInv => RingHoldsRecent
  BY DEF ClockInv, RingRecent, RingHoldsRecent
<1>4. QED
  BY <1>1, <1>2, <1>3, PTL DEF ClockSpec
=============================================================================
