--------------------------- MODULE SimulatorProofs ---------------------------
(***************************************************************************)
(* Theorems about the simulator with each of its schedulers: what they do  *)
(* is what Usimm allows a scheduler to do, so that the theorems about it   *)
(* hold of all of them, and what they remember of the banks is true.       *)
(***************************************************************************)
EXTENDS Simulator, FcfsMergingProofs, DramStateProofs

-----------------------------------------------------------------------------
\* What the schedulers choose exists.

LEMMA FirstReadyIn ==
  ASSUME UsimmInv, Ready # {}
  PROVE  /\ FirstReady \in Ready /\ FirstHit \in Ready /\ Ready \subseteq DOMAIN Served
         /\ Hits # {} => FirstHit \in Hits
<1>1. Ready \subseteq Nat /\ Ready \subseteq DOMAIN Served /\ Hits \subseteq Ready
  BY ServedType DEF Hits
<1>2. FirstReady \in Ready
  BY <1>1, FirstOfIn DEF FirstReady
<1>3. CASE Hits # {}
  <2>1. FirstOf(Hits) \in Hits
    BY <1>1, <1>3, FirstOfIn
  <2> QED BY <1>1, <1>2, <1>3, <2>1 DEF FirstHit
<1>4. CASE Hits = {}
  BY <1>1, <1>2, <1>4 DEF FirstHit, FirstReady
<1> QED BY <1>3, <1>4

LEMMA FirstBankIn ==
  ASSUME NEW S, S \subseteq Ranks \X Banks, S # {}
  PROVE  FirstBank(S) \in S
<1> DEFINE SomeRanks == {p[1] : p \in S}
<1>1. SomeRanks \subseteq Nat /\ SomeRanks # {}
  BY Constants DEF Ranks
<1>2. PICK r \in SomeRanks : \A i \in SomeRanks : r <= i
  <2> HIDE DEF SomeRanks
  <2> QED BY <1>1, LeastNatural
<1> DEFINE Its == {p[2] : p \in {q \in S : q[1] = r}}
<1>3. Its \subseteq Nat /\ Its # {}
  BY <1>2, Constants DEF Banks
<1>4. PICK b \in Its : \A j \in Its : b <= j
  <2> HIDE DEF Its
  <2> QED BY <1>3, LeastNatural
<1>5. PICK p \in S : p[1] = r /\ p[2] = b
  BY <1>4
<1>6. ASSUME NEW q \in S PROVE Before(p, q)
  <2>1. q[1] \in SomeRanks /\ r <= q[1]
    BY <1>2
  <2>2. r \in Nat /\ q[1] \in Nat
    BY <1>1, <2>1
  <2>3. CASE q[1] = r
    <3>1. b <= q[2]
      BY <1>4, <2>3
    <3> QED BY <1>5, <2>3, <3>1 DEF Before
  <2>4. CASE q[1] # r
    <3>1. r < q[1]
      BY <2>1, <2>2, <2>4
    <3> QED BY <1>5, <3>1 DEF Before
  <2> QED BY <2>3, <2>4
<1> QED BY <1>5, <1>6 DEF FirstBank

\* Nobody has more than MAX_CREDITS.
CreditsOK == dbus_credits \in [Cores -> 0 .. MAX_CREDITS]

LEMMA CreditedType ==
  ASSUME CreditsOK, NEW c \in Cores
  PROVE  /\ Credited(c) \in 0 .. MAX_CREDITS /\ Credited(c) \div 2 \in 0 .. MAX_CREDITS
         /\ MAX_CREDITS \in Nat
<1>1. MAX_CREDITS \in Nat /\ PROCESSOR_CLK_MULTIPLIER \in Nat
  BY FairAssumption, LoopSizes
<1>2. dbus_credits[c] \in 0 .. MAX_CREDITS
  BY DEF CreditsOK
<1>3. Credited(c) \in 0 .. MAX_CREDITS
  BY <1>1, <1>2 DEF Credited
<1>4. \A n \in 0 .. MAX_CREDITS : n \div 2 \in 0 .. MAX_CREDITS
  BY <1>1
<1> QED BY <1>1, <1>3, <1>4

LEMMA TopReadIn ==
  ASSUME UsimmInv, CreditsOK, FairReads # {}
  PROVE  TopRead \in FairReads /\ TopRead \in DOMAIN read_queue
<1>1. FairReads \subseteq DOMAIN read_queue /\ DOMAIN read_queue \subseteq Nat
  BY CoreTypes DEF FairReads, IssuableIn
<1>2. ASSUME NEW i \in FairReads PROVE Bid(i) \in 0 .. 2 * MAX_CREDITS
  <2> DEFINE n == Credited(read_queue[i].thread_id)
  <2>1. read_queue[i].thread_id \in Cores
    BY <1>1, CoreTypes
  <2>2. n \in 0 .. MAX_CREDITS /\ n \div 2 \in 0 .. MAX_CREDITS /\ MAX_CREDITS \in Nat
    BY <2>1, CreditedType
  <2>3. Bid(i) = n \/ Bid(i) = n + n \div 2
    BY DEF Bid
  <2> HIDE DEF n
  <2>4. n + n \div 2 \in 0 .. 2 * MAX_CREDITS /\ n \in 0 .. 2 * MAX_CREDITS
    BY <2>2
  <2> QED BY <2>3, <2>4
<1> DEFINE Bids == {Bid(i) : i \in FairReads}
<1>3. Bids \subseteq 0 .. 2 * MAX_CREDITS /\ Bids # {} /\ 2 * MAX_CREDITS \in Nat
  BY <1>2, FairAssumption
<1>4. PICK top \in Bids : \A other \in Bids : other <= top
  <2> HIDE DEF Bids
  <2> QED BY <1>3, LargestBelow
<1> DEFINE Tops == {i \in FairReads : Bid(i) = top}
<1>5. Tops \subseteq Nat /\ Tops # {}
  BY <1>1, <1>4
<1>6. PICK t \in Tops : \A i \in Tops : t <= i
  <2> HIDE DEF Tops
  <2> QED BY <1>5, LeastNatural
<1>7. ASSUME NEW j \in FairReads PROVE Bid(t) > Bid(j) \/ (Bid(t) = Bid(j) /\ t <= j)
  <2>1. Bid(t) = top /\ Bid(j) \in Bids /\ Bid(j) <= top
    BY <1>4, <1>6
  <2>2. CASE Bid(j) = top
    BY <1>6, <2>1, <2>2
  <2>3. CASE Bid(j) # top
    <3>1. Bid(j) \in Nat /\ top \in Nat
      BY <1>3, <1>4, <2>1
    <3> QED BY <2>1, <2>3, <3>1
  <2> QED BY <2>2, <2>3
<1>8. TopRead \in FairReads
  <2>1. t \in FairReads
    BY <1>6
  <2> HIDE DEF Tops
  <2> QED BY <1>7, <2>1 DEF TopRead
<1> QED BY <1>1, <1>8

-----------------------------------------------------------------------------
\* What the schedulers do is what Usimm allows.

\* What a scheduler does that never puts a rank to sleep.
AwakeChoice ==
  \/ \E i \in DOMAIN read_queue : IssueRead(i)
  \/ \E i \in DOMAIN write_queue : IssueWrite(i)
  \/ /\ \E r \in Ranks, b \in Banks :
          \/ \E row \in Rows : IssueActivateCommand(r, b, row)
          \/ IssuePrechargeCommand(r, b) \/ IssueAutoprecharge(r, b)
     /\ UNCHANGED <<queueVars, ROB>>
  \/ UNCHANGED <<vars, queueVars, ROB>>

\* The rest of a step of schedule().
ScheduleFrame ==
  /\ pc \in {"schedule", "autoprecharge"} /\ ~expt_done
  /\ StartFetch \/ (pc' = "autoprecharge" /\ UNCHANGED <<numc, num_fetch>>)
  /\ UNCHANGED <<prefixtable, line, lines_left, subcycle, expt_done>>

LEMMA AwakeIsAny == ASSUME AwakeChoice, ScheduleFrame PROVE AnySchedule
BY DEF AwakeChoice, ScheduleFrame, AnySchedule, SchedulerCommand

\* An auto-precharge follows a column command of the same cycle.
AutoInv ==
  pc = "autoprecharge" =>
    /\ ~expt_done /\ scheduler \in {"perf", "frfcfs"}
    /\ \E p \in Ranks \X Banks : cas_issued_current_cycle[p[1]][p[2]] # 0

LEMMA ServeAwake ==
  ASSUME UsimmInv, Ready # {}, Serve(FirstReady) \/ Serve(FirstHit)
  PROVE  AwakeChoice
<1>1. FirstReady \in DOMAIN Served /\ FirstHit \in DOMAIN Served
  BY FirstReadyIn
<1> QED BY <1>1, ServeIs DEF AwakeChoice

LEMMA NothingAwake == ASSUME Nothing PROVE AwakeChoice
BY DEF Nothing, AwakeChoice

\* The schedulers close the first bank of some set.
LEMMA CloseAwake ==
  ASSUME NEW S, S \subseteq Ranks \X Banks, S # {},
         LET p == FirstBank(S) IN IssuePrechargeCommand(p[1], p[2]),
         UNCHANGED <<queueVars, ROB>>
  PROVE  AwakeChoice
<1>1. FirstBank(S) \in Ranks \X Banks
  BY FirstBankIn
<1>2. FirstBank(S)[1] \in Ranks /\ FirstBank(S)[2] \in Banks
  BY <1>1
<1> QED BY <1>2 DEF AwakeChoice

LEMMA AutoprechargeAwake ==
  ASSUME AutoInv, Autoprecharge
  PROVE  AwakeChoice /\ ScheduleFrame /\ Accessed \in Ranks \X Banks
<1>1. /\ pc = "autoprecharge" /\ StartFetch
      /\ UNCHANGED <<queueVars, coreVars, subcycle, expt_done>>
  BY DEF Autoprecharge
<1>2. Accessed \in Ranks \X Banks
  BY <1>1 DEF AutoInv, Accessed
<1>3. Accessed[1] \in Ranks /\ Accessed[2] \in Banks
  BY <1>2
<1>4. AwakeChoice
  BY <1>1, <1>3 DEF Autoprecharge, AwakeChoice, coreVars
<1> QED BY <1>1, <1>2, <1>4 DEF ScheduleFrame, AutoInv, coreVars

LEMMA FcfsAwake == ASSUME UsimmInv, WithFcfs PROVE AwakeChoice /\ ScheduleFrame
<1>1. ScheduleFrame /\ (FcfsServe \/ FcfsIdle)
  BY DEF WithFcfs, FcfsSchedule, ScheduleStep, ScheduleThen, ScheduleFrame
<1> QED BY <1>1, ServeAwake, NothingAwake DEF FcfsServe, FcfsIdle

LEMMA CloseFirstAwake == ASSUME CloseFirst PROVE AwakeChoice
<1>1. Closable \subseteq Ranks \X Banks /\ Closable # {}
  BY DEF CloseFirst, Closable, Candidates
<1> QED BY <1>1, CloseAwake DEF CloseFirst

LEMMA MarksAwake == ASSUME UsimmInv, WithMarks PROVE AwakeChoice /\ ScheduleFrame
<1>1. ScheduleFrame
  BY DEF WithMarks, CloseSchedule, OrcwSchedule, TestSchedule, ScheduleStep, ScheduleThen,
         ScheduleFrame
<1>2. \/ Ready # {} /\ Serve(FirstReady)
      \/ CloseFirst
      \/ Nothing
  BY DEF WithMarks, CloseSchedule, OrcwSchedule, TestSchedule, ScheduleStep, ScheduleThen,
         CloseServe, OrcwServe, TestServe, NothingToClose
<1> QED BY <1>1, <1>2, ServeAwake, CloseFirstAwake, NothingAwake

LEMMA PerfAwake == ASSUME UsimmInv, AutoInv, WithPerf PROVE AwakeChoice /\ ScheduleFrame
<1>1. CASE PerfSchedule
  <2>1. ScheduleFrame
    BY <1>1 DEF PerfSchedule, ScheduleStep, ScheduleThen, ScheduleFrame, StartAutoprecharge
  <2>2. \/ Ready # {} /\ Serve(FirstHit)
        \/ PerfPrecharge
        \/ Nothing
    BY <1>1 DEF PerfSchedule, ScheduleStep, ScheduleThen, PerfServe, PerfIdle
  <2>3. PerfPrecharge => AwakeChoice
    <3>1. Prechargeable \subseteq Ranks \X Banks
      BY DEF Prechargeable
    <3> QED BY <3>1, CloseAwake DEF PerfPrecharge
  <2> QED BY <2>1, <2>2, <2>3, ServeAwake, NothingAwake
<1>2. CASE Autoprecharge
  BY <1>2, AutoprechargeAwake
<1> QED BY <1>1, <1>2 DEF WithPerf

LEMMA CloseOverdueAwake == ASSUME CloseOverdue PROVE AwakeChoice
<1>1. Overdue \subseteq Ranks \X Banks /\ Overdue # {}
  BY DEF CloseOverdue, Overdue
<1> QED BY <1>1, CloseAwake DEF CloseOverdue

LEMMA FrFcfsAwake == ASSUME UsimmInv, AutoInv, WithFrFcfs PROVE AwakeChoice /\ ScheduleFrame
<1>1. CASE FrFcfsSchedule
  <2>1. ScheduleFrame
    BY <1>1 DEF FrFcfsSchedule, ScheduleStep, ScheduleThen, ScheduleFrame, StartAutoprecharge
  <2>2. \/ Ready # {} /\ Serve(FirstHit)
        \/ CloseOverdue
        \/ Nothing
    BY <1>1 DEF FrFcfsSchedule, ScheduleStep, ScheduleThen, FrFcfsServe, FrFcfsIdle
  <2> QED BY <2>1, <2>2, ServeAwake, CloseOverdueAwake, NothingAwake
<1>2. CASE FrFcfsAutoprecharge
  BY <1>2, AutoprechargeAwake DEF FrFcfsAutoprecharge
<1> QED BY <1>1, <1>2 DEF WithFrFcfs

LEMMA FairAwake == ASSUME UsimmInv, CreditsOK, WithFair PROVE AwakeChoice /\ ScheduleFrame
<1>1. ScheduleFrame
  BY DEF WithFair, FairSchedule, ScheduleFrame
<1>2. CASE FairWrite
  <2> DEFINE S == IF WriteHits # {} THEN WriteHits ELSE FairWrites
  <2>1. S # {} /\ S \subseteq FairWrites /\ IssueWrite(FirstOf(S))
    BY <1>2 DEF FairWrite, WriteHits
  <2>2. FairWrites \subseteq DOMAIN write_queue /\ DOMAIN write_queue \subseteq Nat
    BY QueuesType DEF FairWrites, IssuableIn
  <2> HIDE DEF S
  <2>3. FirstOf(S) \in DOMAIN write_queue
    BY <2>1, <2>2, FirstOfIn
  <2> QED BY <1>1, <2>1, <2>3 DEF AwakeChoice
<1>3. CASE FairRead
  <2>1. TopRead \in DOMAIN read_queue /\ IssueRead(TopRead)
    BY <1>3, TopReadIn DEF FairRead
  <2> QED BY <1>1, <2>1 DEF AwakeChoice
<1>4. CASE FairIdle
  BY <1>1, <1>4, NothingAwake DEF FairIdle
<1> QED BY <1>2, <1>3, <1>4 DEF WithFair, FairSchedule

LEMMA StrideAwake == ASSUME UsimmInv, WithStride PROVE AwakeChoice /\ ScheduleFrame
<1>1. ScheduleFrame /\ StrideCommand
  BY DEF WithStride, StrideSchedule, ScheduleStep, ScheduleThen, ScheduleFrame
<1>2. DOMAIN read_queue \subseteq Nat /\ DOMAIN write_queue \subseteq Nat
  BY QueuesType
<1>3. CASE Ready # {} /\ Serve(FirstHit)
  BY <1>1, <1>3, ServeAwake
<1>4. CASE BypassingReads # {} /\ IssueRead(FirstOf(BypassingReads))
  <2>1. BypassingReads \subseteq DOMAIN read_queue
    BY DEF BypassingReads, IssuableIn
  <2>2. FirstOf(BypassingReads) \in DOMAIN read_queue
    BY <1>2, <1>4, <2>1, FirstOfIn
  <2> QED BY <1>1, <1>4, <2>2 DEF AwakeChoice
<1>5. CASE WritePrecharges # {} /\ IssueWrite(FirstOf(WritePrecharges))
  <2>1. WritePrecharges \subseteq DOMAIN write_queue
    BY DEF WritePrecharges, IssuableIn
  <2>2. FirstOf(WritePrecharges) \in DOMAIN write_queue
    BY <1>2, <1>5, <2>1, FirstOfIn
  <2> QED BY <1>1, <1>5, <2>2 DEF AwakeChoice
<1>6. CASE SpeculateActivate \/ SpeculatePrecharge
  BY <1>1, <1>6 DEF SpeculateActivate, SpeculatePrecharge, AwakeChoice
<1>7. CASE Nothing
  BY <1>1, <1>7, NothingAwake
<1> QED BY <1>1, <1>3, <1>4, <1>5, <1>6, <1>7 DEF StrideCommand

\* The scheduler that puts ranks to sleep.
LEMMA PwrdnIsAny == ASSUME UsimmInv, WithPwrdn PROVE AnySchedule
<1>1. ScheduleFrame /\ (ServeAndMark \/ PowerDown \/ PwrdnIdle)
  BY DEF WithPwrdn, PwrdnSchedule, ScheduleStep, ScheduleThen, ScheduleFrame
<1>2. CASE ServeAndMark
  BY <1>1, <1>2, ServeAwake, AwakeIsAny DEF ServeAndMark
<1>3. CASE PowerDown
  <2>1. PICK s \in Drowsy : IssuePowerdownCommand(s, "PRECHARGE_POWER_DOWN_FAST")
    BY <1>3 DEF PowerDown
  <2>2. s \in Ranks /\ RankStep(s)
    BY <2>1 DEF Drowsy, RankStep, PrePwrDown
  <2> QED BY <1>1, <1>3, <2>2 DEF PowerDown, ScheduleFrame, AnySchedule, SchedulerCommand
<1>4. CASE PwrdnIdle
  BY <1>1, <1>4, NothingAwake, AwakeIsAny DEF PwrdnIdle
<1> QED BY <1>1, <1>2, <1>3, <1>4

LEMMA OthersAwake ==
  ASSUME UsimmInv, AutoInv, CreditsOK, Schedule, ~WithPwrdn
  PROVE  AwakeChoice /\ ScheduleFrame
BY FcfsAwake, MarksAwake, PerfAwake, FrFcfsAwake, FairAwake, StrideAwake DEF Schedule

LEMMA ScheduleIsAny ==
  ASSUME UsimmInv, AutoInv, CreditsOK, Schedule PROVE AnySchedule
BY OthersAwake, AwakeIsAny, PwrdnIsAny

LEMMA SimulatorIsUsimm ==
  ASSUME UsimmInv, AutoInv, CreditsOK, [SimulatorNext]_simulatorVars
  PROVE  [UsimmNext]_usimmVars
<1>1. CASE Schedule
  BY <1>1, ScheduleIsAny DEF UsimmNext
<1> QED BY <1>1 DEF SimulatorNext, OtherStep, UsimmNext, simulatorVars, drainVars

-----------------------------------------------------------------------------
\* The request that is served.

LEMMA QueuedAddr ==
  ASSUME UsimmInv
  PROVE  /\ \A i \in DOMAIN read_queue : read_queue[i].addr \in Address
         /\ \A i \in DOMAIN write_queue : write_queue[i].addr \in Address
<1>1. /\ \A i \in DOMAIN read_queue : read_queue[i] \in ReadRequest
      /\ \A i \in DOMAIN write_queue : write_queue[i] \in WriteRequest
  BY QueuesType
<1> QED BY <1>1 DEF ReadRequest, WriteRequest

LEMMA ServedAddr ==
  ASSUME UsimmInv, NEW i \in DOMAIN Served
  PROVE  /\ Served[i].addr \in Address /\ Served[i].thread_id \in Cores
         /\ Served[i].addr.rank \in Ranks /\ Served[i].addr.bank \in Banks
         /\ Served[i].addr.row \in Rows
<1>1. Served[i] \in ReadRequest \/ Served[i] \in WriteRequest
  <2>1. /\ \A j \in DOMAIN read_queue : read_queue[j] \in ReadRequest
        /\ \A j \in DOMAIN write_queue : write_queue[j] \in WriteRequest
    BY QueuesType
  <2> QED BY <2>1 DEF Served
<1>2. Served[i].addr \in Address /\ Served[i].thread_id \in Cores
  BY <1>1 DEF ReadRequest, WriteRequest
<1> QED BY <1>2 DEF Address

LEMMA ServeCommand ==
  ASSUME NEW i \in DOMAIN Served, Serve(i)
  PROVE  IssueRequestCommand(Served[i].addr, Command(i))
BY DEF Serve, Served, Command, Column, IssueRead, IssueWrite

LEMMA ColumnIsAccess ==
  ASSUME NEW i \in DOMAIN Served, Serve(i), Command(i) = Column
  PROVE  \/ RequestRead(Served[i].addr.rank, Served[i].addr.bank)
         \/ RequestWrite(Served[i].addr.rank, Served[i].addr.bank)
BY ServeCommand DEF IssueRequestCommand, Column

LEMMA HitIsAccess ==
  ASSUME UsimmInv, TypeOK, Hits # {}, Serve(FirstHit)
  PROVE  \E p \in Ranks \X Banks : cas_issued_current_cycle'[p[1]][p[2]] # 0
<1>1. Ready # {} /\ FirstHit \in DOMAIN Served /\ Command(FirstHit) = Column
  BY FirstReadyIn DEF Hits
<1> DEFINE r == Served[FirstHit].addr.rank
           b == Served[FirstHit].addr.bank
<1>2. r \in Ranks /\ b \in Banks
  BY <1>1, ServedAddr
<1>3. RequestRead(r, b) \/ RequestWrite(r, b)
  BY <1>1, ColumnIsAccess
<1> HIDE DEF r, b
<1>4. cas_issued_current_cycle'[r][b] # 0
  BY <1>2, <1>3 DEF RequestRead, RequestWrite, TypeOK
<1>5. <<r, b>> \in Ranks \X Banks /\ <<r, b>>[1] = r /\ <<r, b>>[2] = b
  BY <1>2
<1> QED BY <1>4, <1>5

-----------------------------------------------------------------------------
\* The refinement.

LEMMA CreditsStep ==
  ASSUME UsimmInv, CreditsOK, [SimulatorNext]_simulatorVars PROVE CreditsOK'
<1>1. CASE UNCHANGED dbus_credits
  BY <1>1 DEF CreditsOK
<1>2. CASE WithFair
  <2>1. \A c \in Cores : /\ Credited(c) \in 0 .. MAX_CREDITS
                         /\ Credited(c) \div 2 \in 0 .. MAX_CREDITS
    BY CreditedType
  <2>2. CASE Earn
    BY <2>1, <2>2 DEF Earn, CreditsOK
  <2>3. CASE FairRead
    BY <2>1, <2>3 DEF FairRead, CreditsOK
  <2> QED BY <1>2, <2>2, <2>3 DEF WithFair, FairSchedule, FairWrite, FairIdle
<1> QED BY <1>1, <1>2 DEF SimulatorNext, Schedule, WithFcfs, WithPwrdn, WithMarks, WithPerf,
           WithFrFcfs, WithStride, policyVars, fairVars, simulatorVars

LEMMA AutoStep ==
  ASSUME UsimmInv, TypeOK, AutoInv, [SimulatorNext]_simulatorVars PROVE AutoInv'
<1> SUFFICES ASSUME pc' = "autoprecharge" PROVE AutoInv'
  BY DEF AutoInv
<1>1. CASE UNCHANGED simulatorVars
  BY <1>1 DEF AutoInv, simulatorVars, drainVars, usimmVars, vars, loopVars
<1>2. CASE /\ scheduler \in {"perf", "frfcfs"} /\ Hits # {} /\ Serve(FirstHit)
           /\ ~expt_done /\ UNCHANGED <<expt_done, scheduler>>
  BY <1>2, HitIsAccess DEF AutoInv
<1>3. CASE WithPerf /\ UNCHANGED scheduler
  BY <1>2, <1>3 DEF WithPerf, PerfSchedule, ScheduleStep, ScheduleThen, StartFetch, PerfServe,
     PerfHit, Autoprecharge
<1>4. CASE WithFrFcfs /\ UNCHANGED scheduler
  BY <1>2, <1>4 DEF WithFrFcfs, FrFcfsSchedule, ScheduleStep, ScheduleThen, StartFetch, FrFcfsServe,
     Capped, FrFcfsAutoprecharge, Autoprecharge
<1>5. ~(WithFcfs \/ WithPwrdn \/ WithMarks \/ WithFair \/ WithStride)
  BY DEF WithFcfs, WithPwrdn, WithMarks, WithFair, WithStride, FcfsSchedule, PwrdnSchedule,
     CloseSchedule, OrcwSchedule, TestSchedule, FairSchedule, StrideSchedule, ScheduleStep,
     ScheduleThen, StartFetch
<1>6. ~LoopStep
  BY DEF LoopStep, Retire, MemoryCycle, Fetch, FetchNonMemory, FetchRead, FetchWrite, FetchNothing,
     MayFetch, EnterROB, Tick, StartFetch
<1>7. CASE Stop /\ UNCHANGED <<scheduler, drain_writes, policyVars>>
  BY <1>1, <1>7 DEF Stop, simulatorVars, drainVars
<1> QED BY <1>1, <1>3, <1>4, <1>5, <1>6, <1>7 DEF SimulatorNext, Schedule, OtherStep

BaseInv == UsimmInv /\ Inv /\ AutoInv /\ CreditsOK

LEMMA BaseStep ==
  ASSUME BaseInv, [SimulatorNext]_simulatorVars
  PROVE  BaseInv' /\ [UsimmNext]_usimmVars /\ [LazyNext]_vars
<1>1. [UsimmNext]_usimmVars
  BY SimulatorIsUsimm DEF BaseInv
<1>2. [LazyNext]_vars
  BY <1>1, DramStep DEF BaseInv
<1>3. Inv'
  BY <1>2, StepInv DEF BaseInv, Next
<1> QED BY <1>1, <1>2, <1>3, UsimmStep, AutoStep, CreditsStep DEF BaseInv, Inv

LEMMA BaseInitially == SimulatorInit => BaseInv
<1> SUFFICES ASSUME SimulatorInit PROVE BaseInv
  OBVIOUS
<1>1. UsimmInit /\ Init /\ pc = "schedule"
  BY DEF SimulatorInit, DrainInit, UsimmInit
<1>2. CreditsOK
  BY FairAssumption DEF SimulatorInit, FairInit, CreditsOK
<1> QED BY <1>1, <1>2, UsimmInitially, InitInv DEF BaseInv, AutoInv

LEMMA BaseInvariance == SimulatorSpec => []BaseInv
<1>1. BaseInv /\ [SimulatorNext]_simulatorVars => BaseInv'
  BY BaseStep
<1>2. QED
  BY <1>1, BaseInitially, PTL DEF SimulatorSpec

\* Each of the schedulers of src/ does what Usimm allows a scheduler to do: it serves a
\* request whose command the controller says can be issued, issues a command of its own
\* that the controller allows, or does nothing.  The theorems about UsimmSpec, and about
\* the DRAM under it, are true of all of them.
THEOREM SchedulersAreSchedulers == SimulatorSpec => UsimmSpec
<1>1. SimulatorInit => UsimmInit
  BY DEF SimulatorInit, DrainInit
<1>2. BaseInv /\ [SimulatorNext]_simulatorVars => [UsimmNext]_usimmVars
  BY BaseStep
<1>3. QED
  BY <1>1, <1>2, BaseInvariance, PTL DEF SimulatorSpec, UsimmSpec

-----------------------------------------------------------------------------
\* The states the commands leave the banks in.

LEMMA BankTypeOf ==
  ASSUME TypeOK, NEW q \in Ranks, NEW c \in Banks PROVE dram_state[q][c] \in BankRecord
BY DEF TypeOK

\* A request that is served changes the state of its own bank, or wakes its rank.
LEMMA RequestStates ==
  ASSUME TypeOK, NEW addr \in Address, NEW command, IssueRequestCommand(addr, command),
         NEW q \in Ranks, NEW c \in Banks
  PROVE  /\ UNCHANGED refresh
         /\ IF command = "PWR_UP_CMD" /\ q = addr.rank
            THEN dram_state'[q][c].state =
                   IF dram_state[q][c].state \in PrePwrDown THEN "IDLE" ELSE "ROW_ACTIVE"
            ELSE q # addr.rank \/ c # addr.bank
                   => dram_state'[q][c].state = dram_state[q][c].state
         /\ q = addr.rank /\ c = addr.bank =>
              CASE command = "ACT_CMD" ->
                     dram_state[q][c].state \in Closed /\ dram_state'[q][c].state = "ROW_ACTIVE"
                [] command = "PRE_CMD" ->
                     dram_state[q][c].state = "ROW_ACTIVE" /\ dram_state'[q][c].state = "PRECHARGING"
                [] command \in {"COL_READ_CMD", "COL_WRITE_CMD"} ->
                     dram_state[q][c].state = "ROW_ACTIVE" /\ dram_state'[q][c].state = "ROW_ACTIVE"
                [] OTHER -> command = "PWR_UP_CMD"
<1> DEFINE r == addr.rank
           b == addr.bank
<1>1. r \in Ranks /\ b \in Banks /\ addr.row \in Rows /\ dram_state[q][c] \in BankRecord
  BY BankTypeOf DEF Address
<1>2. \A i \in Ranks : DOMAIN dram_state[i] = Banks
  BY DEF TypeOK
<1>3. DOMAIN dram_state = Ranks
  BY DEF TypeOK
<1> HIDE DEF r, b
<1>4. CASE command = "ACT_CMD" /\ RequestActivate(r, b, addr.row)
  BY <1>1, <1>3, <1>4 DEF RequestActivate, ActIssuable, Activate, ActivatedBank, State, BankRecord, r, b
<1>5. CASE command = "PRE_CMD" /\ RequestPrecharge(r, b)
  BY <1>1, <1>3, <1>5 DEF RequestPrecharge, PreIssuable, Precharge, PrechargedBank, State,
     BankRecord, r, b
<1>6. CASE command = "PWR_UP_CMD" /\ RequestPowerUp(r, b)
  BY <1>1, <1>3, <1>6 DEF RequestPowerUp, PowerUp, PoweredUpBank, BankRecord, r, b
<1>7. CASE command = "COL_READ_CMD" /\ RequestRead(r, b)
  <2>1. dram_state'[q][c].state = dram_state[q][c].state /\ UNCHANGED refresh
    BY <1>1, <1>7 DEF RequestRead, AfterRead, ColumnBank, BankRecord
  <2> QED BY <1>7, <2>1 DEF RequestRead, ReadIssuable, State, r, b
<1>8. CASE command = "COL_WRITE_CMD" /\ RequestWrite(r, b)
  <2>1. dram_state'[q][c].state = dram_state[q][c].state /\ UNCHANGED refresh
    BY <1>1, <1>8 DEF RequestWrite, AfterWrite, ColumnBank, BankRecord
  <2> QED BY <1>8, <2>1 DEF RequestWrite, WriteIssuable, State, r, b
<1> QED BY <1>4, <1>5, <1>6, <1>7, <1>8 DEF IssueRequestCommand, r, b

\* A precharge changes the state of its own bank.
LEMMA PrechargeStates ==
  ASSUME TypeOK, NEW r \in Ranks, NEW b \in Banks,
         IssuePrechargeCommand(r, b) \/ IssueAutoprecharge(r, b),
         NEW q \in Ranks, NEW c \in Banks
  PROVE  /\ UNCHANGED refresh
         /\ dram_state'[q][c].state =
              IF q = r /\ c = b THEN "PRECHARGING" ELSE dram_state[q][c].state
<1>1. dram_state[q][c] \in BankRecord /\ DOMAIN dram_state = Ranks /\ DOMAIN dram_state[q] = Banks
  BY BankTypeOf DEF TypeOK
<1>2. CASE IssuePrechargeCommand(r, b)
  BY <1>1, <1>2 DEF IssuePrechargeCommand, Precharge, PrechargedBank, BankRecord
<1>3. CASE IssueAutoprecharge(r, b)
  BY <1>1, <1>3 DEF IssueAutoprecharge, PrechargedBank, BankRecord
<1> QED BY <1>2, <1>3

\* An activate opens its own bank.
LEMMA ActivateStates ==
  ASSUME TypeOK, NEW r \in Ranks, NEW b \in Banks, NEW row \in Rows,
         IssueActivateCommand(r, b, row), NEW q \in Ranks, NEW c \in Banks
  PROVE  /\ UNCHANGED refresh
         /\ dram_state'[q][c].state =
              IF q = r /\ c = b THEN "ROW_ACTIVE" ELSE dram_state[q][c].state
<1>1. dram_state[q][c] \in BankRecord /\ DOMAIN dram_state = Ranks
  BY BankTypeOf DEF TypeOK
<1> QED BY <1>1 DEF IssueActivateCommand, Activate, ActivatedBank, BankRecord

\* Time refreshes a bank, or leaves its state alone.
LEMMA CycleStates ==
  ASSUME TypeOK, UpdateMemory, NEW q \in Ranks, NEW c \in Banks
  PROVE  dram_state'[q][c].state =
           IF AtForcedRefresh(AgedRefresh(refresh[q])) THEN "REFRESHING"
           ELSE dram_state[q][c].state
<1>1. dram_state[q][c] \in BankRecord /\ Aged(dram_state[q][c]) \in BankRecord
  BY BankTypeOf, BankTypes
<1>2. Aged(dram_state[q][c]).state = dram_state[q][c].state
  BY <1>1 DEF Aged, BankRecord
<1> QED BY <1>1, <1>2 DEF UpdateMemory, ForceRefreshedBank, BankRecord

\* The steps that are not the scheduler's.
LEMMA OtherStates ==
  ASSUME TypeOK, OtherStep \/ UNCHANGED simulatorVars, NEW q \in Ranks, NEW c \in Banks,
         dram_state[q][c].state \in {"ROW_ACTIVE", "REFRESHING"}
  PROVE  dram_state'[q][c].state \in {"ROW_ACTIVE", "REFRESHING"}
<1>1. MemoryCycle \/ UNCHANGED dram_state
  BY DEF OtherStep, LoopStep, Stop, Retire, Fetch, FetchNonMemory, FetchRead, FetchWrite,
     FetchNothing, EnterROB, Tick, simulatorVars, drainVars, usimmVars, vars
<1>2. CASE MemoryCycle
  BY <1>2, CycleStates DEF MemoryCycle
<1> QED BY <1>1, <1>2

-----------------------------------------------------------------------------
\* What the schedulers remember of the open rows.

\* The states of a bank that has a row open, or had when a refresh closed it.
OpenUnlessRefreshed == {"ROW_ACTIVE", "REFRESHING"}

\* Serving a request opens its bank, closes it, or leaves it as open as it was.
LEMMA ServeStates ==
  ASSUME UsimmInv, TypeOK, NEW i \in DOMAIN Served, Serve(i)
  PROVE  LET r == Served[i].addr.rank
             b == Served[i].addr.bank
         IN  /\ r \in Ranks /\ b \in Banks
             /\ \A q \in Ranks, c \in Banks :
                  /\ dram_state[q][c].state \in OpenUnlessRefreshed
                  /\ q # r \/ c # b \/ Command(i) \notin {"ACT_CMD", "PRE_CMD", Column}
                  => dram_state'[q][c].state \in OpenUnlessRefreshed
             /\ Command(i) = Column => dram_state'[r][b].state = "ROW_ACTIVE"
<1> DEFINE addr == Served[i].addr
<1>1. /\ addr \in Address /\ addr.rank \in Ranks /\ addr.bank \in Banks
      /\ IssueRequestCommand(addr, Command(i))
  BY ServedAddr, ServeCommand
<1> HIDE DEF addr
<1>2. ASSUME NEW q \in Ranks, NEW c \in Banks, dram_state[q][c].state \in OpenUnlessRefreshed,
             q # addr.rank \/ c # addr.bank \/ Command(i) \notin {"ACT_CMD", "PRE_CMD", Column}
      PROVE  dram_state'[q][c].state \in OpenUnlessRefreshed
  BY <1>1, <1>2, RequestStates DEF OpenUnlessRefreshed, PrePwrDown
<1>3. Command(i) = Column => dram_state'[addr.rank][addr.bank].state = "ROW_ACTIVE"
  BY <1>1, RequestStates DEF Column
<1> QED BY <1>1, <1>2, <1>3 DEF addr

\* The marks of scheduler-close.c and scheduler-test.c.
MarksInv == recent_colacc \in [Ranks -> [Banks -> BOOLEAN]] /\ CandidatesOpen

LEMMA MarkedOpen ==
  ASSUME MarksInv, scheduler \in {"close", "test"}, NEW q \in Ranks, NEW c \in Banks,
         recent_colacc[q][c]
  PROVE  dram_state[q][c].state \in OpenUnlessRefreshed
<1>1. <<q, c>> \in Candidates
  BY DEF Candidates
<1> QED BY <1>1 DEF MarksInv, CandidatesOpen, State, OpenUnlessRefreshed

\* What has to be shown of a step.
LEMMA MarksKept ==
  ASSUME recent_colacc' \in [Ranks -> [Banks -> BOOLEAN]],
         \A q \in Ranks, c \in Banks :
           recent_colacc'[q][c] => dram_state'[q][c].state \in OpenUnlessRefreshed
  PROVE  MarksInv'
BY DEF MarksInv, CandidatesOpen, Candidates, State, OpenUnlessRefreshed

LEMMA MarkType ==
  ASSUME recent_colacc \in [Ranks -> [Banks -> BOOLEAN]], NEW addr \in Address,
         NEW candidate \in BOOLEAN, Mark(addr, candidate)
  PROVE  /\ recent_colacc' \in [Ranks -> [Banks -> BOOLEAN]]
         /\ \A q \in Ranks, c \in Banks :
              recent_colacc'[q][c] =
                IF q = addr.rank /\ c = addr.bank THEN candidate ELSE recent_colacc[q][c]
BY DEF Mark, Address

LEMMA ServeMarks ==
  ASSUME UsimmInv, TypeOK, MarksInv, scheduler \in {"close", "test"},
         Ready # {}, Serve(FirstReady), NEW candidate \in BOOLEAN,
         CASE Command(FirstReady) = Column -> Mark(Served[FirstReady].addr, candidate)
           [] Command(FirstReady) \in {"ACT_CMD", "PRE_CMD"} ->
                Mark(Served[FirstReady].addr, FALSE)
           [] OTHER -> UNCHANGED recent_colacc
  PROVE  MarksInv'
<1> DEFINE i == FirstReady
           addr == Served[i].addr
<1>1. i \in DOMAIN Served /\ addr \in Address
  BY FirstReadyIn, ServedAddr
<1> HIDE DEF i
<1>2. addr.rank \in Ranks /\ addr.bank \in Banks
  BY <1>1 DEF Address
<1>3. \A q \in Ranks, c \in Banks : recent_colacc[q][c] => dram_state[q][c].state \in OpenUnlessRefreshed
  BY MarkedOpen
<1>4. /\ recent_colacc \in [Ranks -> [Banks -> BOOLEAN]]
      /\ Column \notin {"ACT_CMD", "PRE_CMD"}
  BY DEF MarksInv, Column
<1>5. \A q \in Ranks, c \in Banks :
        /\ dram_state[q][c].state \in OpenUnlessRefreshed
        /\ q # addr.rank \/ c # addr.bank \/ Command(i) \notin {"ACT_CMD", "PRE_CMD", Column}
        => dram_state'[q][c].state \in OpenUnlessRefreshed
  BY <1>1, ServeStates DEF i
<1>6. CASE Command(i) = Column
  <2>1. Serve(i) /\ Mark(addr, candidate)
    BY <1>4, <1>6 DEF i
  <2>2. dram_state'[addr.rank][addr.bank].state = "ROW_ACTIVE"
    BY <1>1, <1>6, <2>1, ServeStates
  <2>3. /\ recent_colacc' \in [Ranks -> [Banks -> BOOLEAN]]
        /\ \A q \in Ranks, c \in Banks :
             recent_colacc'[q][c] =
               IF q = addr.rank /\ c = addr.bank THEN candidate ELSE recent_colacc[q][c]
    BY <1>1, <1>4, <2>1, MarkType
  <2> HIDE DEF addr
  <2>4. \A q \in Ranks, c \in Banks :
          recent_colacc'[q][c] => dram_state'[q][c].state \in OpenUnlessRefreshed
    BY <1>3, <1>5, <2>2, <2>3 DEF OpenUnlessRefreshed
  <2> QED BY <2>3, <2>4, MarksKept
<1>7. CASE Command(i) \in {"ACT_CMD", "PRE_CMD"}
  <2>1. Mark(addr, FALSE)
    BY <1>4, <1>7 DEF i
  <2>2. /\ recent_colacc' \in [Ranks -> [Banks -> BOOLEAN]]
        /\ \A q \in Ranks, c \in Banks :
             recent_colacc'[q][c] =
               IF q = addr.rank /\ c = addr.bank THEN FALSE ELSE recent_colacc[q][c]
    BY <1>1, <1>4, <2>1, MarkType
  <2> HIDE DEF addr
  <2>3. \A q \in Ranks, c \in Banks :
          recent_colacc'[q][c] => dram_state'[q][c].state \in OpenUnlessRefreshed
    BY <1>3, <1>5, <2>2
  <2> QED BY <2>2, <2>3, MarksKept
<1>8. CASE Command(i) \notin {"ACT_CMD", "PRE_CMD", Column}
  <2>1. UNCHANGED recent_colacc
    BY <1>8 DEF i
  <2>2. \A q \in Ranks, c \in Banks :
          recent_colacc'[q][c] => dram_state'[q][c].state \in OpenUnlessRefreshed
    BY <1>3, <1>5, <1>8, <2>1
  <2> QED BY <1>4, <2>1, <2>2, MarksKept
<1> QED BY <1>6, <1>7, <1>8

LEMMA CloseFirstMarks ==
  ASSUME TypeOK, MarksInv, scheduler \in {"close", "test"}, CloseFirst PROVE MarksInv'
<1> DEFINE r == FirstBank(Closable)[1]
           b == FirstBank(Closable)[2]
<1>1. r \in Ranks /\ b \in Banks
  <2>1. Closable \subseteq Ranks \X Banks /\ Closable # {}
    BY DEF CloseFirst, Closable, Candidates
  <2>2. FirstBank(Closable) \in Ranks \X Banks
    BY <2>1, FirstBankIn
  <2> QED BY <2>2
<1>2. /\ IssuePrechargeCommand(r, b)
      /\ recent_colacc' = [recent_colacc EXCEPT ![r][b] = FALSE]
  BY DEF CloseFirst
<1> HIDE DEF r, b
<1>3. /\ recent_colacc' \in [Ranks -> [Banks -> BOOLEAN]]
      /\ \A q \in Ranks, c \in Banks :
           recent_colacc'[q][c] => recent_colacc[q][c] /\ (q # r \/ c # b)
  BY <1>1, <1>2 DEF MarksInv
<1>4. \A q \in Ranks, c \in Banks : q # r \/ c # b => dram_state'[q][c].state = dram_state[q][c].state
  BY <1>1, <1>2, PrechargeStates
<1>5. \A q \in Ranks, c \in Banks : recent_colacc[q][c] => dram_state[q][c].state \in OpenUnlessRefreshed
  BY MarkedOpen
<1> QED BY <1>3, <1>4, <1>5, MarksKept

LEMMA MarksStep ==
  ASSUME UsimmInv, TypeOK, MarksInv, [SimulatorNext]_simulatorVars PROVE MarksInv'
<1> USE DEF MarksInv
<1>1. UNCHANGED scheduler
  BY DEF SimulatorNext, simulatorVars
<1>2. CASE scheduler \in {"close", "test"}
  <2>1. CASE OtherStep /\ UNCHANGED recent_colacc
    <3>1. \A q \in Ranks, c \in Banks :
            recent_colacc'[q][c] => dram_state'[q][c].state \in OpenUnlessRefreshed
      BY <1>2, <2>1, MarkedOpen, OtherStates DEF OpenUnlessRefreshed
    <3> QED BY <2>1, <3>1, MarksKept
  <2>2. CASE UNCHANGED <<dram_state, recent_colacc>>
    BY <1>1, <2>2 DEF CandidatesOpen, Candidates, State
  <2>3. CASE WithMarks
    <3>1. \/ CloseServe \/ TestServe \/ CloseFirst
          \/ UNCHANGED <<dram_state, recent_colacc>>
      BY <1>2, <2>3 DEF WithMarks, CloseSchedule, TestSchedule, ScheduleStep, ScheduleThen,
         NothingToClose, Nothing, vars
    <3>2. CASE CloseServe
      BY <1>2, <3>2, ServeMarks DEF CloseServe, Note
    <3>3. CASE TestServe
      <4> DEFINE candidate == Served[FirstReady].thread_id # HighestPriority
      <4>1. candidate \in BOOLEAN
        OBVIOUS
      <4>2. /\ Ready # {} /\ Serve(FirstReady)
            /\ CASE Command(FirstReady) = Column -> Mark(Served[FirstReady].addr, candidate)
                 [] Command(FirstReady) \in {"ACT_CMD", "PRE_CMD"} ->
                      Mark(Served[FirstReady].addr, FALSE)
                 [] OTHER -> UNCHANGED recent_colacc
        BY <3>3 DEF TestServe
      <4> HIDE DEF candidate
      <4> QED BY <1>2, <4>1, <4>2, ServeMarks
    <3> QED BY <1>2, <2>2, <3>1, <3>2, <3>3, CloseFirstMarks
  <2>4. ~(WithFcfs \/ WithPwrdn \/ WithPerf \/ WithFrFcfs \/ WithFair \/ WithStride)
    BY <1>2 DEF WithFcfs, WithPwrdn, WithPerf, WithFrFcfs, WithFair, WithStride
  <2> QED
    BY <2>1, <2>2, <2>3, <2>4 DEF SimulatorNext, Schedule, policyVars, markVars, simulatorVars,
       drainVars, usimmVars, vars
<1>3. CASE scheduler \notin {"close", "test"}
  <2>1. recent_colacc' \in [Ranks -> [Banks -> BOOLEAN]]
    <3>1. CASE WithMarks
      <4>1. OrcwServe \/ CloseFirst \/ UNCHANGED recent_colacc
        BY <1>3, <3>1 DEF WithMarks, OrcwSchedule, ScheduleStep, ScheduleThen, NothingToClose
      <4>2. CASE OrcwServe
        <5>1. Served[FirstReady].addr \in Address
          BY <4>2, FirstReadyIn, ServedAddr DEF OrcwServe
        <5>2. \A candidate \in BOOLEAN :
                Mark(Served[FirstReady].addr, candidate)
                  => recent_colacc' \in [Ranks -> [Banks -> BOOLEAN]]
          BY <5>1, MarkType
        <5> QED BY <4>2, <5>2 DEF OrcwServe, Note
      <4>3. CASE CloseFirst
        <5>1. \A r, b : [recent_colacc EXCEPT ![r][b] = FALSE] \in [Ranks -> [Banks -> BOOLEAN]]
          OBVIOUS
        <5> QED BY <4>3, <5>1 DEF CloseFirst
      <4> QED BY <4>1, <4>2, <4>3
    <3> QED
      BY <3>1 DEF SimulatorNext, Schedule, WithFcfs, WithPwrdn, WithPerf, WithFrFcfs, WithFair,
         WithStride, policyVars, markVars, simulatorVars
  <2> QED BY <1>1, <1>3, <2>1 DEF CandidatesOpen
<1> QED BY <1>2, <1>3

\* The close-page policies that go by all column commands, of scheduler-close.c and
\* scheduler-test.c, never take for a candidate a bank that was closed by a command,
\* although they learn of the commands from their own choices alone.
THEOREM CandidatesOpenHolds == SimulatorSpec => []CandidatesOpen
<1>1. SimulatorInit => MarksInv
  BY DEF SimulatorInit, MarksInit, MarksInv, CandidatesOpen, Candidates
<1>2. BaseInv /\ MarksInv /\ [SimulatorNext]_simulatorVars => MarksInv'
  BY MarksStep DEF BaseInv, Inv
<1>3. MarksInv => CandidatesOpen
  BY DEF MarksInv
<1>4. QED
  BY <1>1, <1>2, <1>3, BaseInvariance, PTL DEF SimulatorSpec

\* The counts of scheduler-frfcfs.c, which the other schedulers leave at 0.
CountsInv ==
  /\ count_col_hits \in [Ranks -> [Banks -> Nat]]
  /\ scheduler # "frfcfs" => \A q \in Ranks, c \in Banks : count_col_hits[q][c] = 0
  /\ CountedRowsOpen

LEMMA CountedOpen ==
  ASSUME CountsInv, NEW q \in Ranks, NEW c \in Banks, count_col_hits[q][c] > 0
  PROVE  dram_state[q][c].state \in OpenUnlessRefreshed
BY DEF CountsInv, CountedRowsOpen, State, OpenUnlessRefreshed

LEMMA CountsKept ==
  ASSUME count_col_hits' \in [Ranks -> [Banks -> Nat]], scheduler' = "frfcfs",
         \A q \in Ranks, c \in Banks :
           count_col_hits'[q][c] > 0 => dram_state'[q][c].state \in OpenUnlessRefreshed
  PROVE  CountsInv'
BY DEF CountsInv, CountedRowsOpen, State, OpenUnlessRefreshed

LEMMA ServeCounts ==
  ASSUME UsimmInv, TypeOK, CountsInv, FrFcfsServe, scheduler' = "frfcfs" PROVE CountsInv'
<1> DEFINE i == FirstHit
           r == Served[i].addr.rank
           b == Served[i].addr.bank
<1>1. /\ i \in DOMAIN Served /\ Serve(i) /\ r \in Ranks /\ b \in Banks
      /\ Hits # {} => Command(i) = Column
  BY FirstReadyIn, ServedAddr DEF FrFcfsServe, Hits
<1>2. IF Hits # {}
      THEN count_col_hits' = [count_col_hits EXCEPT ![r][b] = IF @ < CAPN THEN @ + 1 ELSE @]
      ELSE count_col_hits' = [count_col_hits EXCEPT ![r][b] = 0]
  BY DEF FrFcfsServe, Uncounted
<1> HIDE DEF i
<1>3. \A q \in Ranks, c \in Banks :
        dram_state[q][c].state \in OpenUnlessRefreshed /\ (q # r \/ c # b)
          => dram_state'[q][c].state \in OpenUnlessRefreshed
  BY <1>1, ServeStates
<1>4. Hits # {} => dram_state'[r][b].state \in OpenUnlessRefreshed
  BY <1>1, ServeStates DEF OpenUnlessRefreshed
<1> HIDE DEF r, b
<1>5. count_col_hits \in [Ranks -> [Banks -> Nat]]
  BY DEF CountsInv
<1>6. count_col_hits' \in [Ranks -> [Banks -> Nat]]
  BY <1>1, <1>2, <1>5
<1>7. ASSUME NEW q \in Ranks, NEW c \in Banks, count_col_hits'[q][c] > 0
      PROVE  dram_state'[q][c].state \in OpenUnlessRefreshed
  <2>1. CASE q = r /\ c = b
    BY <1>1, <1>2, <1>4, <1>5, <1>7, <2>1
  <2>2. CASE q # r \/ c # b
    <3>1. count_col_hits[q][c] > 0
      BY <1>1, <1>2, <1>5, <1>7, <2>2
    <3> QED BY <1>3, <2>2, <3>1, CountedOpen
  <2> QED BY <2>1, <2>2
<1> QED BY <1>6, <1>7, CountsKept

LEMMA UncountedCounts ==
  ASSUME TypeOK, CountsInv, scheduler' = "frfcfs", NEW r \in Ranks, NEW b \in Banks,
         IssuePrechargeCommand(r, b) \/ IssueAutoprecharge(r, b), Uncounted(r, b)
  PROVE  CountsInv'
<1>1. /\ count_col_hits' \in [Ranks -> [Banks -> Nat]]
      /\ \A q \in Ranks, c \in Banks :
           count_col_hits'[q][c] > 0 => count_col_hits[q][c] > 0 /\ (q # r \/ c # b)
  BY DEF CountsInv, Uncounted
<1>2. \A q \in Ranks, c \in Banks : q # r \/ c # b => dram_state'[q][c].state = dram_state[q][c].state
  BY PrechargeStates
<1> QED BY <1>1, <1>2, CountedOpen, CountsKept

LEMMA CountsStep ==
  ASSUME UsimmInv, TypeOK, AutoInv, CountsInv, [SimulatorNext]_simulatorVars PROVE CountsInv'
<1>1. UNCHANGED scheduler
  BY DEF SimulatorNext, simulatorVars
<1>2. CASE scheduler # "frfcfs"
  <2>1. UNCHANGED count_col_hits
    BY <1>2 DEF SimulatorNext, Schedule, WithFcfs, WithPwrdn, WithMarks, WithPerf, WithFrFcfs,
       WithFair, WithStride, policyVars, simulatorVars
  <2> QED BY <1>1, <1>2, <2>1 DEF CountsInv, CountedRowsOpen
<1>3. CASE scheduler = "frfcfs"
  <2>1. CASE OtherStep /\ UNCHANGED count_col_hits
    <3>1. \A q \in Ranks, c \in Banks :
            count_col_hits'[q][c] > 0 => dram_state'[q][c].state \in OpenUnlessRefreshed
      BY <2>1, CountedOpen, OtherStates DEF OpenUnlessRefreshed
    <3> QED BY <1>1, <1>3, <2>1, <3>1, CountsKept DEF CountsInv
  <2>2. CASE UNCHANGED <<dram_state, count_col_hits>>
    BY <1>1, <2>2 DEF CountsInv, CountedRowsOpen, State
  <2>3. CASE FrFcfsServe
    BY <1>1, <1>3, <2>3, ServeCounts
  <2>4. CASE CloseOverdue
    <3>1. Overdue \subseteq Ranks \X Banks /\ Overdue # {}
      BY <2>4 DEF CloseOverdue, Overdue
    <3>2. FirstBank(Overdue) \in Ranks \X Banks
      BY <3>1, FirstBankIn
    <3>3. FirstBank(Overdue)[1] \in Ranks /\ FirstBank(Overdue)[2] \in Banks
      BY <3>2
    <3> QED BY <1>1, <1>3, <2>4, <3>3, UncountedCounts DEF CloseOverdue
  <2>5. CASE FrFcfsAutoprecharge
    <3>1. Accessed \in Ranks \X Banks
      BY <2>5, AutoprechargeAwake DEF FrFcfsAutoprecharge
    <3>2. Accessed[1] \in Ranks /\ Accessed[2] \in Banks
      BY <3>1
    <3>3. CASE IsAutoprechargeAllowed(Accessed[1], Accessed[2])
      BY <1>1, <1>3, <2>5, <3>2, <3>3, UncountedCounts DEF FrFcfsAutoprecharge, Autoprecharge
    <3>4. CASE ~IsAutoprechargeAllowed(Accessed[1], Accessed[2])
      BY <2>2, <2>5, <3>4 DEF FrFcfsAutoprecharge, Autoprecharge, vars
    <3> QED BY <3>3, <3>4
  <2>6. ~(WithFcfs \/ WithPwrdn \/ WithMarks \/ WithPerf \/ WithFair \/ WithStride)
    BY <1>3 DEF WithFcfs, WithPwrdn, WithMarks, WithPerf, WithFair, WithStride
  <2>7. CASE WithFrFcfs
    BY <2>2, <2>3, <2>4, <2>5, <2>7 DEF WithFrFcfs, FrFcfsSchedule, ScheduleStep, ScheduleThen,
       FrFcfsIdle, Nothing, vars
  <2> QED
    BY <2>1, <2>2, <2>6, <2>7 DEF SimulatorNext, Schedule, policyVars, simulatorVars, drainVars,
       usimmVars, vars
<1> QED BY <1>2, <1>3

\* FR-FCFS counts the column commands of the row that is open: whenever a row is closed
\* other than by a refresh, its count goes back to 0, so that the next row of the bank is
\* not closed before its time.
THEOREM CountedRowsOpenHolds == SimulatorSpec => []CountedRowsOpen
<1>1. SimulatorInit => CountsInv
  BY DEF SimulatorInit, HitsInit, CountsInv, CountedRowsOpen
<1>2. BaseInv /\ CountsInv /\ [SimulatorNext]_simulatorVars => CountsInv'
  BY CountsStep DEF BaseInv, Inv
<1>3. CountsInv => CountedRowsOpen
  BY DEF CountsInv
<1>4. QED
  BY <1>1, <1>2, <1>3, BaseInvariance, PTL DEF SimulatorSpec

-----------------------------------------------------------------------------
\* The position in the read queue that scheduler-stride.c keeps.

\* Its step leaves at least as many reads in the queue, served or not, as are unserved.
LEMMA StridePosition ==
  ASSUME UsimmInv, StrideSchedule PROVE prev_rqsize' >= Cardinality(Unserved')
<1> DEFINE n == Len(read_queue)
<1>1. n \in Nat /\ DOMAIN read_queue = 1 .. n
  BY QueuesType
<1>2. DOMAIN read_queue' = 1 .. n
  BY <1>1 DEF StrideSchedule, ScheduleStep, ScheduleThen, StrideCommand, Serve, IssueRead, IssueWrite,
     SpeculateActivate, SpeculatePrecharge, Nothing, queueVars
<1>3. Unserved' \subseteq 1 .. n
  BY <1>2 DEF Unserved
<1>4. IsFiniteSet(1 .. n) /\ Cardinality(1 .. n) = n
  <2> HIDE DEF n
  <2>1. 1 \in Int /\ n \in Int
    BY <1>1
  <2>2. IsFiniteSet(1 .. n) /\ Cardinality(1 .. n) = IF 1 > n THEN 0 ELSE n - 1 + 1
    BY <2>1, FS_Interval, Zenon
  <2> QED BY <1>1, <2>2
<1>5. CASE Counted
  <2>1. FirstHit \in DOMAIN read_queue /\ Command(FirstHit) = "COL_READ_CMD" /\ Ready # {}
    BY <1>5, FirstReadyIn DEF Counted, Hits, Served, Column
  <2>2. IssueRead(FirstHit)
    BY <1>5, <2>1 DEF StrideSchedule, ScheduleStep, ScheduleThen, StrideCommand, Counted, Serve,
       SpeculateActivate, SpeculatePrecharge, LeftOver
  <2>3. read_queue' = [read_queue EXCEPT ![FirstHit].request_served = TRUE]
    BY <1>5, <2>1, <2>2 DEF IssueRead, Command, Served, Column, Counted
  <2>4. read_queue[FirstHit] \in ReadRequest
    BY <2>1, QueuesType
  <2>5. read_queue'[FirstHit].request_served
    BY <2>1, <2>3, <2>4 DEF ReadRequest
  <2>6. Unserved' \subseteq (1 .. n) \ {FirstHit}
    BY <1>3, <2>5 DEF Unserved
  <2>7. /\ IsFiniteSet((1 .. n) \ {FirstHit})
        /\ Cardinality((1 .. n) \ {FirstHit}) = n - 1
    <3>1. FirstHit \in 1 .. n
      BY <1>1, <2>1
    <3>2. Cardinality((1 .. n) \ {FirstHit}) =
            IF FirstHit \in 1 .. n THEN Cardinality(1 .. n) - 1 ELSE Cardinality(1 .. n)
      BY <1>4, FS_RemoveElement, Zenon
    <3>3. IsFiniteSet((1 .. n) \ {FirstHit})
      BY <1>4, FS_RemoveElement, Zenon
    <3> QED BY <1>4, <3>1, <3>2, <3>3
  <2>8. Cardinality(Unserved') <= Cardinality((1 .. n) \ {FirstHit})
    <3>1. Unserved' \in SUBSET ((1 .. n) \ {FirstHit})
      BY <2>6
    <3> QED BY <2>7, <3>1, FS_Subset, Zenon
  <2> QED BY <1>1, <1>5, <2>7, <2>8 DEF StrideSchedule
<1>6. CASE ~Counted
  <2>1. Cardinality(Unserved') <= n
    BY <1>3, <1>4, FS_Subset
  <2> QED BY <1>1, <1>6, <2>1 DEF StrideSchedule
<1> QED BY <1>5, <1>6

\* No read is pushed a second time: after each schedule(), the position from which on
\* reads count as new is past all the reads that are left to be served.
THEOREM NeverPushedTwiceHolds == SimulatorSpec => NeverPushedTwice
<1>1. BaseInv /\ [SimulatorNext]_simulatorVars =>
        [scheduler = "stride" /\ pc = "schedule" =>
           prev_rqsize' >= Cardinality(Unserved')]_simulatorVars
  <2> SUFFICES ASSUME BaseInv, SimulatorNext, ~UNCHANGED simulatorVars,
                      scheduler = "stride", pc = "schedule"
               PROVE  prev_rqsize' >= Cardinality(Unserved')
    OBVIOUS
  <2>1. ~LoopStep
    BY DEF LoopStep, Retire, MemoryCycle, Fetch, FetchNonMemory, FetchRead, FetchWrite,
       FetchNothing, MayFetch, Tick
  <2>2. ~(OtherStep /\ UNCHANGED policyVars /\ UNCHANGED scheduler)
    BY <2>1 DEF OtherStep, Stop, simulatorVars, drainVars
  <2>3. StrideSchedule
    BY <2>2 DEF SimulatorNext, Schedule, WithFcfs, WithPwrdn, WithMarks, WithPerf, WithFrFcfs,
       WithFair, WithStride
  <2> QED BY <2>3, StridePosition DEF BaseInv
<1>2. QED
  BY <1>1, BaseInvariance, PTL DEF SimulatorSpec, NeverPushedTwice

-----------------------------------------------------------------------------
\* The ranks that scheduler-pwrdn.c believes asleep.

Sleeps(q) == dram_state[q][0].state \in PoweredDown

\* What pwrdn says before schedule(), corrected by the clock, and after it.
MarksAgree ==
  \A q \in Ranks : /\ Sleeps(q) => Marked(q)
                   /\ Marked(q) => Sleeps(q) \/ refresh[q].forced
FlagsAgree ==
  \A q \in Ranks : /\ Sleeps(q) => pwrdn[q]
                   /\ pwrdn[q] => Sleeps(q) \/ refresh[q].forced

\* With the other schedulers no rank sleeps at all.
SleepInv ==
  /\ pwrdn \in [Ranks -> BOOLEAN]
  /\ refresh[0].completion_deadline <= RefreshWindow
  /\ IF scheduler = "pwrdn"
     THEN IF pc = "schedule" THEN MarksAgree ELSE FlagsAgree
     ELSE \A q \in Ranks : ~Sleeps(q) /\ ~pwrdn[q]

LEMMA ZeroIn == 0 \in Ranks /\ 0 \in Banks
BY Constants

\* No command of the scheduler, refreshes excluded, touches the bookkeeping of refreshes.
LEMMA CommandKeepsRefresh ==
  ASSUME NEW r \in Ranks, RankStep(r) \/ \E b \in Banks : BankStep(r, b)
  PROVE  UNCHANGED refresh
<1>1. ASSUME NEW b \in Banks, BankStep(r, b) PROVE UNCHANGED refresh
  BY <1>1 DEF BankStep, RequestActivate, RequestRead, RequestWrite, RequestPrecharge, RequestPowerUp,
     IssueActivateCommand, IssuePrechargeCommand, IssueAutoprecharge, Activate, Precharge, PowerUp
<1>2. RankStep(r) => UNCHANGED refresh
  BY DEF RankStep, IssueAllBankPrechargeCommand, IssuePowerupCommand, IssuePowerdownCommand,
     Precharge, PowerUp
<1> QED BY <1>1, <1>2

LEMMA ChoiceKeepsRefresh == ASSUME UsimmInv, AnySchedule PROVE UNCHANGED refresh
<1>1. ASSUME NEW i \in DOMAIN read_queue, IssueRead(i) PROVE UNCHANGED refresh
  <2>1. read_queue[i].addr \in Address
    BY QueuedAddr
  <2> QED BY <1>1, <2>1, RequestStep, CommandKeepsRefresh DEF IssueRead
<1>2. ASSUME NEW i \in DOMAIN write_queue, IssueWrite(i) PROVE UNCHANGED refresh
  <2>1. write_queue[i].addr \in Address
    BY QueuedAddr
  <2> QED BY <1>2, <2>1, RequestStep, CommandKeepsRefresh DEF IssueWrite
<1>3. ASSUME NEW r \in Ranks, SchedulerCommand(r) PROVE UNCHANGED refresh
  BY <1>3, CommandKeepsRefresh DEF SchedulerCommand, BankStep
<1> QED BY <1>1, <1>2, <1>3 DEF AnySchedule, vars

\* A rank that is awake stays so unless it is put to sleep.
LEMMA AwakeRequest ==
  ASSUME TypeOK, NEW addr \in Address, NEW command, IssueRequestCommand(addr, command),
         NEW q \in Ranks, ~Sleeps(q)
  PROVE  ~Sleeps(q)'
<1>1. addr.rank \in Ranks /\ addr.bank \in Banks
  BY DEF Address
<1> QED BY <1>1, ZeroIn, RequestStates DEF Sleeps, PoweredDown, PrePwrDown

LEMMA StaysAwake ==
  ASSUME UsimmInv, TypeOK, AwakeChoice, NEW q \in Ranks, ~Sleeps(q)
  PROVE  ~Sleeps(q)'
<1>1. ASSUME NEW i \in DOMAIN read_queue, IssueRead(i) PROVE ~Sleeps(q)'
  <2>1. read_queue[i].addr \in Address
    BY QueuedAddr
  <2> QED BY <1>1, <2>1, AwakeRequest DEF IssueRead
<1>2. ASSUME NEW i \in DOMAIN write_queue, IssueWrite(i) PROVE ~Sleeps(q)'
  <2>1. write_queue[i].addr \in Address
    BY QueuedAddr
  <2> QED BY <1>2, <2>1, AwakeRequest DEF IssueWrite
<1>3. ASSUME NEW r \in Ranks, NEW b \in Banks,
             \/ \E row \in Rows : IssueActivateCommand(r, b, row)
             \/ IssuePrechargeCommand(r, b) \/ IssueAutoprecharge(r, b)
      PROVE  ~Sleeps(q)'
  <2>1. dram_state'[q][0].state \in {"ROW_ACTIVE", "PRECHARGING", dram_state[q][0].state}
    BY <1>3, ZeroIn, ActivateStates, PrechargeStates
  <2> QED BY <2>1 DEF Sleeps, PoweredDown, PrePwrDown
<1>4. CASE UNCHANGED dram_state
  BY <1>4 DEF Sleeps
<1> QED BY <1>1, <1>2, <1>3, <1>4 DEF AwakeChoice, vars

\* The rank of a request that is served is awake, or wakes.
LEMMA ServeWakes ==
  ASSUME UsimmInv, StateInv, NEW i \in DOMAIN Served, Serve(i), NEW q \in Ranks
  PROVE  IF q = Served[i].addr.rank THEN ~Sleeps(q)' ELSE Sleeps(q)' = Sleeps(q)
<1> DEFINE addr == Served[i].addr
           r == addr.rank
           b == addr.bank
<1>1. addr \in Address /\ r \in Ranks /\ b \in Banks /\ IssueRequestCommand(addr, Command(i))
  BY ServedAddr, ServeCommand
<1>2. TypeOK
  BY DEF StateInv, Inv
<1> HIDE DEF addr
<1>3. CASE q # r
  BY <1>1, <1>2, <1>3, ZeroIn, RequestStates DEF Sleeps, addr
<1>4. CASE q = r /\ Command(i) = "PWR_UP_CMD"
  BY <1>1, <1>2, <1>4, ZeroIn, RequestStates DEF Sleeps, PoweredDown, PrePwrDown, addr
<1>5. CASE q = r /\ Command(i) # "PWR_UP_CMD"
  <2>1. dram_state[r][b].state \in Closed \cup {"ROW_ACTIVE"}
    BY <1>1, <1>2, <1>5, RequestStates
  <2>2. dram_state[r][b].state \notin PoweredDown
    BY <2>1 DEF Closed, PoweredDown, PrePwrDown
  <2>3. ~Sleeps(q)
    BY <1>1, <1>5, <2>2, OneRank DEF RankInv, SleepsAsOne, Sleeps
  <2> QED BY <1>1, <1>2, <1>5, <2>3, AwakeRequest DEF addr
<1> QED BY <1>3, <1>4, <1>5 DEF addr

LEMMA PowerdownSleeps ==
  ASSUME TypeOK, NEW s \in Ranks, IssuePowerdownCommand(s, "PRECHARGE_POWER_DOWN_FAST"),
         NEW q \in Ranks
  PROVE  Sleeps(q)' = (q = s \/ Sleeps(q))
<1>1. dram_state[q][0] \in BankRecord /\ DOMAIN dram_state = Ranks
  BY BankTypeOf, ZeroIn DEF TypeOK
<1>2. q # s => dram_state'[q] = dram_state[q]
  BY <1>1 DEF IssuePowerdownCommand
<1>3. q = s => dram_state'[q][0].state \in {"ACTIVE_POWER_DOWN", "PRECHARGE_POWER_DOWN_FAST"}
  BY <1>1, ZeroIn DEF IssuePowerdownCommand, PoweredDownBank, BankRecord
<1> QED BY <1>2, <1>3 DEF Sleeps, PoweredDown, PrePwrDown

\* A DRAM cycle.  The window of all ranks ends at the same time, and finds them all in
\* their forced refreshes, so awake; that is when the flags are taken back.
LEMMA CycleSleeps ==
  ASSUME StateInv, LazyInv, UpdateMemory, refresh[0].completion_deadline <= RefreshWindow,
         UNCHANGED pwrdn
  PROVE  /\ refresh'[0].completion_deadline <= RefreshWindow
         /\ \A q \in Ranks : Sleeps(q)' => Sleeps(q)
         /\ FlagsAgree => MarksAgree'
<1> DEFINE f == refresh[0]
           g == AgedRefresh(f)
<1>1. /\ f \in RefreshRecord /\ Scheduled(f) /\ f.num_issued = 0
      /\ \A q \in Ranks : refresh[q] = f
  BY ZeroIn, OneRank DEF LazyInv, DeadlinesRespected
<1>2. g = [f EXCEPT !.completion_deadline = f.completion_deadline - 1,
                    !.issue_deadline = f.issue_deadline - 1]
  BY DEF AgedRefresh
<1>3. \A q \in Ranks : refresh'[q] = UpdatedRefresh(g)
  BY <1>1 DEF UpdateMemory
<1>4. \A q \in Ranks : Sleeps(q)' <=> Sleeps(q) /\ ~AtForcedRefresh(g)
  <2> SUFFICES ASSUME NEW q \in Ranks PROVE Sleeps(q)' <=> Sleeps(q) /\ ~AtForcedRefresh(g)
    OBVIOUS
  <2>1. dram_state'[q][0].state =
          IF AtForcedRefresh(g) THEN "REFRESHING" ELSE dram_state[q][0].state
    BY <1>1, ZeroIn, CycleStates DEF StateInv, Inv
  <2> HIDE DEF g
  <2> QED BY <2>1 DEF Sleeps, PoweredDown, PrePwrDown
<1>5. \A q \in Ranks : f.forced => ~Sleeps(q)
  BY <1>1, ZeroIn, OneRank DEF RankInv, Inactive, Sleeps, PoweredDown, PrePwrDown
<1>6. f.completion_deadline = 1 => f.forced
  BY <1>1, RefreshCycle, Constants
<1> HIDE DEF f
<1>7. /\ g.completion_deadline = f.completion_deadline - 1 /\ g.forced = f.forced
      /\ g \in RefreshRecord
  <2>1. g \in RefreshRecord
    BY <1>1, RefreshCycle
  <2> HIDE DEF g
  <2> QED BY <1>1, <1>2, <2>1 DEF RefreshRecord
<1> HIDE DEF g
<1>8. RefreshWindow \in Nat /\ f.completion_deadline \in Int /\ f.completion_deadline <= RefreshWindow
  BY <1>1, WindowType DEF RefreshRecord, f
<1>9. CASE f.completion_deadline = 1
  <2>1. UpdatedRefresh(g).completion_deadline = RefreshWindow /\ ~AtForcedRefresh(g)
    BY <1>7, <1>9 DEF UpdatedRefresh, NewRefreshWindow, AtCompletion, AtForcedRefresh
  <2>2. \A q \in Ranks : ~Sleeps(q)'
    BY <1>4, <1>5, <1>6, <1>9
  <2>3. refresh'[0].completion_deadline = RefreshWindow
    BY <1>3, <2>1, ZeroIn
  <2> QED BY <1>8, <2>2, <2>3 DEF MarksAgree, Marked, AtNewWindow
<1>10. CASE f.completion_deadline # 1
  <2>1. /\ UpdatedRefresh(g).completion_deadline = f.completion_deadline - 1
        /\ UpdatedRefresh(g).forced <=> (f.forced \/ AtForcedRefresh(g))
    BY <1>7, <1>8, <1>10 DEF UpdatedRefresh, AtCompletion, AtForcedRefresh, RefreshRecord
  <2>2. refresh'[0].completion_deadline <= RefreshWindow /\ ~AtNewWindow'
    BY <1>3, <1>8, <2>1, ZeroIn DEF AtNewWindow
  <2>3. ASSUME FlagsAgree, NEW q \in Ranks
        PROVE  /\ Sleeps(q)' => pwrdn'[q]
               /\ pwrdn'[q] => Sleeps(q)' \/ refresh'[q].forced
    <3>1. refresh'[q].forced <=> (f.forced \/ AtForcedRefresh(g))
      BY <1>3, <2>1
    <3>2. refresh[q].forced = f.forced
      BY <1>1
    <3> QED BY <1>4, <2>3, <3>1, <3>2 DEF FlagsAgree
  <2>4. FlagsAgree => MarksAgree'
    BY <2>2, <2>3 DEF MarksAgree, Marked
  <2> QED BY <1>4, <2>2, <2>4
<1> QED BY <1>9, <1>10

\* What scheduler-pwrdn.c does to its flags keeps up with what it does to the ranks.
LEMMA PwrdnSleeps ==
  ASSUME UsimmInv, StateInv, WithPwrdn, MarksAgree, UNCHANGED refresh
  PROVE  FlagsAgree' /\ pwrdn' \in [Ranks -> BOOLEAN]
<1>1. ServeAndMark \/ PowerDown \/ PwrdnIdle
  BY DEF WithPwrdn, PwrdnSchedule, ScheduleStep, ScheduleThen
<1>2. CASE ServeAndMark
  <2> DEFINE rank == Served[FirstReady].addr.rank
  <2>1. pwrdn' = [r \in Ranks |-> Marked(r) /\ r # rank]
    BY <1>2 DEF ServeAndMark
  <2>2. \A q \in Ranks : IF q = rank THEN ~Sleeps(q)' ELSE Sleeps(q)' = Sleeps(q)
    BY <1>2, FirstReadyIn, ServeWakes DEF ServeAndMark
  <2> HIDE DEF rank
  <2>3. \A q \in Ranks : Sleeps(q)' \in BOOLEAN /\ Sleeps(q) \in BOOLEAN
    BY DEF Sleeps
  <2>4. \A q \in Ranks : /\ Sleeps(q)' => pwrdn'[q]
                         /\ pwrdn'[q] => Sleeps(q)' \/ refresh'[q].forced
    BY <2>1, <2>2, <2>3 DEF MarksAgree
  <2>5. pwrdn' \in [Ranks -> BOOLEAN]
    BY <2>1
  <2> QED BY <2>4, <2>5 DEF FlagsAgree
<1>3. CASE PowerDown
  <2>1. PICK s \in Drowsy :
          /\ IssuePowerdownCommand(s, "PRECHARGE_POWER_DOWN_FAST")
          /\ pwrdn' = [r \in Ranks |-> r = s \/ Marked(r)]
    BY <1>3 DEF PowerDown
  <2>2. s \in Ranks
    BY DEF Drowsy
  <2>3. \A q \in Ranks : Sleeps(q)' = (q = s \/ Sleeps(q))
    BY <2>1, <2>2, PowerdownSleeps DEF StateInv, Inv
  <2>4. \A q \in Ranks : /\ Sleeps(q)' => pwrdn'[q]
                         /\ pwrdn'[q] => Sleeps(q)' \/ refresh'[q].forced
    BY <2>1, <2>3 DEF MarksAgree
  <2>5. pwrdn' \in [Ranks -> BOOLEAN]
    BY <2>1
  <2> QED BY <2>4, <2>5 DEF FlagsAgree
<1>4. CASE PwrdnIdle
  <2>1. pwrdn' = [r \in Ranks |-> Marked(r)] /\ UNCHANGED dram_state
    BY <1>4 DEF PwrdnIdle, Nothing, vars
  <2>2. \A q \in Ranks : Sleeps(q)' = Sleeps(q)
    BY <2>1 DEF Sleeps
  <2>3. \A q \in Ranks : /\ Sleeps(q)' => pwrdn'[q]
                         /\ pwrdn'[q] => Sleeps(q)' \/ refresh'[q].forced
    BY <2>1, <2>2 DEF MarksAgree
  <2>4. pwrdn' \in [Ranks -> BOOLEAN]
    BY <2>1 DEF Marked
  <2> QED BY <2>3, <2>4 DEF FlagsAgree
<1> QED BY <1>1, <1>2, <1>3, <1>4

LEMMA SleepStep ==
  ASSUME BaseInv, StateInv, LazyInv, SleepInv, [SimulatorNext]_simulatorVars PROVE SleepInv'
<1>1. UsimmInv /\ TypeOK /\ AutoInv /\ CreditsOK /\ UNCHANGED scheduler
  BY DEF BaseInv, Inv, SimulatorNext, simulatorVars
<1>2. CASE UNCHANGED <<dram_state, refresh, pwrdn>> /\ (pc = "schedule" <=> pc' = "schedule")
  BY <1>1, <1>2 DEF SleepInv, MarksAgree, FlagsAgree, Marked, AtNewWindow, Sleeps
<1>3. CASE MemoryCycle /\ UNCHANGED pwrdn
  <2>1. pc # "schedule" /\ pc' = "schedule" /\ UpdateMemory
    BY <1>3 DEF MemoryCycle
  <2>2. /\ refresh'[0].completion_deadline <= RefreshWindow
        /\ \A q \in Ranks : Sleeps(q)' => Sleeps(q)
        /\ FlagsAgree => MarksAgree'
    BY <1>3, <2>1, CycleSleeps DEF SleepInv
  <2> QED BY <1>1, <1>3, <2>1, <2>2 DEF SleepInv
<1>4. CASE OtherStep /\ UNCHANGED <<pwrdn, scheduler>>
  <2>1. \/ MemoryCycle \/ Stop
        \/ UNCHANGED vars /\ pc # "schedule" /\ pc' # "schedule"
    <3>1. Retire => UNCHANGED vars /\ pc # "schedule" /\ pc' # "schedule"
      BY DEF Retire, StartFetch
    <3>2. Tick => UNCHANGED vars /\ pc # "schedule" /\ pc' # "schedule"
      BY DEF Tick
    <3>3. ASSUME NEW c \in Cores, FetchNothing(c)
          PROVE  UNCHANGED vars /\ pc # "schedule" /\ pc' # "schedule"
      BY <3>3 DEF FetchNothing
    <3>4. ASSUME NEW c \in Cores, FetchNonMemory(c) \/ FetchRead(c) \/ FetchWrite(c)
          PROVE  UNCHANGED vars /\ pc # "schedule" /\ pc' # "schedule"
      <4>1. MayFetch(c) /\ \E time : EnterROB(c, time)
        BY <3>4 DEF FetchNonMemory, FetchRead, FetchWrite
      <4> QED BY <4>1 DEF MayFetch, EnterROB
    <3> QED BY <1>4, <3>1, <3>2, <3>3, <3>4 DEF OtherStep, LoopStep, Fetch
  <2> QED BY <1>2, <1>3, <1>4, <2>1 DEF Stop, usimmVars, vars, loopVars
<1>5. CASE WithPwrdn
  <2>1. scheduler = "pwrdn" /\ pc = "schedule" /\ pc' = "fetch"
    BY <1>5 DEF WithPwrdn, PwrdnSchedule, ScheduleStep, ScheduleThen, StartFetch
  <2>2. UNCHANGED refresh
    BY <1>1, <1>5, PwrdnIsAny, ChoiceKeepsRefresh
  <2>3. FlagsAgree' /\ pwrdn' \in [Ranks -> BOOLEAN]
    BY <1>1, <1>5, <2>1, <2>2, PwrdnSleeps DEF SleepInv
  <2> QED BY <1>1, <2>1, <2>2, <2>3 DEF SleepInv
<1>6. CASE Schedule /\ ~WithPwrdn
  <2>1. AwakeChoice /\ ScheduleFrame
    BY <1>1, <1>6, OthersAwake
  <2>2. UNCHANGED refresh
    BY <1>1, <2>1, AwakeIsAny, ChoiceKeepsRefresh
  <2>3. scheduler # "pwrdn" /\ UNCHANGED pwrdn
    BY <1>6 DEF Schedule, WithFcfs, WithMarks, WithPerf, WithFrFcfs, WithFair, WithStride,
       policyVars, pwrdnVars
  <2>4. \A q \in Ranks : ~Sleeps(q) => ~Sleeps(q)'
    BY <1>1, <2>1, StaysAwake
  <2> QED BY <1>1, <2>2, <2>3, <2>4 DEF SleepInv
<1> QED BY <1>2, <1>4, <1>5, <1>6 DEF SimulatorNext, policyVars, pwrdnVars, simulatorVars, drainVars,
       usimmVars, vars, loopVars

LEMMA SleepInitially == SimulatorInit => SleepInv
<1> SUFFICES ASSUME SimulatorInit PROVE SleepInv
  OBVIOUS
<1>1. Init /\ PwrdnInit /\ pc = "schedule"
  BY DEF SimulatorInit, DrainInit, UsimmInit
<1>2. \A q \in Ranks : ~Sleeps(q) /\ ~pwrdn[q]
  BY <1>1, ZeroIn DEF Init, PwrdnInit, IdleBank, Sleeps, PoweredDown, PrePwrDown
<1>3. refresh[0].completion_deadline = RefreshWindow /\ RefreshWindow \in Nat
  BY <1>1, ZeroIn, WindowType DEF Init, NewRefreshWindow
<1> QED BY <1>1, <1>2, <1>3 DEF SleepInv, MarksAgree, Marked, PwrdnInit

\* scheduler-pwrdn.c keeps its own record of the ranks it has put to sleep, and corrects
\* it by the clock alone when refreshes wake them.  After every schedule() a rank that
\* sleeps is on record, and a rank on record sleeps or is being refreshed: refreshes and
\* requests together never leave a rank marked asleep that could be put to sleep again.
THEOREM SleepersMarkedHolds == SimulatorSpec => []SleepersMarked
<1>1. LazyNext => Next
  BY DEF Next
<1>2. SimulatorSpec => LazySpec
  BY SchedulersAreSchedulers, SimulatorDrivesDram
<1>3. LazySpec => Spec
  BY <1>1, PTL DEF LazySpec, Spec
<1>4. SimulatorSpec => [](StateInv /\ LazyInv)
  BY <1>2, <1>3, StateInvariance, LazyInvariance, PTL
<1>5. BaseInv /\ StateInv /\ LazyInv /\ SleepInv /\ [SimulatorNext]_simulatorVars => SleepInv'
  BY SleepStep
<1>6. SleepInv => SleepersMarked
  BY DEF SleepInv, FlagsAgree, Sleeps, SleepersMarked, State
<1>7. QED
  BY <1>4, <1>5, <1>6, SleepInitially, BaseInvariance, PTL DEF SimulatorSpec
=============================================================================
