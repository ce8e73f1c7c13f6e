------------------------------ MODULE Simulator ------------------------------
(***************************************************************************)
(* The simulator with each of its schedulers.  A binary is linked with one *)
(* of src/scheduler*.c, which never changes; here every behaviour has its  *)
(* own, and the variables of the others keep their initial values.         *)
(***************************************************************************)
EXTENDS Fcfs, Pwrdn, Close, HitRate, FrFcfs, Fair, Stride

CONSTANT Policies       \* the schedulers considered

ASSUME PoliciesAssumption ==
  Policies \subseteq {"fcfs", "pwrdn", "close", "orcw", "frfcfs", "perf", "test", "fair", "stride"}

VARIABLE scheduler

\* The variables of the schedulers but for drain_writes, by what is used together.
markVars == <<recent_colacc, rateVars>>
policyVars == <<pwrdnVars, markVars, count_col_hits, fairVars, strideVars>>

simulatorVars == <<drainVars, policyVars, scheduler>>

SimulatorInit ==
  /\ DrainInit
  /\ PwrdnInit /\ MarksInit /\ RatesInit /\ HitsInit /\ FairInit /\ StrideInit
  /\ scheduler \in Policies

WithFcfs ==
  scheduler = "fcfs" /\ FcfsSchedule /\ UNCHANGED policyVars

WithPwrdn ==
  /\ scheduler = "pwrdn" /\ PwrdnSchedule
  /\ UNCHANGED <<markVars, count_col_hits, fairVars, strideVars>>

WithMarks ==
  /\ \/ scheduler = "close" /\ CloseSchedule /\ UNCHANGED rateVars
     \/ scheduler = "orcw" /\ OrcwSchedule /\ UNCHANGED rateVars
     \/ scheduler = "test" /\ TestSchedule
  /\ UNCHANGED <<pwrdnVars, count_col_hits, fairVars, strideVars>>

WithPerf ==
  /\ scheduler = "perf"
  /\ PerfSchedule \/ (Autoprecharge /\ UNCHANGED rateVars)
  /\ UNCHANGED <<pwrdnVars, recent_colacc, count_col_hits, fairVars, strideVars>>

WithFrFcfs ==
  /\ scheduler = "frfcfs"
  /\ FrFcfsSchedule \/ FrFcfsAutoprecharge
  /\ UNCHANGED <<pwrdnVars, markVars, fairVars, strideVars>>

WithFair ==
  /\ scheduler = "fair" /\ FairSchedule
  /\ UNCHANGED <<pwrdnVars, markVars, count_col_hits, strideVars>>

WithStride ==
  /\ scheduler = "stride" /\ StrideSchedule
  /\ UNCHANGED <<pwrdnVars, markVars, count_col_hits, fairVars>>

Schedule ==
  WithFcfs \/ WithPwrdn \/ WithMarks \/ WithPerf \/ WithFrFcfs \/ WithFair \/ WithStride

SimulatorNext ==
  /\ Schedule \/ (OtherStep /\ UNCHANGED policyVars)
  /\ UNCHANGED scheduler

\* The loop of a single-threaded program: it always takes its next step.
SimulatorSpec ==
  SimulatorInit /\ [][SimulatorNext]_simulatorVars /\ WF_simulatorVars(SimulatorNext)

-----------------------------------------------------------------------------

\* The policies that go by all column commands take a bank for a candidate only while
\* it has an open row, unless a refresh has closed it behind their back.  They keep
\* their idea of the rows apart from the controller's.
CandidatesOpen ==
  scheduler \in {"close", "test"} =>
    \A p \in Candidates : State(p[1], p[2]) \in {"ROW_ACTIVE", "REFRESHING"}

\* FR-FCFS counts the hits of the row that is open, again but for the refreshes: a
\* count that outlives its row closes the next one before its time.
CountedRowsOpen ==
  \A r \in Ranks, b \in Banks :
    count_col_hits[r][b] > 0 => State(r, b) \in {"ROW_ACTIVE", "REFRESHING"}

\* The reads that are still to be served.
Unserved == {i \in DOMAIN read_queue : ~read_queue[i].request_served}

\* Stride keeps by hand the position where the next read will be, while served reads
\* leave the queue in front of it.  Reads that it has seen are never behind that
\* position, from where they would be pushed once more.
NeverPushedTwice ==
  [][scheduler = "stride" /\ pc = "schedule" =>
       prev_rqsize' >= Cardinality(Unserved')]_simulatorVars

-----------------------------------------------------------------------------
\* What comments of the source say of it, and the code does not do.

\* "find position in read queue where new entries start": the position is the one after
\* the reads seen and not served, so that no new read is passed over.
PositionOfNewReads ==
  [][scheduler = "stride" /\ pc = "schedule" =>
       prev_rqsize' = Cardinality(Unserved')]_simulatorVars
=============================================================================
