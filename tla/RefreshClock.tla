---------------------------- MODULE RefreshClock ----------------------------
(***************************************************************************)
(* The clock of src/memory_controller.c as it is stored: processor cycles  *)
(* counted from 0, the deadlines of a rank's refreshes as absolute cycles, *)
(* one of them in an int, and its activates in a ring of cycles.  The      *)
(* other modules keep all of this relative to the current cycle; this one  *)
(* shows that it is the same, as long as the cycles fit the int.           *)
(***************************************************************************)
EXTENDS DramTiming

CONSTANTS
  PROCESSOR_CLK_MULTIPLIER, BIG_ACTIVATION_WINDOW,
  INT_MAX,              \* the largest int
  LastCycle,            \* bound: the cycle at which the model stops
  MaxRefreshes          \* bound: refreshes of a window by the scheduler

VARIABLES
  CYCLE_VAL, next_refresh_completion_deadline, refresh_issue_deadline,
  num_issued_refreshes, forced_refresh_mode_on,
  activation_record,    \* [0 .. BIG_ACTIVATION_WINDOW - 1 -> 0 or 1]
  command_issued_current_cycle

deadlineVars ==
  <<next_refresh_completion_deadline, refresh_issue_deadline,
    num_issued_refreshes, forced_refresh_mode_on>>
clockVars == <<CYCLE_VAL, deadlineVars, activation_record, command_issued_current_cycle>>

\* configfile.h multiplies the timings.
Cycles(t) == t * PROCESSOR_CLK_MULTIPLIER

ASSUME ClockAssumption ==
  /\ PROCESSOR_CLK_MULTIPLIER \in Nat \ {0} /\ BIG_ACTIVATION_WINDOW \in Nat \ {0}
  /\ {INT_MAX, LastCycle, MaxRefreshes} \subseteq Nat

\* The ring must not come round before an entry is cleared.
ASSUME RingAssumption == BIG_ACTIVATION_WINDOW >= Cycles(T_FAW + 1)

\* The value of an int to which n is assigned.
ToInt(n) == ((n + INT_MAX + 1) % (2 * (INT_MAX + 1))) - (INT_MAX + 1)

ClockInit ==
  /\ CYCLE_VAL = 0
  /\ next_refresh_completion_deadline = Cycles(RefreshWindow)
  /\ refresh_issue_deadline = ToInt(Cycles(RefreshWindow - RefreshTail(REFRESHES)))
  /\ num_issued_refreshes = 0 /\ forced_refresh_mode_on = FALSE
  /\ activation_record = [i \in 0 .. BIG_ACTIVATION_WINDOW - 1 |-> 0]
  /\ command_issued_current_cycle = FALSE

Entry(cycle) == cycle % BIG_ACTIVATION_WINDOW

\* The loops of is_T_FAW_met, whose parameter is an int.
IsTFawMet(cycle) ==
  LET start == ToInt(cycle)
      Seen == 1 .. (IF start >= Cycles(T_FAW) THEN Cycles(T_FAW) ELSE start)
  IN  Cardinality({i \in Seen : activation_record[Entry(start - i)] = 1}) < 4

\* An activate of some bank of the rank that is ready for it.
IssueActivate ==
  /\ ~command_issued_current_cycle /\ command_issued_current_cycle' = TRUE
  /\ ~forced_refresh_mode_on
  /\ CYCLE_VAL + Cycles(T_RAS) <= refresh_issue_deadline
  /\ IsTFawMet(CYCLE_VAL)
  /\ activation_record' = [activation_record EXCEPT ![Entry(CYCLE_VAL)] = 1]
  /\ UNCHANGED <<CYCLE_VAL, deadlineVars>>

\* A refresh by the scheduler, with the banks ready; even one that is not owed.
IssueRefresh ==
  /\ ~command_issued_current_cycle /\ command_issued_current_cycle' = TRUE
  /\ ~forced_refresh_mode_on
  /\ num_issued_refreshes < MaxRefreshes
  /\ num_issued_refreshes' = num_issued_refreshes + 1
  /\ UNCHANGED <<CYCLE_VAL, next_refresh_completion_deadline, refresh_issue_deadline,
                 forced_refresh_mode_on, activation_record>>

-----------------------------------------------------------------------------
\* CYCLE_VAL++ up to the next DRAM cycle, then update_memory.

FaultyFlushed(cycle) ==                     \* one entry too few
  IF cycle < Cycles(T_FAW) + PROCESSOR_CLK_MULTIPLIER THEN {}
  ELSE {Entry(cycle - Cycles(T_FAW) - i) : i \in 1 .. PROCESSOR_CLK_MULTIPLIER - 1}

\* The entries flush_activate_record clears.
Flushed(cycle) ==
  IF cycle < Cycles(T_FAW) + PROCESSOR_CLK_MULTIPLIER THEN {}
  ELSE {Entry(cycle - Cycles(T_FAW) - i) : i \in 1 .. PROCESSOR_CLK_MULTIPLIER}

NewWindow(cycle) ==
  /\ cycle = next_refresh_completion_deadline
  /\ num_issued_refreshes' = 0 /\ forced_refresh_mode_on' = FALSE
  /\ next_refresh_completion_deadline' = cycle + Cycles(RefreshWindow)
  /\ refresh_issue_deadline' = ToInt(cycle + Cycles(RefreshWindow - RefreshTail(REFRESHES)))

ForceRefreshes(cycle) ==
  /\ cycle # next_refresh_completion_deadline
  /\ cycle = refresh_issue_deadline /\ num_issued_refreshes < REFRESHES
  /\ forced_refresh_mode_on' = TRUE
  /\ UNCHANGED <<next_refresh_completion_deadline, refresh_issue_deadline, num_issued_refreshes>>

FaultyMoveDeadline(cycle) ==                \* moves a deadline that is reached
  /\ cycle # next_refresh_completion_deadline
  /\ ~(cycle = refresh_issue_deadline /\ num_issued_refreshes < REFRESHES)
  /\ refresh_issue_deadline' =
       IF cycle <= refresh_issue_deadline
       THEN ToInt(next_refresh_completion_deadline
                  - Cycles(RefreshTail(REFRESHES - num_issued_refreshes)))
       ELSE refresh_issue_deadline
  /\ UNCHANGED <<next_refresh_completion_deadline, num_issued_refreshes, forced_refresh_mode_on>>

MoveDeadline(cycle) ==
  /\ cycle # next_refresh_completion_deadline
  /\ ~(cycle = refresh_issue_deadline /\ num_issued_refreshes < REFRESHES)
  /\ refresh_issue_deadline' =
       IF cycle < refresh_issue_deadline
       THEN ToInt(next_refresh_completion_deadline
                  - Cycles(RefreshTail(REFRESHES - num_issued_refreshes)))
       ELSE refresh_issue_deadline
  /\ UNCHANGED <<next_refresh_completion_deadline, num_issued_refreshes, forced_refresh_mode_on>>

UpdateClock ==
  LET cycle == CYCLE_VAL + PROCESSOR_CLK_MULTIPLIER
  IN  /\ cycle <= LastCycle
      /\ CYCLE_VAL' = cycle /\ command_issued_current_cycle' = FALSE
      /\ activation_record' =
           [i \in DOMAIN activation_record |->
              IF i \in Flushed(cycle) THEN 0 ELSE activation_record[i]]
      /\ NewWindow(cycle) \/ ForceRefreshes(cycle) \/ MoveDeadline(cycle)

ClockNext == IssueActivate \/ IssueRefresh \/ UpdateClock

ClockSpec == ClockInit /\ [][ClockNext]_clockVars

-----------------------------------------------------------------------------
\* Properties.

\* DRAM cycles from now to the given cycle.
FromNow(cycle) == (cycle - CYCLE_VAL) \div PROCESSOR_CLK_MULTIPLIER

Deadlines ==
  [completion_deadline |-> FromNow(next_refresh_completion_deadline),
   issue_deadline |-> FromNow(refresh_issue_deadline),
   num_issued |-> num_issued_refreshes, forced |-> forced_refresh_mode_on]

AgesInRing ==
  {age \in 0 .. T_FAW :
     Cycles(age) <= CYCLE_VAL /\ activation_record[Entry(CYCLE_VAL - Cycles(age))] = 1}

R == INSTANCE RankClock WITH
  refresh <- Deadlines, record <- AgesInRing, issued <- command_issued_current_cycle

\* No deadline the model computes exceeds the largest int.
CyclesFit == LastCycle + Cycles(RefreshWindow + MaxRefreshes * T_RFC) <= INT_MAX

\* The deadlines, one of which is assigned before it is compared with a clock that has
\* moved on, and the ring, which is cleared elsewhere than it is read, are what the rest
\* of the models take them for.
RelativeClock == R!RankSpec

\* An activate leaves no trace behind in the ring, to be found a lap later: there
\* record_activate would stop at its assertion, and is_T_FAW_met count it once more.
RingHoldsRecent ==
  \A i \in DOMAIN activation_record : activation_record[i] = 1 =>
    \E age \in 0 .. T_FAW : i = Entry(CYCLE_VAL - Cycles(age))

-----------------------------------------------------------------------------
\* What comments of the source say of it, and the code does not do.

\* "updates the dram state and schedules auto-refresh if necessary": a window ends with
\* its refreshes issued or forced, however long the simulation.
AutoRefreshGoesOn ==
  [][next_refresh_completion_deadline' # next_refresh_completion_deadline =>
       forced_refresh_mode_on \/ num_issued_refreshes >= REFRESHES]_clockVars
=============================================================================
