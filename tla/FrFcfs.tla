------------------------------- MODULE FrFcfs -------------------------------
(***************************************************************************)
(* The scheduler of src/scheduler-frfcfs.c: row hits first, and a row that *)
(* has served CAPN column commands is closed, by an auto-precharge with    *)
(* the last of them or, if that was refused, in an idle cycle.             *)
(***************************************************************************)
EXTENDS WriteDrain

CONSTANT CAPN

\* [rank -> [bank -> column commands since its row was opened]], saturating at CAPN: it
\* is only compared with CAPN.
VARIABLE count_col_hits

HitsInit == count_col_hits = [r \in Ranks |-> [b \in Banks |-> 0]]

Uncounted(r, b) == count_col_hits' = [count_col_hits EXCEPT ![r][b] = 0]

FaultyFrFcfsServe ==                        \* a precharge leaves the count alone
  /\ Ready # {} /\ Serve(FirstHit)
  /\ LET r == Served[FirstHit].addr.rank
         b == Served[FirstHit].addr.bank
     IN  IF Hits # {}
         THEN count_col_hits' = [count_col_hits EXCEPT ![r][b] = IF @ < CAPN THEN @ + 1 ELSE @]
         ELSE IF Command(FirstHit) = "PRE_CMD" THEN UNCHANGED count_col_hits
         ELSE Uncounted(r, b)

FrFcfsServe ==
  /\ Ready # {} /\ Serve(FirstHit)
  /\ LET r == Served[FirstHit].addr.rank
         b == Served[FirstHit].addr.bank
     IN  IF Hits # {}
         THEN count_col_hits' = [count_col_hits EXCEPT ![r][b] = IF @ < CAPN THEN @ + 1 ELSE @]
         ELSE Uncounted(r, b)

\* The row hit of this cycle is one too many.
Capped ==
  /\ Hits # {}
  /\ LET addr == Served[FirstHit].addr
     IN  count_col_hits[addr.rank][addr.bank] + 1 >= CAPN

FrFcfsAutoprecharge ==
  /\ Autoprecharge
  /\ LET r == Accessed[1]
         b == Accessed[2]
     IN  IF IsAutoprechargeAllowed(r, b) THEN Uncounted(r, b) ELSE UNCHANGED count_col_hits

Overdue ==
  {p \in Ranks \X Banks :
     count_col_hits[p[1]][p[2]] >= CAPN /\ IsPrechargeAllowed(p[1], p[2])}

CloseOverdue ==
  /\ Ready = {} /\ Overdue # {}
  /\ LET p == FirstBank(Overdue)
     IN  IssuePrechargeCommand(p[1], p[2]) /\ Uncounted(p[1], p[2])
  /\ UNCHANGED <<queueVars, ROB>>

FrFcfsIdle == Ready = {} /\ Overdue = {} /\ Nothing /\ UNCHANGED count_col_hits

FrFcfsSchedule ==
  \/ ScheduleThen(FrFcfsServe, IF Capped THEN StartAutoprecharge ELSE StartFetch)
  \/ ScheduleStep(CloseOverdue \/ FrFcfsIdle)
=============================================================================
