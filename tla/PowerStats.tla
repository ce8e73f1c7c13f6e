----------------------------- MODULE PowerStats -----------------------------
(***************************************************************************)
(* gather_stats of src/memory_controller.c: each DRAM cycle of a rank is   *)
(* booked on one line of the power statistics, after the scheduler has     *)
(* issued the cycle's command.  The counters only ever grow by the length  *)
(* of a cycle, so what is modelled is the line a rank is booked on.        *)
(***************************************************************************)
EXTENDS Dram

\* stats_time_spent_in_...; PRE_STBY is what print_stats makes of the power_up
\* cycles that are not active_standby.
GatherStats(r) ==
  CASE State(r, 0) = "PRECHARGE_POWER_DOWN_SLOW" -> "PRE_PDN_SLOW"
    [] State(r, 0) = "PRECHARGE_POWER_DOWN_FAST" -> "PRE_PDN_FAST"
    [] State(r, 0) = "ACTIVE_POWER_DOWN"         -> "ACT_PDN"
    [] OTHER -> IF \E b \in Banks : State(r, b) = "ROW_ACTIVE" THEN "ACT_STBY" ELSE "PRE_STBY"

Open(r, b) == dram_state[r][b].active_row # NoRow

\* What print_stats prints of a line: "the Rank was in Slow Power Down and all Banks were
\* Precharged", and so on.  A bank counts as active while it holds a row, which its state
\* must not contradict.
Legend(booked, r) ==
  LET InState(states) == \A b \in Banks : State(r, b) \in states
      Fast   == PoweredDown \ {"PRECHARGE_POWER_DOWN_SLOW"}
      Active == \E b \in Banks : Open(r, b)
  IN  CASE booked = "PRE_PDN_SLOW" -> InState({"PRECHARGE_POWER_DOWN_SLOW"}) /\ ~Active
        [] booked = "PRE_PDN_FAST" -> InState(Fast) /\ ~Active
        [] booked = "ACT_PDN"      -> InState(Fast) /\ Active
        [] booked = "ACT_STBY"     -> InState(PoweredUp) /\ Active
        [] OTHER                   -> InState(Closed) /\ ~Active

\* gather_stats inspects bank 0 only, and so books a rank that sleeps with a row open in
\* another bank on the wrong line of fast power-down.  That is the one way a cycle is
\* booked on a line whose legend is false.
OnlyFastPowerDownMisbooked ==
  \A r \in Ranks :
    \/ Legend(GatherStats(r), r)
    \/ GatherStats(r) = "PRE_PDN_FAST" /\ Legend("ACT_PDN", r)

-----------------------------------------------------------------------------
\* What the program prints of it, and the code does not do.

\* "cycles the Rank was in Fast Power Down and all Banks were Precharged" (print_stats),
\* and likewise for the other lines: every cycle is booked where the legend is true.
LegendHolds == \A r \in Ranks : Legend(GatherStats(r), r)
=============================================================================
