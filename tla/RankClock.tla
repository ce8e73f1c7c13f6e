----------------------------- MODULE RankClock -----------------------------
(***************************************************************************)
(* What time does to a rank, as Dram has it: the refresh deadlines in      *)
(* cycles from now, the activates by their ages.  RefreshClock implements  *)
(* it with the clock and the widths of the source.                         *)
(***************************************************************************)
EXTENDS DramTiming

VARIABLES
  refresh,              \* RefreshRecord
  record,               \* the ages of the recent activates
  issued                \* whether this cycle has had its command

rankVars == <<refresh, record, issued>>

RankInit == refresh = NewRefreshWindow /\ record = {} /\ issued = FALSE

\* is_activate_allowed, but for the banks.
RankActivate ==
  /\ ~issued /\ issued' = TRUE
  /\ ~refresh.forced /\ T_RAS <= refresh.issue_deadline /\ IsFawMet(record)
  /\ record' = record \cup {0}
  /\ UNCHANGED refresh

\* is_refresh_allowed, but for the banks.
RankRefresh ==
  /\ ~issued /\ issued' = TRUE
  /\ ~refresh.forced
  /\ refresh' = [refresh EXCEPT !.num_issued = @ + 1]
  /\ UNCHANGED record

\* A command to some other rank, or of another kind.
OtherCommand == ~issued /\ issued' = TRUE /\ UNCHANGED <<refresh, record>>

RankUpdate ==
  /\ issued' = FALSE
  /\ record' = FlushActivateRecord({age + 1 : age \in record})
  /\ refresh' = UpdatedRefresh(AgedRefresh(refresh))

RankNext == RankActivate \/ RankRefresh \/ OtherCommand \/ RankUpdate

RankSpec == RankInit /\ [][RankNext]_rankVars
=============================================================================
