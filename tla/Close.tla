-------------------------------- MODULE Close --------------------------------
(***************************************************************************)
(* The schedulers of src/scheduler-close.c and src/scheduler-orcw.c: first *)
(* come first served, and a bank that served a column command is closed in *)
(* an idle cycle.  The second one goes by the writes alone: reads neither  *)
(* mark a bank nor unmark it.                                              *)
(***************************************************************************)
EXTENDS ColumnMarks

\* What a request that is about to issue its command does to the mark of its bank.
FaultyNote(addr, command, column) ==        \* forgets the precharge
  CASE command = column -> Mark(addr, TRUE)
    [] command = "ACT_CMD" -> Mark(addr, FALSE)
    [] OTHER -> UNCHANGED recent_colacc

Note(addr, command, column) ==
  CASE command = column -> Mark(addr, TRUE)
    [] command \in {"ACT_CMD", "PRE_CMD"} -> Mark(addr, FALSE)
    [] OTHER -> UNCHANGED recent_colacc

CloseServe ==
  /\ Ready # {} /\ Serve(FirstReady)
  /\ Note(Served[FirstReady].addr, Command(FirstReady), Column)

OrcwServe ==
  /\ Ready # {} /\ Serve(FirstReady)
  /\ IF Draining
     THEN Note(Served[FirstReady].addr, Command(FirstReady), Column)
     ELSE UNCHANGED recent_colacc

CloseSchedule == ScheduleStep(CloseServe \/ CloseFirst \/ NothingToClose)
OrcwSchedule == ScheduleStep(OrcwServe \/ CloseFirst \/ NothingToClose)
=============================================================================
