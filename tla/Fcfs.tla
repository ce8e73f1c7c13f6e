-------------------------------- MODULE Fcfs --------------------------------
(***************************************************************************)
(* The simulator with the scheduler of src/scheduler.c (and of             *)
(* src/scheduler-fcfs.c, the same code): first come first served among the *)
(* requests whose command can be issued.                                   *)
(***************************************************************************)
EXTENDS WriteDrain

FcfsServe == Ready # {} /\ Serve(FirstReady)

FcfsIdle == Ready = {} /\ Nothing

FcfsSchedule == ScheduleStep(FcfsServe \/ FcfsIdle)

FcfsNext == OtherStep \/ FcfsSchedule

\* The loop of a single-threaded program: it always takes its next step.
FcfsSpec == DrainInit /\ [][FcfsNext]_drainVars /\ WF_drainVars(FcfsNext)
=============================================================================
