-------------------------------- MODULE Pwrdn --------------------------------
(***************************************************************************)
(* The scheduler of src/scheduler-pwrdn.c: first come first served, and a  *)
(* rank that has gone PWRN cycles without a command is put to sleep in a   *)
(* cycle that issues nothing else.  A request of a sleeping rank wakes it  *)
(* with a PWR_UP_CMD.                                                      *)
(*                                                                         *)
(* pwrdn holds the cycle a rank was put to sleep, 0 for an awake rank; it  *)
(* is a flag here.  The cycle only counts in the statistics.               *)
(***************************************************************************)
EXTENDS WriteDrain

CONSTANT PWRN           \* at least 1: the flag could not be told from cycle 0

VARIABLES
  pwrdn,                \* [rank -> whether it was put to sleep]
  timeidle              \* [rank -> cycles without a command, saturating at PWRN]

pwrdnVars == <<pwrdn, timeidle>>

PwrdnInit ==
  pwrdn = [r \in Ranks |-> FALSE] /\ timeidle = [r \in Ranks |-> 0]

\* CYCLE_VAL is a multiple of the refresh window: "Since a refresh operation wakes a
\* rank, mark the ranks as not being in power-dn mode."
AtNewWindow == refresh[0].completion_deadline = RefreshWindow

FaultyMarked(r) == pwrdn[r]                 \* forgets that the refreshes wake the rank

Marked(r) == pwrdn[r] /\ ~AtNewWindow

IdleTime(r) == IF pwrdn[r] /\ AtNewWindow THEN 0 ELSE timeidle[r]

OneMore(t) == IF t < PWRN THEN t + 1 ELSE t

\* A request is served, and its rank is awake or waking.
ServeAndMark ==
  /\ Ready # {} /\ Serve(FirstReady)
  /\ LET rank == Served[FirstReady].addr.rank
     IN  /\ pwrdn' = [r \in Ranks |-> Marked(r) /\ r # rank]
         /\ timeidle' = [r \in Ranks |->
              IF r = rank THEN OneMore(0)
              ELSE IF Marked(r) THEN IdleTime(r) ELSE OneMore(IdleTime(r))]

\* The ranks to be put to sleep; the loop over the ranks returns at the first.
Drowsy == {r \in Ranks : ~Marked(r) /\ IdleTime(r) >= PWRN /\ IsPowerdownFastAllowed(r)}

PowerDown ==
  /\ Ready = {}
  /\ \E s \in Drowsy :
       /\ \A r \in Drowsy : s <= r
       /\ IssuePowerdownCommand(s, "PRECHARGE_POWER_DOWN_FAST")
       /\ pwrdn' = [r \in Ranks |-> r = s \/ Marked(r)]
       /\ timeidle' = [r \in Ranks |->
            IF r = s THEN 0
            ELSE IF r < s /\ ~Marked(r) THEN OneMore(IdleTime(r)) ELSE IdleTime(r)]
  /\ UNCHANGED <<queueVars, ROB>>

PwrdnIdle ==
  /\ Ready = {} /\ Drowsy = {}
  /\ pwrdn' = [r \in Ranks |-> Marked(r)]
  /\ timeidle' = [r \in Ranks |-> IF Marked(r) THEN IdleTime(r) ELSE OneMore(IdleTime(r))]
  /\ Nothing

PwrdnSchedule == ScheduleStep(ServeAndMark \/ PowerDown \/ PwrdnIdle)

-----------------------------------------------------------------------------

\* The scheduler's idea of which ranks sleep, kept apart from the controller's and
\* corrected by the clock alone, is right whenever it has run, but for the ranks the
\* controller has started to refresh: a rank it wrongly takes to be asleep is never
\* put to sleep again.
SleepersMarked ==
  pc \in {"fetch", "tick", "retire"} =>
    \A r \in Ranks :
      /\ State(r, 0) \in PoweredDown => pwrdn[r]
      /\ pwrdn[r] => State(r, 0) \in PoweredDown \/ refresh[r].forced
=============================================================================
