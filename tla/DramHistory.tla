----------------------------- MODULE DramHistory -----------------------------
(***************************************************************************)
(* Dram with the memory of DramProtocol as history variables: every step   *)
(* of the controller is noted exactly as the device would note it, with no *)
(* effect on what the controller does.  The device's rows and sleep modes  *)
(* are read off dram_state.  P!Spec as a property of this module says that *)
(* whatever the controller accepts from a scheduler, the device allows.    *)
(***************************************************************************)
EXTENDS Dram

\* A forced refresh shortens the waits of a bank to the end of the window, which is at
\* least a precharge and one refresh away: that has to cover what is left of a row
\* cycle once tRAS is over, and of a wake-up.
ASSUME RecoveryAssumption ==
  /\ {T_RC, T_RCD, T_RRD} \subseteq 0 .. T_RAS + RefreshTail(1)
  /\ T_XP <= RefreshTail(1)

VARIABLES since, naps, acts, bus

history == <<since, naps, acts, bus>>

OpenRows == [r \in Ranks |-> [b \in Banks |-> State(r, b) \in {"ROW_ACTIVE", "ACTIVE_POWER_DOWN"}]]

SleepMode == [r \in Ranks |->
  IF \E b \in Banks : State(r, b) = "PRECHARGE_POWER_DOWN_SLOW" THEN "slow"
  ELSE IF \E b \in Banks : State(r, b) \in PoweredDown THEN "fast" ELSE "no"]

P == INSTANCE DramProtocol WITH open <- OpenRows, asleep <- SleepMode

HInit == Init /\ P!Init

NotedBankStep(r, b) ==
  \/ \E row \in Rows : RequestActivate(r, b, row) /\ P!NoteAct(r, b)
  \/ \E row \in Rows : IssueActivateCommand(r, b, row) /\ P!NoteAct(r, b)
  \/ RequestRead(r, b) /\ P!NoteColumn(r, b, "read")
  \/ RequestWrite(r, b) /\ P!NoteColumn(r, b, "write")
  \/ RequestPrecharge(r, b) /\ P!NotePre(r, {b}, 0)
  \/ IssuePrechargeCommand(r, b) /\ P!NotePre(r, {b}, 0)
  \/ IssueAutoprecharge(r, b) /\ P!NotePre(r, {b}, StartPrecharge(r, b))
  \/ RequestPowerUp(r, b) /\ P!NoteNap(r, "wake", 0)

NotedRankStep(r) ==
  \/ IssueAllBankPrechargeCommand(r) /\ P!NotePre(r, Banks, 0)
  \/ IssuePowerupCommand(r) /\ P!NoteNap(r, "wake", 0)
  \/ \E sleep \in PrePwrDown : IssuePowerdownCommand(r, sleep) /\ P!NoteNap(r, "sleep", 0)

NotedRefresh(r) ==
  IssueRefreshCommand(r) /\ P!NoteNap(r, "refresh", RefreshLead(dram_state[r]))

NotedUpdateMemory ==
  /\ UpdateMemory
  /\ P!NoteCycle({r \in Ranks : refresh'[r].forced /\ ~refresh[r].forced},
                 [r \in Ranks |-> refresh'[r].completion_deadline])

HLazyNext ==
  \/ NotedUpdateMemory
  \/ \E r \in Ranks : NotedRankStep(r)
  \/ \E r \in Ranks : \E b \in Banks : NotedBankStep(r, b)

HNext == HLazyNext \/ \E r \in Ranks : NotedRefresh(r)

HSpec == HInit /\ [][HNext]_<<vars, history>>
HLazySpec == HInit /\ [][HLazyNext]_<<vars, history>>

-----------------------------------------------------------------------------

\* The controller implements the device's protocol: tRCD, tRP, tRAS, tRC, tRRD,
\* tFAW, tRTP, tWR, tWTR, tCCD, tRFC, tXP, tPD_MIN and the sharing of the data
\* bus hold between any two commands a scheduler gets it to issue.
Legal == P!Spec

\* A controller that does all the refreshing itself implements the stricter
\* protocol, in which forced refreshes find nothing in progress.
LegalAndQuiet == P!QuietSpec

\* params.h calls T_XP_DLL the "Power UP time slow": a rank that wakes from slow
\* power-down takes no command for T_XP_DLL cycles.
SlowExitHonoured ==
  [][\A r \in Ranks : SleepMode[r] = "slow" /\ SleepMode'[r] = "no" /\ ~UpdateMemory =>
       \A b \in Banks : dram_state'[r][b].next_act >= T_XP_DLL]_vars
=============================================================================
