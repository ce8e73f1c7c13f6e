---------------------------- MODULE DramProtocol ----------------------------
(***************************************************************************)
(* What the DRAM chips of a channel allow: the abstract specification the  *)
(* memory controller has to implement.  It knows nothing of next_<cmd>     *)
(* registers.  It remembers how long ago each kind of command was issued   *)
(* and says, with the timings as params.h names them, when the next        *)
(* command is legal.  The scheduler is not constrained in any other way.   *)
(*                                                                         *)
(* Ages are counted in DRAM cycles and stop at Horizon, beyond every bound *)
(* they are compared with.  The age of an operation that begins in the     *)
(* future (an auto-precharge, the refresh of a sleeping rank) is negative. *)
(***************************************************************************)
EXTENDS DramTiming

VARIABLES
  open,     \* [rank -> [bank -> a row is open]]
  asleep,   \* [rank -> "no", "fast" or "slow"]
  since,    \* [rank -> [bank -> ages of its last act, pre, read and write]]
  naps,     \* [rank -> ages of its last sleep, wake and refresh]
  acts,     \* [rank -> ages of its four last activates, latest first]
  bus       \* the last burst on the data bus: its rank, its kind, cycles to its end

protocolVars == <<open, asleep, since, naps, acts, bus>>

Horizon ==
  Later(T_RC, Later(T_RAS, Later(T_RCD, Later(T_RRD, Later(T_RP, Later(T_RTP,
  Later(T_CCD, Later(T_RFC, Later(T_XP_DLL, Later(T_PD_MIN, Later(WriteRecovery,
  T_CWD + T_DATA_TRANS + T_WTR)))))))))))

Longer(age) == IF age < Horizon THEN age + 1 ELSE Horizon

Init ==
  /\ open = [r \in Ranks |-> [b \in Banks |-> FALSE]]
  /\ asleep = [r \in Ranks |-> "no"]
  /\ since = [r \in Ranks |-> [b \in Banks |->
       [act |-> Horizon, pre |-> Horizon, read |-> Horizon, write |-> Horizon]]]
  /\ naps = [r \in Ranks |-> [sleep |-> Horizon, wake |-> Horizon, refresh |-> Horizon]]
  /\ acts = [r \in Ranks |-> [i \in 1 .. 4 |-> T_FAW + 1]]
  /\ bus = [rank |-> 0, kind |-> "read", busy |-> -T_RTRS]

-----------------------------------------------------------------------------
\* When a command is legal.

Ready(r) == asleep[r] = "no" /\ naps[r].wake >= T_XP /\ naps[r].refresh >= T_RFC

ActLegal(r, b) ==
  /\ Ready(r) /\ ~open[r][b]
  /\ since[r][b].act >= T_RC
  /\ since[r][b].pre >= T_RP
  /\ \A c \in Banks \ {b} : since[r][c].act >= T_RRD
  /\ acts[r][4] > T_FAW                    \* at most four in a T_FAW window

\* A burst that starts in t cycles finds the data bus free and turned around.
BusFree(r, kind, t) ==
  t >= bus.busy + (IF bus.rank # r \/ (bus.kind = "read" /\ kind = "write") THEN T_RTRS ELSE 0)

ColumnLegal(r, b, kind) ==
  /\ Ready(r) /\ open[r][b]
  /\ since[r][b].act >= T_RCD
  /\ \A c \in Banks : since[r][c][kind] >= T_CCD
  /\ BusFree(r, kind, IF kind = "read" THEN T_CAS ELSE T_CWD)
  /\ kind = "read" => \A c \in Banks : since[r][c].write >= T_CWD + T_DATA_TRANS + T_WTR

\* What a bank must have completed, delay cycles from now, before its row is closed.
ClosableIn(r, b, delay) ==
  /\ since[r][b].act + delay >= T_RAS
  /\ since[r][b].read + delay >= T_RTP
  /\ since[r][b].write + delay >= WriteRecovery

PreLegal(r, b, delay) == Ready(r) /\ ClosableIn(r, b, delay)

Settled(r, b) == since[r][b].pre >= T_RP /\ (open[r][b] => ClosableIn(r, b, 0))

SleepLegal(r, mode) ==
  /\ Ready(r)
  /\ \A b \in Banks : /\ since[r][b].pre >= T_RP
                      /\ since[r][b].act >= T_RCD
                      /\ since[r][b].read >= T_RTP
                      /\ since[r][b].write >= WriteRecovery
                      /\ mode = "slow" => ~open[r][b]

WakeLegal(r) == asleep[r] # "no" /\ naps[r].sleep >= T_PD_MIN

\* A refresh that begins lead cycles from now wakes a sleeping rank first.
RefreshLegal(r, lead) ==
  /\ naps[r].refresh >= T_RFC
  /\ IF asleep[r] = "no" THEN naps[r].wake >= T_XP
     ELSE naps[r].sleep >= T_PD_MIN /\ lead >= T_XP
  /\ \A b \in Banks : Settled(r, b)

-----------------------------------------------------------------------------
\* What the device remembers of a command.

NoteAct(r, b) ==
  /\ since' = [since EXCEPT ![r][b].act = 0]
  /\ acts' = [acts EXCEPT ![r] = [i \in 1 .. 4 |-> IF i = 1 THEN 0 ELSE acts[r][i - 1]]]
  /\ UNCHANGED <<naps, bus>>

NoteColumn(r, b, kind) ==
  /\ since' = [since EXCEPT ![r][b][kind] = 0]
  /\ bus' = [rank |-> r, kind |-> kind,
             busy |-> (IF kind = "read" THEN T_CAS ELSE T_CWD) + T_DATA_TRANS]
  /\ UNCHANGED <<naps, acts>>

NotePre(r, banks, delay) ==
  /\ since' = [since EXCEPT ![r] =
       [b \in Banks |-> IF b \in banks THEN [since[r][b] EXCEPT !.pre = -delay]
                        ELSE since[r][b]]]
  /\ UNCHANGED <<naps, acts, bus>>

NoteNap(r, kind, delay) ==
  /\ naps' = [naps EXCEPT ![r][kind] = -delay]
  /\ UNCHANGED <<since, acts, bus>>

\* One cycle; the ranks of forced start refreshes that end in length[r] cycles.
NoteCycle(forced, length) ==
  /\ since' = [r \in Ranks |-> [b \in Banks |->
       [act |-> Longer(since[r][b].act), pre |-> Longer(since[r][b].pre),
        read |-> Longer(since[r][b].read), write |-> Longer(since[r][b].write)]]]
  /\ naps' = [r \in Ranks |->
       [sleep |-> Longer(naps[r].sleep), wake |-> Longer(naps[r].wake),
        refresh |-> IF r \in forced THEN T_RFC - length[r] ELSE Longer(naps[r].refresh)]]
  /\ acts' = [r \in Ranks |-> [i \in 1 .. 4 |->
       IF acts[r][i] > T_FAW THEN acts[r][i] ELSE acts[r][i] + 1]]
  /\ bus' = [bus EXCEPT !.busy = IF @ > -T_RTRS THEN @ - 1 ELSE @]

-----------------------------------------------------------------------------

Act(r, b) ==
  /\ ActLegal(r, b) /\ NoteAct(r, b)
  /\ open' = [open EXCEPT ![r][b] = TRUE] /\ UNCHANGED asleep

Column(r, b, kind) ==
  ColumnLegal(r, b, kind) /\ NoteColumn(r, b, kind) /\ UNCHANGED <<open, asleep>>

Pre(r, banks, delay) ==
  /\ \A b \in banks : PreLegal(r, b, delay)
  /\ NotePre(r, banks, delay)
  /\ open' = [open EXCEPT ![r] = [b \in Banks |-> open[r][b] /\ b \notin banks]]
  /\ UNCHANGED asleep

Sleep(r, mode) ==
  /\ SleepLegal(r, mode) /\ NoteNap(r, "sleep", 0)
  /\ asleep' = [asleep EXCEPT ![r] = mode] /\ UNCHANGED open

Wake(r) ==
  /\ WakeLegal(r) /\ NoteNap(r, "wake", 0)
  /\ asleep' = [asleep EXCEPT ![r] = "no"] /\ UNCHANGED open

Refresh(r, lead) ==
  /\ RefreshLegal(r, lead) /\ NoteNap(r, "refresh", lead)
  /\ asleep' = [asleep EXCEPT ![r] = "no"]
  /\ open' = [open EXCEPT ![r] = [b \in Banks |-> FALSE]]

\* A cycle passes.  Some ranks may start forced refreshes, which close and wake
\* them and leave room for at least one refresh.
Cycle(forced, length) ==
  /\ \A r \in forced : length[r] >= RefreshTail(1)
  /\ NoteCycle(forced, length)
  /\ open' = [r \in Ranks |-> [b \in Banks |-> open[r][b] /\ r \notin forced]]
  /\ asleep' = [r \in Ranks |-> IF r \in forced THEN "no" ELSE asleep[r]]

\* Nothing a refresh would have to wait for is in progress on the rank.
Quiet(r) ==
  /\ naps'[r].wake >= T_XP \/ asleep[r] # "no"
  /\ asleep[r] # "no" => naps'[r].sleep >= T_PD_MIN
  /\ \A b \in Banks : /\ since'[r][b].pre >= T_RP
                      /\ open[r][b] => /\ since'[r][b].act >= T_RAS
                                       /\ since'[r][b].read >= T_RTP
                                       /\ since'[r][b].write >= WriteRecovery

Command ==
  \E r \in Ranks :
    \/ \E b \in Banks : Act(r, b) \/ Column(r, b, "read") \/ Column(r, b, "write")
    \/ \E banks \in (SUBSET Banks) \ {{}} :
         \E delay \in {-since'[r][b].pre : b \in banks} : Pre(r, banks, delay)
    \/ Sleep(r, "fast") \/ Sleep(r, "slow") \/ Wake(r)
    \/ Refresh(r, -naps'[r].refresh)

RefreshLength == [r \in Ranks |-> T_RFC - naps'[r].refresh]

AnyCycle == \E forced \in SUBSET Ranks : Cycle(forced, RefreshLength)

QuietCycle ==
  \E forced \in SUBSET Ranks : Cycle(forced, RefreshLength) /\ \A r \in forced : Quiet(r)

\* The contract of a controller that may let the scheduler refresh, and the
\* stricter one of a controller that does all the refreshing itself.
Spec == Init /\ [][Command \/ AnyCycle]_protocolVars
QuietSpec == Init /\ [][Command \/ QuietCycle]_protocolVars
=============================================================================
