----------------------------- MODULE ColumnMarks -----------------------------
(***************************************************************************)
(* What the close-page schedulers share (src/scheduler-close.c, -orcw.c    *)
(* and -test.c): they mark banks as candidates for closure, and in a cycle *)
(* that issues nothing else precharge the first candidate that may be.     *)
(***************************************************************************)
EXTENDS WriteDrain

VARIABLE recent_colacc  \* [rank -> [bank -> whether it is a candidate for closure]]

MarksInit == recent_colacc = [r \in Ranks |-> [b \in Banks |-> FALSE]]

\* The request to be served next marks its bank, or unmarks it.
Mark(addr, candidate) ==
  recent_colacc' = [recent_colacc EXCEPT ![addr.rank][addr.bank] = candidate]

Candidates == {p \in Ranks \X Banks : recent_colacc[p[1]][p[2]]}
Closable == {p \in Candidates : IsPrechargeAllowed(p[1], p[2])}

CloseFirst ==
  /\ Ready = {} /\ Closable # {}
  /\ LET p == FirstBank(Closable)
     IN  /\ IssuePrechargeCommand(p[1], p[2])
         /\ recent_colacc' = [recent_colacc EXCEPT ![p[1]][p[2]] = FALSE]
  /\ UNCHANGED <<queueVars, ROB>>

NothingToClose == Ready = {} /\ Closable = {} /\ Nothing /\ UNCHANGED recent_colacc
=============================================================================
