---------------------------- MODULE MCSimulator ----------------------------
(* Simulator on small instances. *)
EXTENDS Simulator

At(r, b, row, column) ==
  CHOOSE a \in 0 .. Pow2[ADDRESS_BITS] - 1 :
    CalcDramAddr(a) = [channel |-> 0, rank |-> r, bank |-> b, row |-> row, column |-> column]

L(gap, op, addr) == [nonmemops |-> gap, opertype |-> op, addr |-> addr]

\* Two threads of an application.
MCTraceNames == {<<"MT0", "MT">>}

\* Reads and writes of two rows of bank 0 by both cores, a row of a second bank, and
\* writes to the other rank after gaps that let rows be closed and ranks sleep.  The
\* sequences are by the number of lines left, so the first line comes last.
MCLines ==
  <<<<{L(0, "R", At(0, 0, 0, 1)), L(2, "W", At(1, 1, 0, 0))},
      {L(0, "R", At(0, 0, 1, 1)), L(0, "W", At(1, 1, 1, 0))},
      {L(0, "R", At(0, 1, 1, 0)), L(0, "W", At(0, 0, 0, 1))}>>,
    <<{L(0, "R", At(0, 0, 0, 0)), L(1, "W", At(1, 1, 1, 0))},
      {L(0, "R", At(0, 0, 1, 0)), L(0, "W", At(0, 1, 0, 0))},
      {L(0, "R", At(0, 0, 0, 0)), L(0, "W", At(0, 0, 1, 0))}>>>>

\* A write on its own; and when it is done, reads and writes at once.
MCLateLines ==
  <<<<{L(0, "W", At(0, 1, 0, 0))}, {L(20, "R", At(0, 0, 1, 1))}, {L(0, "W", At(0, 0, 0, 1))}>>,
    <<{L(0, "R", At(0, 0, 1, 0))}, {L(0, "W", At(0, 0, 0, 0))}, {L(20, "R", At(0, 0, 0, 1))}>>>>
=============================================================================
