---------------------------- MODULE MCFcfsMerging ----------------------------
(* FcfsMerging on small instances. *)
EXTENDS FcfsMerging

At(b, row, column) ==
  CHOOSE a \in 0 .. Pow2[ADDRESS_BITS] - 1 :
    CalcDramAddr(a) = [channel |-> 0, rank |-> 0, bank |-> b, row |-> row, column |-> column]

L(gap, op, addr) == [nonmemops |-> gap, opertype |-> op, addr |-> addr]

\* Two threads of an application; two programs.
MCTraceNames == {<<"MT0", "MT">>, <<"", "">>}

\* Two rows of a bank and a row of a second one, read and written in different
\* columns: more writes than the write queue has room for.
AnyLine ==
  {L(0, "R", At(0, 1, 0)), L(0, "R", At(0, 0, 0)), L(0, "W", At(0, 0, 0)),
   L(0, "W", At(1, 1, 0)), L(1, "W", At(1, 1, 1))}

MCLines == [c \in Cores |-> [left \in 1 .. TraceLength |-> AnyLine]]
=============================================================================
