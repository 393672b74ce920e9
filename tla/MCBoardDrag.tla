----------------------------- MODULE MCBoardDrag -----------------------------
(* Three columns, two of them with a card, and the id of a fourth one.  Base 6 and *)
(* Threshold 1: the second move into one gap re-spaces the board.                  *)
EXTENDS BoardDrag, TLC

CONSTANTS k1, k2, own1, own2, other, m1, m2, m3

ThreeColumns == <<<<1>>, <<3>>, <<4>>, Gone>>
TwoColumns == <<<<1>>, <<3>>, Gone, Gone>>
MCRows == <<<<k1>>, <<k2>>, <<>>, <<>>>>

Ask(kind, column, before, after) ==
  [kind |-> kind, column |-> column, before |-> before, after |-> after, position |-> None]
MoveTo(column, position) == [Ask("move", column, None, None) EXCEPT !.position = position]

Workload(columns, request, n, moves) ==
  [cols |-> columns, ask |-> request, remote |-> n, moves |-> moves]

\* Column moves beside another's request; card moves with an Undo; both; and a card's move
\* beside others' changes.
MCWorkloads ==
  {Workload(ThreeColumns, Ask("rename", 1, None, None), 0, {own1, own2}),
   Workload(ThreeColumns, Ask("remove", 2, None, None), 0, {own1, own2}),
   Workload(ThreeColumns, Ask("create", 4, None, None), 0, {own1}),
   Workload(ThreeColumns, Ask("move", 3, 1, 2), 0, {own1}),
   Workload(ThreeColumns, MoveTo(1, 1), 0, {own1}),
   Workload(TwoColumns, NoAsk, 0, {m1, m2, m3}),
   Workload(TwoColumns, NoAsk, 0, {own1, m1, m2}),
   Workload(TwoColumns, Ask("remove", 2, None, None), 1, {m1})}
=============================================================================
