----------------------------- MODULE MCBoardSync -----------------------------
(* Two columns with a card in one of them; a third column and a second card can be *)
(* created.                                                                        *)
EXTENDS BoardSync, TLC

CONSTANTS old, new, todo, done, extra, one, two, three, four

MCInitialBoard ==
  [cols  |-> [x \in Columns |-> IF x = extra THEN Gone ELSE [title |-> Seed, rank |-> Seed]],
   cards |-> [k \in Cards |-> IF k = new THEN Gone
                              ELSE [column |-> todo, version |-> 0, text |-> Seed, rank |-> Seed]]]

Ask(kind, card, column, mine) ==
  [kind |-> kind, card |-> card, column |-> column, mine |-> mine, respaces |-> FALSE,
   undoes |-> Gone]
Respacing(call) == [call EXCEPT !.respaces = TRUE]
Undo(call, of) == [call EXCEPT !.undoes = of]

Move(x, mine) == Ask("moveTask", old, x, mine)
Edit(mine) == Ask("editTask", old, Gone, mine)
Delete(mine) == Ask("deleteTask", old, Gone, mine)
Create(x, mine) == Ask("createTask", new, x, mine)
MoveNew(x, mine) == Ask("moveTask", new, x, mine)
AddColumn(mine) == Ask("createColumn", Gone, extra, mine)
Rename(x, mine) == Ask("renameColumn", Gone, x, mine)
Shift(x, mine) == Ask("moveColumn", Gone, x, mine)
Drop(x, mine) == Ask("deleteColumn", Gone, x, mine)

Workload(x, y, z, u, n) ==
  [calls |-> (one :> x) @@ (two :> y) @@ (three :> z) @@ (four :> u), drops |-> n]

\* Never made: its card, its column is never there.
NoCard == Ask("editTask", new, Gone, TRUE)
NoColumn == Ask("renameColumn", Gone, extra, TRUE)

MCWorkloads ==
  { Workload(Move(done, TRUE), Undo(Move(todo, TRUE), one), Move(done, FALSE), NoCard, 1),
    Workload(Move(done, TRUE), Undo(Move(todo, TRUE), one), Move(todo, FALSE), Move(done, FALSE), 0),
    Workload(Move(done, TRUE), Move(todo, TRUE), Edit(FALSE), NoCard, 0),
    Workload(Move(done, TRUE), Move(todo, FALSE), Edit(FALSE), NoCard, 1),
    Workload(Move(done, TRUE), Move(todo, FALSE), Edit(TRUE), NoCard, 0),
    Workload(Edit(TRUE), Move(done, FALSE), Drop(todo, FALSE), NoCard, 1),
    Workload(Create(todo, TRUE), MoveNew(done, FALSE), Edit(FALSE), NoColumn, 1),
    Workload(Create(todo, TRUE), MoveNew(done, TRUE), Edit(FALSE), NoColumn, 0),
    Workload(AddColumn(TRUE), Move(extra, FALSE), Rename(extra, FALSE), NoCard, 1),
    Workload(Rename(todo, TRUE), Shift(todo, FALSE), Respacing(Shift(done, TRUE)), NoCard, 0),
    Workload(Drop(todo, TRUE), Move(done, FALSE), Delete(TRUE), NoCard, 0),
    Workload(AddColumn(FALSE), Create(extra, FALSE), Delete(FALSE), Edit(FALSE), 2) }
=============================================================================
