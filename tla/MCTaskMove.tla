----------------------------- MODULE MCTaskMove -----------------------------
(***************************************************************************)
(* Instances of TaskMove: a board with columns colA and colB, another with *)
(* column colX, three tasks, and one id for a task still to be created.    *)
(* Base 8 and Threshold 1 make the third task between neighbours re-space  *)
(* its column, and re-spaced ranks short again, as with 36 and 40.         *)
(***************************************************************************)
EXTENDS TaskMove, TLC

CONSTANTS colA, colB, colX, home, away, r1, r2, r3

MCTaskIds == 1 .. 4
MCBoardOf == (colA :> home) @@ (colB :> home) @@ (colX :> away)

Row(column, rank) ==
  [boardId |-> home, columnId |-> column, rank |-> rank, version |-> 0]

\* Nothing fits between tasks 1 and 2, or after 2, without a longer rank.
MCTable == <<Row(colA, <<5>>), Row(colA, <<6>>), Row(colB, <<3>>), NoRow>>

Body(kind, task, column, before, after, position) ==
  [kind |-> kind, task |-> task, column |-> column,
   before |-> before, after |-> after, position |-> position]

Move(task, column, before, after) == Body("move", task, column, before, after, None)

Moves ==
  <<Move(3, colA, 1, 2),
    Move(3, colA, 2, None),
    Move(1, colA, 2, 3),   \* 3 may or may not be there yet
    Body("move", 1, colB, None, None, 0),
    Body("move", 2, colA, None, None, 0),
    Body("move", 3, colA, None, None, 0)>>

Create(task, column) == Body("create", task, column, None, None, None)
Update(task) == Body("update", task, None, None, None, None)
Remove(task) == Body("remove", task, None, None, None, None)
RemoveB == Body("removeColumn", None, colB, None, None, None)

\* Two moves beside a request of another kind; and the other requests that can
\* get in each other's way.
MCWorkloads ==
  {(r1 :> Moves[m[1]]) @@ (r2 :> Moves[m[2]]) @@ (r3 :> other) :
     m \in {n \in (1 .. 6) \X (1 .. 6) : n[1] <= n[2]},
     other \in {Create(4, colA), Remove(2), RemoveB}}
  \cup {w \in [{r1, r2, r3} -> {Move(1, colX, None, None), Move(1, colB, None, 3), Create(4, colA),
                                Create(4, colB), Remove(2), Remove(3), RemoveB}] :
          /\ w[r1].kind = "move"
          /\ w[r2].kind = "create"
          /\ w[r3].kind \in {"remove", "removeColumn"}}
  \cup {(r1 :> Moves[3]) @@ (r2 :> Moves[4]) @@ (r3 :> Update(1)),
        (r1 :> Remove(2)) @@ (r2 :> Remove(2)) @@ (r3 :> Update(2)),
        (r1 :> RemoveB) @@ (r2 :> RemoveB) @@ (r3 :> Move(1, colB, None, None))}

\* Two users, neither aware of the other, put tasks 1 and 3 right after task 2; a
\* third then drops task 2 between the two.
CollisionWorkloads ==
  {(r1 :> Move(1, colA, 2, None)) @@ (r2 :> Move(3, colA, 2, None)) @@ (r3 :> Move(2, colA, 1, 3))}

\* Two moves inside column colA, each of which re-spaces it.
DeadlockTable == <<Row(colA, <<5>>), Row(colA, <<6>>), Row(colA, <<4>>), NoRow>>

DeadlockWorkloads ==
  {(r1 :> Move(1, colA, 2, None)) @@ (r2 :> Move(2, colA, 3, 1)) @@ (r3 :> Update(3))}
=============================================================================
