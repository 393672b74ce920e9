----------------------------- MODULE TaskRegister -----------------------------
(***************************************************************************)
(* What the tasks service promises its clients, without transactions,      *)
(* ranks or events: every task is a register of a column and a version.  A *)
(* move is a compare-and-set on the version and takes effect at one        *)
(* instant between its request and its answer; whatever is refused has     *)
(* changed nothing; nothing else ever changes a register that exists.      *)
(***************************************************************************)
EXTENDS Integers

CONSTANTS TaskIds, Columns, BoardOf, Reqs, InitialCells,
          Bodies      \* the bodies a request can have, and their kind, task and column

VARIABLES
  cell,      \* the register of each task id, Absent when there is none
  open,      \* the columns that exist
  body,      \* what each request asks for
  expected,  \* the version a move compares with
  outcome    \* of each request: unsent, pending, applied or refused

rvars == <<cell, open, body, expected, outcome>>

Absent == [version |-> -1]

Init ==
  /\ cell = InitialCells
  /\ open = Columns
  /\ body \in Bodies
  /\ expected = [r \in Reqs |-> 0]
  /\ outcome = [r \in Reqs |-> "unsent"]

\* A request is taken up, with the version its client has seen, or refused at once.
Submit(r) ==
  /\ outcome[r] = "unsent"
  /\ \/ /\ expected'[r] \in Nat
        /\ expected' = [expected EXCEPT ![r] = expected'[r]]
        /\ outcome' = [outcome EXCEPT ![r] = "pending"]
     \/ /\ outcome' = [outcome EXCEPT ![r] = "refused"]
        /\ UNCHANGED expected
  /\ UNCHANGED <<cell, open, body>>

Refuse(r) ==
  /\ outcome[r] = "pending"
  /\ outcome' = [outcome EXCEPT ![r] = "refused"]
  /\ UNCHANGED <<cell, open, body, expected>>

Apply(r, kind) ==
  /\ outcome[r] = "pending"
  /\ body[r].kind = kind
  /\ outcome' = [outcome EXCEPT ![r] = "applied"]
  /\ UNCHANGED <<body, expected>>

\* The compare-and-set.
Move(r) ==
  /\ Apply(r, "move")
  /\ cell[body[r].task] # Absent
  /\ cell[body[r].task].version = expected[r]
  /\ body[r].column \in open
  /\ BoardOf[body[r].column] = cell[body[r].task].boardId
  /\ cell' = [cell EXCEPT ![body[r].task] =
                [boardId |-> cell[body[r].task].boardId, columnId |-> body[r].column,
                 version |-> expected[r] + 1]]
  /\ UNCHANGED open

Create(r) ==
  /\ Apply(r, "create")
  /\ cell[body[r].task] = Absent
  /\ body[r].column \in open
  /\ cell' = [cell EXCEPT ![body[r].task] =
                [boardId |-> BoardOf[body[r].column], columnId |-> body[r].column,
                 version |-> 0]]
  /\ UNCHANGED open

Edit(r) ==
  /\ Apply(r, "update")
  /\ cell[body[r].task] # Absent
  /\ UNCHANGED <<cell, open>>

Remove(r) ==
  /\ Apply(r, "remove")
  /\ cell[body[r].task] # Absent
  /\ cell' = [cell EXCEPT ![body[r].task] = Absent]
  /\ UNCHANGED open

\* A column takes its tasks with it.
RemoveColumn(r) ==
  /\ Apply(r, "removeColumn")
  /\ body[r].column \in open
  /\ open' = open \ {body[r].column}
  /\ cell' = [t \in TaskIds |->
                IF cell[t] # Absent /\ cell[t].columnId = body[r].column
                THEN Absent ELSE cell[t]]

Next ==
  \E r \in Reqs :
    \/ Submit(r) \/ Refuse(r)
    \/ Move(r) \/ Create(r) \/ Edit(r) \/ Remove(r) \/ RemoveColumn(r)

Spec == Init /\ [][Next]_rvars
=============================================================================
