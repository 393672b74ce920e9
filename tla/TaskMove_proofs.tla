--------------------------- MODULE TaskMove_proofs ---------------------------
(***************************************************************************)
(* Proofs about the task rows and their requests, for every set of         *)
(* requests, columns and tasks, and every alphabet and threshold: first    *)
(* the rows and the locks, then that the task service implements its       *)
(* registers -- the initial states map to initial states, and every step   *)
(* to a step of one request or a stutter -- and, from the same invariant,  *)
(* what is announced and what versions count; last, the order of a column: *)
(* where a committed move stands, and on which rank.                       *)
(***************************************************************************)
EXTENDS TaskMove, Rank_proofs

\* A request names the task or the column its route needs.
LEMMA Named ==
  ASSUME body \in Workloads, NEW r \in Reqs
  PROVE  /\ Kind(r) \in Kinds
         /\ Kind(r) # "removeColumn" => Task(r) \in TaskIds
         /\ Kind(r) \notin {"update", "remove"} => Target(r) \in Columns
         /\ Kind(r) = "create" =>
              \A q \in Reqs : Kind(q) = "create" /\ Task(q) = Task(r) => q = r
<1>1. body \in [Reqs -> Bodies] /\ WellFormed(body)
  BY WorkloadAssumption
<1>2. /\ body[r].kind \in Kinds
      /\ body[r].task \in TaskIds \cup {None}
      /\ body[r].column \in Columns \cup {None}
  BY <1>1 DEF Bodies
<1> QED
  BY <1>1, <1>2 DEF WellFormed, Kind, Task, Target

\* A row is neither of the two stand-ins.
LEMMA RowsAreRows ==
  ASSUME NEW x, IsRow(x)
  PROVE  x # NoRow /\ x # Untouched
BY DEF IsRow, NoRow, Untouched

\* A new rank leaves the rest of a row alone.
LEMMA Reranked ==
  ASSUME NEW x, IsRow(x), NEW k, NEW y, y = [x EXCEPT !.rank = k]
  PROVE  /\ IsRow(y)
         /\ y.rank = k
         /\ y.version = x.version
         /\ y.columnId = x.columnId
         /\ y.boardId = x.boardId
<1>1. x = [boardId |-> x.boardId, columnId |-> x.columnId, rank |-> x.rank, version |-> x.version]
  BY DEF IsRow
<1>2. y = [boardId |-> x.boardId, columnId |-> x.columnId, rank |-> k, version |-> x.version]
  BY <1>1
<1> QED
  BY <1>2 DEF IsRow

\* So does another column.
LEMMA Recolumned ==
  ASSUME NEW x, IsRow(x), NEW c \in Columns, NEW y, y = [x EXCEPT !.columnId = c]
  PROVE  /\ IsRow(y)
         /\ y.version = x.version
         /\ y.columnId = c
         /\ y.boardId = x.boardId
<1>1. x = [boardId |-> x.boardId, columnId |-> x.columnId, rank |-> x.rank, version |-> x.version]
  BY DEF IsRow
<1>2. y = [boardId |-> x.boardId, columnId |-> c, rank |-> x.rank, version |-> x.version]
  BY <1>1
<1> QED
  BY <1>2 DEF IsRow

LEMMA InitIInv == Init => IInv
<1> SUFFICES ASSUME Init PROVE IInv
  OBVIOUS
<1>1. \A r \in Reqs : pc[r] = "sent" /\ reply[r] = NoReply /\ held[r] = Nothing
  BY DEF Init
<1>2. TypeOK
  BY TableAssumption DEF Init, TypeOK, Nothing, NoReply, Stages, Statuses, InTransaction
<1>3. \A r \in Reqs, t \in TaskIds : held[r][t] = Untouched
  BY <1>1 DEF Nothing
<1>4. \A r \in Reqs : body[r].kind = "create" => table[body[r].task] = NoRow
  BY WorkloadAssumption DEF Init, WellFormed
<1>5. CreatesAreNew
  <2> SUFFICES ASSUME NEW r \in Reqs, Creating(r)
      PROVE  /\ table[Task(r)] = NoRow
             /\ \A q \in Reqs : held[q][Task(r)] = Untouched /\ pc[q] = "sent"
    BY DEF CreatesAreNew
  <2> QED
    BY <1>1, <1>3, <1>4, Named DEF Init, Creating, Kind, Task
<1>6. TaskStaysOnBoard
  BY TableAssumption DEF Init, TaskStaysOnBoard, IsRow
<1> QED
  BY <1>1, <1>2, <1>3, <1>5, <1>6
  DEF IInv, LocksAreExclusive, MatchedVersionsHold, PlacedVersions, RespacedVersions,
      WinnersAreBehind, OneWinnerPerVersion, BoardsStayResolved, HeldOnBoard, Moving,
      InTransaction, Won, InProgress

\* A step that moves one request on and changes no row, committed or not, other than
\* by rolling its transaction back.
LEMMA Quiet ==
  ASSUME IInv, NEW r \in Reqs, InProgress(r),
         UNCHANGED <<table, columns, body, expected, board>>,
         retried' \in [Reqs -> BOOLEAN],
         NEW stage \in Stages \ {"sent", "respacing"},
         stage = "placing" => Kind(r) \in {"move", "create"},
         pc' = [pc EXCEPT ![r] = stage],
         \/ held' = held /\ pc[r] # "respacing"
         \/ held' = [held EXCEPT ![r] = Nothing],
         \/ stale' = stale
         \/ stale' = [stale EXCEPT ![r] = {}],
         DOMAIN reply' = Reqs,
         \A q \in Reqs \ {r} : reply'[q] = reply[q],
         reply'[r].status \in Statuses,
         Kind(r) = "move" /\ stage \in {"committed", "done"} /\ reply'[r].status = "ok" => Won(r),
         Kind(r) = "move" /\ stage = "placing" => VersionMatches(r),
         Kind(r) = "move" /\ stage # "done" =>
           stage # "accepted" /\ BoardOf[Target(r)] = board[r],
         Kind(r) = "create" /\ stage \in {"accepted", "placing"} => Creating(r)
  PROVE  IInv'
<1> USE DEF Kind, Task, Target
<1>1. pc \in [Reqs -> Stages]
  BY DEF IInv, TypeOK
<1>2. TypeOK'
  <2>1. TypeOK
    BY DEF IInv
  <2>2. pc' \in [Reqs -> Stages] /\ \A q \in Reqs : pc'[q] = IF q = r THEN stage ELSE pc[q]
    BY <1>1
  <2>3. \A q \in Reqs : InTransaction(q)' => Kind(q) \in {"move", "create"}
    BY <2>1, <2>2 DEF TypeOK, InTransaction, InProgress
  <2>4. /\ DOMAIN held' = Reqs
        /\ \A q \in Reqs : /\ DOMAIN held'[q] = TaskIds
                           /\ \A t \in TaskIds : held'[q][t] = Untouched \/ IsRow(held'[q][t])
    BY <2>1 DEF TypeOK, Nothing
  <2>5. stale' \in [Reqs -> SUBSET (TaskIds \cup Columns)]
    BY <2>1 DEF TypeOK
  <2>6. DOMAIN reply' = Reqs /\ \A q \in Reqs : reply'[q].status \in Statuses
    BY <2>1 DEF TypeOK
  <2> QED
    BY <2>1, <2>2, <2>3, <2>4, <2>5, <2>6 DEF TypeOK
<1>3. \A q \in Reqs, t \in TaskIds : held'[q][t] # Untouched =>
        held'[q][t] = held[q][t] /\ pc'[q] = "respacing" /\ q # r
  BY <1>1 DEF IInv, TypeOK, LocksAreExclusive, Nothing
<1>4. \A q \in Reqs \ {r} : pc'[q] = pc[q] /\ held'[q] = held[q] /\ stale'[q] = stale[q]
  BY DEF IInv, TypeOK
<1>5. pc'[r] = stage
  BY <1>1
<1>6. LocksAreExclusive'
  BY <1>3 DEF IInv, LocksAreExclusive, LockedByOther
<1>7. CreatesAreNew'
  <2> SUFFICES ASSUME NEW p \in Reqs, Creating(p)'
      PROVE  /\ table[Task(p)] = NoRow
             /\ \A q \in Reqs \ {p} :
                  /\ held'[q][Task(p)] = Untouched
                  /\ Kind(q) = "move" /\ Task(q) = Task(p) =>
                       pc'[q] = "sent" \/ (pc'[q] = "done" /\ reply'[q].status = "forbidden")
    BY DEF CreatesAreNew, Creating
  <2>1. Creating(p)
    BY <1>4, <1>5 DEF Creating
  <2>2. Task(p) \in TaskIds
    BY <2>1, Named DEF IInv, TypeOK, Creating
  <2>3. /\ table[Task(p)] = NoRow
        /\ \A q \in Reqs \ {p} :
             /\ held[q][Task(p)] = Untouched
             /\ Kind(q) = "move" /\ Task(q) = Task(p) =>
                  pc[q] = "sent" \/ (pc[q] = "done" /\ reply[q].status = "forbidden")
    BY <2>1 DEF IInv, CreatesAreNew
  <2>4. \A q \in Reqs \ {p} : Kind(q) = "move" /\ Task(q) = Task(p) => q # r
    BY <2>3 DEF InProgress
  <2> QED
    BY <1>3, <1>4, <2>2, <2>3, <2>4
<1>8. \A q \in Reqs : Won(q)' => Won(q)
  BY <1>4, <1>5 DEF Won
<1>9. MatchedVersionsHold'
  BY <1>1, <1>4, <1>5 DEF IInv, MatchedVersionsHold, Moving, InTransaction, VersionMatches, InProgress
<1>10. PlacedVersions'
  BY <1>4, <1>5 DEF IInv, PlacedVersions, Moving, InTransaction
<1>11. RespacedVersions'
  BY <1>3 DEF IInv, RespacedVersions
<1>12. WinnersAreBehind' /\ OneWinnerPerVersion'
  BY <1>8 DEF IInv, WinnersAreBehind, OneWinnerPerVersion
<1>13. BoardsStayResolved'
  BY <1>4, <1>5 DEF IInv, BoardsStayResolved, InProgress, Stages
<1>14. HeldOnBoard' /\ TaskStaysOnBoard'
  BY <1>3 DEF IInv, HeldOnBoard, TaskStaysOnBoard
<1> QED
  BY <1>2, <1>6, <1>7, <1>9, <1>10, <1>11, <1>12, <1>13, <1>14 DEF IInv

\* Every handler that changes no row, and every failure, is such a step.
LEMMA QuietActions ==
  ASSUME IInv, NEW r \in Reqs,
         \/ CheckTarget(r) \/ AttemptMove(r) \/ PlaceTaskFails(r)
         \/ CreateReads(r) \/ InsertTaskFails(r) \/ RespaceRowFails(r)
         \/ SerializationFailure(r) \/ GiveUp(r) \/ CreateVictim(r)
         \/ StatementFails(r) \/ Broadcast(r)
  PROVE  IInv'
<1> USE DEF store, request, transaction, Reply, Goto, Discard, Clear, Plan, InProgress
<1>1. /\ retried \in [Reqs -> BOOLEAN] /\ pc \in [Reqs -> Stages]
      /\ DOMAIN reply = Reqs
      /\ reply[r].status \in Statuses
  BY DEF IInv, TypeOK
<1>2. Kind(r) = "move" /\ pc[r] \notin {"sent", "accepted", "done"} => BoardOf[Target(r)] = board[r]
  BY DEF IInv, BoardsStayResolved
<1>3. CASE CheckTarget(r)
  BY <1>1, <1>3, Quiet DEF CheckTarget, TargetOnBoard, Stages, Statuses
<1>4. CASE AttemptMove(r)
  <2>1. PICK p \in {Place(r)} : AttemptThrows(r, p) \/ AttemptConflicts(r, p) \/ AttemptWrites(r, p)
    BY <1>4 DEF AttemptMove
  <2>2. CASE AttemptThrows(r, p)
    BY <1>1, <1>4, <2>2, Quiet DEF AttemptMove, AttemptThrows, Stages, Statuses
  <2>3. CASE AttemptConflicts(r, p)
    BY <1>1, <1>4, <2>3, Quiet DEF AttemptMove, AttemptConflicts, Stages, Statuses
  <2>4. CASE AttemptWrites(r, p)
    BY <1>1, <1>2, <1>4, <2>4, Quiet DEF AttemptMove, AttemptWrites, Stages, Statuses
  <2> QED
    BY <2>1, <2>2, <2>3, <2>4
<1>5. CASE PlaceTaskFails(r)
  BY <1>1, <1>5, Quiet DEF PlaceTaskFails, Stages, Statuses
<1>6. CASE CreateReads(r)
  BY <1>1, <1>6, Quiet DEF CreateReads, Creating, Stages, Statuses
<1>7. CASE InsertTaskFails(r)
  BY <1>1, <1>7, Quiet DEF InsertTaskFails, Stages, Statuses
<1>8. CASE RespaceRowFails(r)
  BY <1>1, <1>8, Quiet DEF RespaceRowFails, Stages, Statuses
<1>9. CASE SerializationFailure(r)
  BY <1>1, <1>2, <1>9, Quiet
  DEF SerializationFailure, Retry, Moving, InTransaction, Stages, Statuses
<1>10. CASE GiveUp(r)
  BY <1>1, <1>10, Quiet DEF GiveUp, Stages, Statuses
<1>11. CASE CreateVictim(r)
  BY <1>1, <1>11, Quiet DEF CreateVictim, InTransaction, Stages, Statuses
<1>12. CASE StatementFails(r)
  BY <1>1, <1>12, Quiet DEF StatementFails, Statement, Stages, Statuses
<1>13. CASE Broadcast(r)
  BY <1>1, <1>2, <1>13, Quiet DEF Broadcast, Won, Stages, Statuses
<1> QED
  BY <1>3, <1>4, <1>5, <1>6, <1>7, <1>8, <1>9, <1>10, <1>11, <1>12, <1>13

\* The guard admits no request for the id of a row that is still to be created.
LEMMA AuthorizeStep ==
  ASSUME IInv, NEW r \in Reqs, Authorize(r)
  PROVE  IInv'
<1> USE DEF store, transaction, Goto, Reply
<1>1. /\ pc \in [Reqs -> Stages] /\ DOMAIN reply = Reqs
      /\ board \in [Reqs -> Boards \cup {None}]
      /\ expected \in [Reqs -> Nat]
      /\ columns \subseteq Columns
  BY DEF IInv, TypeOK
<1>2. pc[r] = "sent" /\ UNCHANGED <<table, columns, body, retried, held, stale>>
  BY DEF Authorize
<1>3. \A q \in Reqs \ {r} : /\ pc'[q] = pc[q] /\ reply'[q] = reply[q]
                            /\ board'[q] = board[q] /\ expected'[q] = expected[q]
  BY <1>1 DEF Authorize
<1>4. \/ pc'[r] = "accepted" /\ reply' = reply
      \/ pc'[r] = "done" /\ reply'[r].status = "forbidden"
  BY <1>1 DEF Authorize
<1>5. pc'[r] = "accepted" =>
        IF Kind(r) \in {"create", "removeColumn"}
        THEN board'[r] = BoardOf[Target(r)] /\ Target(r) \in columns
        ELSE board'[r] = table[Task(r)].boardId /\ table[Task(r)] # NoRow
  BY <1>1 DEF Authorize
<1>6. board' \in [Reqs -> Boards \cup {None}] /\ (pc'[r] = "accepted" => board'[r] \in Boards)
  <2>1. Target(r) \in columns => BoardOf[Target(r)] \in Boards
    BY <1>1, BoardAssumption
  <2>2. Kind(r) \in {"update", "remove", "move"} /\ table[Task(r)] # NoRow
          => table[Task(r)].boardId \in Boards
    BY Named DEF IInv, TypeOK, IsRow
  <2>3. Kind(r) \in Kinds
    BY Named DEF IInv, TypeOK
  <2> QED
    BY <1>1, <1>5, <2>1, <2>2, <2>3 DEF Authorize, Kinds
<1>7. expected' \in [Reqs -> Nat]
  BY <1>1 DEF Authorize
<1>8. TypeOK'
  <2>1. pc' \in [Reqs -> Stages] /\ pc'[r] \in {"accepted", "done"} /\ DOMAIN reply' = Reqs
    BY <1>1 DEF Authorize, Stages
  <2>2. \A q \in Reqs : reply'[q].status \in Statuses
    BY <1>3, <1>4 DEF IInv, TypeOK, Statuses
  <2>3. \A q \in Reqs : InTransaction(q)' => Kind(q)' \in {"move", "create"}
    BY <1>2, <1>3, <2>1 DEF IInv, TypeOK, InTransaction, Kind
  <2> QED
    BY <1>2, <1>6, <1>7, <2>1, <2>2, <2>3 DEF IInv, TypeOK
<1>9. LocksAreExclusive'
  BY <1>2, <1>3 DEF IInv, LocksAreExclusive, LockedByOther
<1>15. HeldOnBoard' /\ RespacedVersions' /\ TaskStaysOnBoard'
  BY <1>2 DEF IInv, HeldOnBoard, RespacedVersions, TaskStaysOnBoard, Task
<1>10. CreatesAreNew'
  <2> SUFFICES ASSUME NEW p \in Reqs, Creating(p)'
      PROVE  /\ table[Task(p)] = NoRow
             /\ \A q \in Reqs \ {p} :
                  /\ held[q][Task(p)] = Untouched
                  /\ Kind(q) = "move" /\ Task(q) = Task(p) =>
                       pc'[q] = "sent" \/ (pc'[q] = "done" /\ reply'[q].status = "forbidden")
    BY <1>2 DEF CreatesAreNew, Creating, Kind, Task
  <2>1. Creating(p)
    BY <1>2, <1>3 DEF Creating, Kind
  <2>2. /\ table[Task(p)] = NoRow
        /\ \A q \in Reqs \ {p} :
             /\ held[q][Task(p)] = Untouched
             /\ Kind(q) = "move" /\ Task(q) = Task(p) =>
                  pc[q] = "sent" \/ (pc[q] = "done" /\ reply[q].status = "forbidden")
    BY <2>1 DEF IInv, CreatesAreNew
  <2>3. Kind(r) = "move" /\ Task(r) = Task(p) => pc'[r] # "accepted"
    BY <1>5, <2>2
  <2> QED
    BY <1>3, <1>4, <2>2, <2>3
<1>11. \A q \in Reqs : (Won(q)' => Won(q) /\ q # r) /\ (Moving(q)' => Moving(q) /\ q # r)
  BY <1>2, <1>3, <1>4 DEF Won, Moving, InTransaction, Kind
<1>12. MatchedVersionsHold' /\ PlacedVersions'
  BY <1>2, <1>3, <1>11 DEF IInv, MatchedVersionsHold, PlacedVersions, VersionMatches, Task
<1>13. WinnersAreBehind' /\ OneWinnerPerVersion'
  BY <1>2, <1>3, <1>11 DEF IInv, WinnersAreBehind, OneWinnerPerVersion, Task
<1>14. BoardsStayResolved'
  BY <1>2, <1>3, <1>4, <1>5, <1>6 DEF IInv, BoardsStayResolved, InProgress, Kind, Task, Target
<1> QED
  BY <1>8, <1>9, <1>10, <1>12, <1>13, <1>14, <1>15 DEF IInv

\* A transaction writes one row.
LEMMA Write ==
  ASSUME IInv, NEW r \in Reqs, NEW t, NEW x,
         UNCHANGED <<table, columns, body, expected, board, retried, stale, reply>>,
         InTransaction(r),
         Kind(r) \in {"move", "create"},
         pc' = [pc EXCEPT ![r] = "respacing"],
         held' = [held EXCEPT ![r][t] = x],
         t \in TaskIds =>
           /\ IsRow(x)
           /\ ~LockedByOther(r, t)
           /\ x.columnId \in columns
           /\ BoardOf[x.columnId] = x.boardId
           /\ table[t] # NoRow => x.boardId = table[t].boardId
           /\ t # Task(r) => table[t] # NoRow /\ x.version = table[t].version,
         Kind(r) = "move" =>
           /\ VersionMatches(r)
           /\ held'[r][Task(r)] # Untouched
           /\ held'[r][Task(r)].version = expected[r] + 1
  PROVE  IInv'
<1> USE DEF Kind, Task, Target
<1>1. pc \in [Reqs -> Stages]
  BY DEF IInv, TypeOK
<1>2. \A q \in Reqs \ {r} : pc'[q] = pc[q] /\ held'[q] = held[q]
  BY DEF IInv, TypeOK
<1>3. pc'[r] = "respacing"
  BY <1>1
<1>4. \A i \in TaskIds : held'[r][i] = IF i = t THEN x ELSE held[r][i]
  BY DEF IInv, TypeOK
<1>5. TypeOK'
  BY <1>1, <1>4 DEF IInv, TypeOK, Stages, InTransaction
<1>6. LocksAreExclusive'
  <2>1. \A q \in Reqs \ {r}, i \in TaskIds : held[q][i] # Untouched => held'[r][i] = Untouched
    BY <1>4 DEF IInv, LocksAreExclusive, LockedByOther
  <2> QED
    BY <1>2, <1>3, <2>1 DEF IInv, LocksAreExclusive, LockedByOther
<1>7. CreatesAreNew'
  <2> SUFFICES ASSUME NEW p \in Reqs, Creating(p)'
      PROVE  /\ table[Task(p)] = NoRow
             /\ \A q \in Reqs \ {p} :
                  /\ held'[q][Task(p)] = Untouched
                  /\ Kind(q) = "move" /\ Task(q) = Task(p) =>
                       pc'[q] = "sent" \/ (pc'[q] = "done" /\ reply[q].status = "forbidden")
    BY DEF CreatesAreNew, Creating
  <2>1. Creating(p)
    BY <1>2, <1>3 DEF Creating, InTransaction
  <2>2. /\ table[Task(p)] = NoRow
        /\ \A q \in Reqs \ {p} :
             /\ held[q][Task(p)] = Untouched
             /\ Kind(q) = "move" /\ Task(q) = Task(p) =>
                  pc[q] = "sent" \/ (pc[q] = "done" /\ reply[q].status = "forbidden")
    BY <2>1 DEF IInv, CreatesAreNew
  <2>3. Task(p) \in TaskIds /\ \A q \in Reqs : Kind(q) = "create" /\ Task(q) = Task(p) => q = p
    BY <2>1, Named DEF IInv, TypeOK, Creating
  <2>4. r # p => Task(r) # Task(p)
    BY <2>2, <2>3 DEF InTransaction
  <2>5. r # p => t # Task(p)
    BY <2>2, <2>3, <2>4
  <2> QED
    BY <1>2, <1>4, <2>2, <2>3, <2>4, <2>5
<1>8. \A q \in Reqs : Won(q)' => Won(q)
  BY <1>2, <1>3 DEF Won
<1>9. MatchedVersionsHold' /\ PlacedVersions'
  BY <1>2, <1>3 DEF IInv, MatchedVersionsHold, PlacedVersions, Moving, InTransaction, VersionMatches
<1>10. RespacedVersions'
  BY <1>2, <1>4 DEF IInv, RespacedVersions
<1>11. WinnersAreBehind' /\ OneWinnerPerVersion'
  BY <1>8 DEF IInv, WinnersAreBehind, OneWinnerPerVersion
<1>12. BoardsStayResolved'
  BY <1>2, <1>3 DEF IInv, BoardsStayResolved, InProgress, InTransaction
<1>13. HeldOnBoard' /\ TaskStaysOnBoard'
  BY <1>2, <1>4 DEF IInv, HeldOnBoard, TaskStaysOnBoard
<1> QED
  BY <1>5, <1>6, <1>7, <1>9, <1>10, <1>11, <1>12, <1>13 DEF IInv

\* The conditional update locks the row at the version it has matched.
LEMMA PlaceTaskStep ==
  ASSUME IInv, NEW r \in Reqs, PlaceTask(r)
  PROVE  IInv'
<1>1. /\ Task(r) \in TaskIds /\ Target(r) \in columns /\ Target(r) \in Columns
      /\ VersionMatches(r)
      /\ IsRow(table[Task(r)])
      /\ table[Task(r)].version = expected[r]
  <2>1. Moving(r)
    BY DEF PlaceTask, Moving, InTransaction
  <2>2. Task(r) \in TaskIds /\ Target(r) \in Columns
    BY Named DEF IInv, TypeOK, PlaceTask
  <2> QED
    BY <2>1, <2>2 DEF IInv, TypeOK, MatchedVersionsHold, VersionMatches, PlaceTask
<1>2. PICK x : x = [table[Task(r)] EXCEPT !.rank = newRank[r], !.columnId = Target(r),
                                          !.version = @ + 1]
  OBVIOUS
<1>3. /\ IsRow(x) /\ x.version = table[Task(r)].version + 1 /\ x.columnId = Target(r)
      /\ x.boardId = table[Task(r)].boardId
  <2>1. PICK z : z = table[Task(r)] /\ IsRow(z)
    BY <1>1
  <2>2. PICK x1 : x1 = [z EXCEPT !.rank = newRank[r]]
    OBVIOUS
  <2>3. PICK x2 : x2 = [x1 EXCEPT !.columnId = Target(r)]
    OBVIOUS
  <2>4. /\ IsRow(x1) /\ x1.version = z.version /\ x1.boardId = z.boardId
    BY <2>1, <2>2, Reranked
  <2>5. /\ IsRow(x2) /\ x2.version = z.version /\ x2.boardId = z.boardId
        /\ x2.columnId = Target(r)
    BY <1>1, <2>3, <2>4, Recolumned
  <2>6. x = [x2 EXCEPT !.version = z.version + 1]
    BY <1>2, <2>1, <2>2, <2>3
  <2>7. x2 = [boardId |-> x2.boardId, columnId |-> x2.columnId, rank |-> x2.rank,
              version |-> x2.version]
    BY <2>5 DEF IsRow
  <2>8. x = [boardId |-> x2.boardId, columnId |-> x2.columnId, rank |-> x2.rank,
             version |-> z.version + 1]
    BY <2>6, <2>7
  <2>9. z.version + 1 \in Nat
    BY <2>1 DEF IsRow
  <2> QED
    BY <2>1, <2>5, <2>8, <2>9 DEF IsRow
<1>4. BoardOf[Target(r)] = table[Task(r)].boardId
  BY <1>1 DEF IInv, BoardsStayResolved, InProgress, PlaceTask, VersionMatches
<1>5. held' = [held EXCEPT ![r][Task(r)] = x]
  BY <1>2 DEF PlaceTask
<1>6. held'[r][Task(r)] = x /\ x # Untouched
  BY <1>1, <1>3, <1>5, RowsAreRows DEF IInv, TypeOK
<1>7. /\ UNCHANGED <<table, columns, body, expected, board, retried, stale, reply>>
      /\ Kind(r) = "move" /\ InTransaction(r) /\ ~LockedByOther(r, Task(r))
      /\ pc' = [pc EXCEPT ![r] = "respacing"]
  BY DEF PlaceTask, InTransaction, Goto, store, request
<1> QED
  BY <1>1, <1>3, <1>4, <1>5, <1>6, <1>7, Write

\* A row a transaction sees, its own or a committed one, is on the board of its column.
LEMMA SeenRows ==
  ASSUME IInv, NEW r \in Reqs, NEW t \in TaskIds, Seen(r)[t] # NoRow
  PROVE  /\ IsRow(Seen(r)[t])
         /\ Seen(r)[t].columnId \in columns
         /\ BoardOf[Seen(r)[t].columnId] = Seen(r)[t].boardId
         /\ table[t] # NoRow => Seen(r)[t].boardId = table[t].boardId
BY DEF IInv, TypeOK, Seen, HeldOnBoard, TaskStaysOnBoard

\* A re-spacing changes no version, neither that of the row it follows nor another's.
LEMMA RespaceRowStep ==
  ASSUME IInv, NEW r \in Reqs, RespaceRow(r)
  PROVE  IInv'
<1>1. PICK t, k, x :
        /\ ~LockedByOther(r, t) /\ Seen(r)[t] # NoRow
        /\ x = [Seen(r)[t] EXCEPT !.rank = k]
        /\ held' = [held EXCEPT ![r][t] = x]
  BY DEF RespaceRow
<1>2. /\ UNCHANGED <<table, columns, body, expected, board, retried, stale, reply>>
      /\ pc[r] = "respacing" /\ InTransaction(r) /\ Kind(r) \in {"move", "create"}
      /\ pc' = [pc EXCEPT ![r] = "respacing"]
  BY DEF RespaceRow, InTransaction, store, request, IInv, TypeOK
<1>3. t \in TaskIds =>
        /\ IsRow(x)
        /\ x.version = Seen(r)[t].version
        /\ x.columnId = Seen(r)[t].columnId
        /\ x.boardId = Seen(r)[t].boardId
  <2>1. PICK z : z = Seen(r)[t]
    OBVIOUS
  <2>2. t \in TaskIds => IsRow(z)
    BY <1>1, <2>1, SeenRows
  <2>3. x = [z EXCEPT !.rank = k]
    BY <1>1, <2>1
  <2> QED
    BY <2>1, <2>2, <2>3, Reranked
<1>4. t \in TaskIds /\ t # Task(r) => table[t] # NoRow /\ x.version = table[t].version
  BY <1>1, <1>3 DEF Seen, IInv, RespacedVersions
<1>5. Kind(r) = "move" =>
        /\ VersionMatches(r)
        /\ held'[r][Task(r)] # Untouched
        /\ held'[r][Task(r)].version = expected[r] + 1
  <2> SUFFICES ASSUME Kind(r) = "move"
      PROVE  /\ VersionMatches(r)
             /\ held'[r][Task(r)] # Untouched
             /\ held'[r][Task(r)].version = expected[r] + 1
    OBVIOUS
  <2>1. /\ VersionMatches(r) /\ held[r][Task(r)] # Untouched
        /\ held[r][Task(r)].version = expected[r] + 1
    BY <1>2 DEF IInv, MatchedVersionsHold, PlacedVersions, Moving
  <2>2. Task(r) \in TaskIds
    BY Named DEF IInv, TypeOK
  <2>3. held'[r][Task(r)] = IF t = Task(r) THEN x ELSE held[r][Task(r)]
    BY <1>1, <2>2 DEF IInv, TypeOK
  <2>4. t = Task(r) => x # Untouched /\ x.version = held[r][t].version
    BY <1>3, <2>1, <2>2, RowsAreRows DEF Seen
  <2> QED
    BY <2>1, <2>3, <2>4
<1>6. t \in TaskIds =>
        /\ x.columnId \in columns
        /\ BoardOf[x.columnId] = x.boardId
        /\ table[t] # NoRow => x.boardId = table[t].boardId
  BY <1>1, <1>3, SeenRows
<1>7. ~LockedByOther(r, t) /\ held' = [held EXCEPT ![r][t] = x]
  BY <1>1
<1> QED
  BY <1>2, <1>3, <1>4, <1>5, <1>6, <1>7, Write

\* The new row is unlike every row of the table, and like no row another one holds.
LEMMA InsertTaskStep ==
  ASSUME IInv, NEW r \in Reqs, InsertTask(r)
  PROVE  IInv'
<1> DEFINE x == [boardId |-> board[r], columnId |-> Target(r), rank |-> newRank[r], version |-> 0]
<1>1. /\ Kind(r) = "create" /\ Creating(r) /\ InProgress(r)
      /\ Target(r) \in columns /\ Target(r) \in Columns /\ Task(r) \in TaskIds
  BY Named DEF InsertTask, Creating, InProgress, IInv, TypeOK
<1>2. board[r] \in Boards /\ BoardOf[Target(r)] = board[r]
  BY <1>1 DEF IInv, BoardsStayResolved
<1>3. IsRow(x)
  BY <1>1, <1>2 DEF IsRow
<1>4. x.columnId = Target(r) /\ x.boardId = board[r]
  OBVIOUS
<1>5. held' = [held EXCEPT ![r][Task(r)] = x]
  BY DEF InsertTask
<1> HIDE DEF x
<1>6. table[Task(r)] = NoRow /\ ~LockedByOther(r, Task(r))
  BY <1>1 DEF IInv, CreatesAreNew, LockedByOther
<1>7. /\ UNCHANGED <<table, columns, body, expected, board, retried, stale, reply>>
      /\ InTransaction(r) /\ pc' = [pc EXCEPT ![r] = "respacing"]
  BY DEF InsertTask, InTransaction, Goto, store, request
<1> QED
  BY <1>1, <1>2, <1>3, <1>4, <1>5, <1>6, <1>7, Write

\* A commit makes the rows written so far visible.
LEMMA CommitStep ==
  ASSUME IInv, NEW r \in Reqs, Commit(r)
  PROVE  IInv'
<1> USE DEF Kind, Task, Target, store, request, Goto, Plan
<1>1. /\ UNCHANGED <<columns, body, expected, board, retried>>
      /\ pc[r] = "respacing" /\ pc' = [pc EXCEPT ![r] = "committed"]
      /\ table' = Seen(r)
      /\ held' = [held EXCEPT ![r] = Nothing]
      /\ Kind(r) \in {"move", "create"} /\ Task(r) \in TaskIds
  BY Named DEF Commit, IInv, TypeOK, InTransaction
<1>2. \A q \in Reqs \ {r} : /\ pc'[q] = pc[q] /\ held'[q] = held[q] /\ reply'[q] = reply[q]
  BY DEF IInv, TypeOK, Commit
<1>3. pc'[r] = "committed" /\ \A t \in TaskIds : held'[r][t] = Untouched
  BY <1>1 DEF IInv, TypeOK, Nothing
<1>4. \A t \in TaskIds :
        table'[t] = IF held[r][t] = Untouched THEN table[t] ELSE held[r][t]
  BY <1>1 DEF Seen
<1>5. \A t \in TaskIds :
        held[r][t] # Untouched =>
          /\ IsRow(table'[t])
          /\ table'[t] # NoRow
          /\ table'[t].columnId \in columns
          /\ BoardOf[table'[t].columnId] = table'[t].boardId
          /\ table[t] # NoRow => table'[t].boardId = table[t].boardId
          /\ t # Task(r) => table[t] # NoRow /\ table'[t].version = table[t].version
  BY <1>4, RowsAreRows DEF IInv, TypeOK, HeldOnBoard, RespacedVersions
<1>6. Kind(r) = "move" =>
        /\ table[Task(r)] # NoRow
        /\ table[Task(r)].version = expected[r]
        /\ held[r][Task(r)] # Untouched
        /\ table'[Task(r)].version = expected[r] + 1
  BY <1>1, <1>4 DEF IInv, MatchedVersionsHold, PlacedVersions, VersionMatches, Moving, InTransaction
<1>7. \A q \in Reqs \ {r}, t \in TaskIds : held[q][t] # Untouched => table'[t] = table[t]
  BY <1>4 DEF IInv, LocksAreExclusive, LockedByOther
<1>8. Kind(r) = "create" =>
        \A q \in Reqs \ {r} : Kind(q) = "move" /\ Task(q) = Task(r) => ~InProgress(q) /\ ~Won(q)
  BY <1>1 DEF IInv, CreatesAreNew, Creating, InProgress, Won
<1>9. TypeOK'
  <2>1. /\ DOMAIN table' = TaskIds
        /\ \A t \in TaskIds : table'[t] = NoRow \/ IsRow(table'[t])
    BY <1>1, <1>4, <1>5 DEF IInv, TypeOK, Seen
  <2>2. stale' \in [Reqs -> SUBSET (TaskIds \cup Columns)]
    BY DEF IInv, TypeOK, Commit, MarkStale
  <2>3. /\ DOMAIN reply' = Reqs
        /\ \A q \in Reqs : reply'[q].status \in Statuses
    BY DEF IInv, TypeOK, Commit, Statuses
  <2>4. /\ DOMAIN held' = Reqs
        /\ \A q \in Reqs :
             /\ DOMAIN held'[q] = TaskIds
             /\ \A t \in TaskIds : held'[q][t] = Untouched \/ IsRow(held'[q][t])
    BY <1>1 DEF IInv, TypeOK, Nothing
  <2>5. /\ pc' \in [Reqs -> Stages]
        /\ \A q \in Reqs : InTransaction(q)' => Kind(q) \in {"move", "create"}
    BY <1>1 DEF IInv, TypeOK, Stages, InTransaction
  <2> QED
    BY <1>1, <2>1, <2>2, <2>3, <2>4, <2>5 DEF IInv, TypeOK
<1>10. LocksAreExclusive'
  BY <1>2, <1>3 DEF IInv, LocksAreExclusive, LockedByOther
<1>11. CreatesAreNew'
  <2> SUFFICES ASSUME NEW p \in Reqs, Creating(p)'
      PROVE  /\ table'[Task(p)] = NoRow
             /\ \A q \in Reqs \ {p} :
                  /\ held'[q][Task(p)] = Untouched
                  /\ Kind(q) = "move" /\ Task(q) = Task(p) =>
                       pc'[q] = "sent" \/ (pc'[q] = "done" /\ reply'[q].status = "forbidden")
    BY <1>1 DEF CreatesAreNew, Creating
  <2>1. Creating(p) /\ p # r
    BY <1>1, <1>2, <1>3 DEF Creating
  <2>2. /\ table[Task(p)] = NoRow
        /\ \A q \in Reqs \ {p} :
             /\ held[q][Task(p)] = Untouched
             /\ Kind(q) = "move" /\ Task(q) = Task(p) =>
                  pc[q] = "sent" \/ (pc[q] = "done" /\ reply[q].status = "forbidden")
    BY <2>1 DEF IInv, CreatesAreNew
  <2>3. Task(p) \in TaskIds
    BY <2>1, Named DEF IInv, TypeOK, Creating
  <2> QED
    BY <1>1, <1>2, <1>3, <1>4, <2>1, <2>2, <2>3
<1>12. \A q \in Reqs : Moving(q)' => Moving(q) /\ q # r
  BY <1>1, <1>2, <1>3 DEF Moving, InTransaction
<1>13. MatchedVersionsHold'
  <2> SUFFICES ASSUME NEW q \in Reqs, Moving(q)',
                      pc'[q] = "respacing" \/ Task(q) \notin stale'[q]
      PROVE  VersionMatches(q)'
    BY <1>1 DEF MatchedVersionsHold
  <2>1. Moving(q) /\ q # r /\ Task(q) \in TaskIds
    BY <1>1, <1>12, Named DEF IInv, TypeOK, Moving
  <2>2. pc[q] = "respacing" => VersionMatches(q) /\ table'[Task(q)] = table[Task(q)]
    BY <1>7, <2>1 DEF IInv, MatchedVersionsHold, PlacedVersions
  <2>3. stale'[q] = stale[q] \cup {t \in TaskIds : held[r][t] # Untouched}
    BY <2>1 DEF Commit, MarkStale
  <2>4. pc[q] # "respacing" => VersionMatches(q) /\ table'[Task(q)] = table[Task(q)]
    BY <1>2, <1>4, <2>1, <2>3 DEF IInv, MatchedVersionsHold
  <2> QED
    BY <1>1, <2>2, <2>4 DEF VersionMatches
<1>14. PlacedVersions' /\ RespacedVersions' /\ HeldOnBoard'
  BY <1>1, <1>2, <1>3, <1>7, <1>12 DEF IInv, PlacedVersions, RespacedVersions, HeldOnBoard
<1>15. \A q \in Reqs : Won(q)' => Won(q) \/ (q = r /\ Kind(r) = "move")
  BY <1>1, <1>2 DEF Won
<1>16. WinnersAreBehind'
  <2> SUFFICES ASSUME NEW q \in Reqs, Won(q)', table'[Task(q)] # NoRow
      PROVE  expected[q] < table'[Task(q)].version
    BY <1>1 DEF WinnersAreBehind
  <2>1. Task(q) \in TaskIds /\ expected[q] \in Nat /\ expected[r] \in Nat
    BY <1>1, Named DEF IInv, TypeOK, Won
  <2>2. CASE q = r
    BY <1>1, <1>6, <1>15, <2>1, <2>2 DEF Won
  <2>3. CASE q # r
    <3>1. Won(q)
      BY <1>15, <2>3
    <3>2. Task(q) = Task(r) => Kind(r) = "move"
      BY <1>1, <1>8, <2>3, <3>1 DEF Won
    <3>3. table[Task(q)] # NoRow => expected[q] < table[Task(q)].version
      BY <3>1 DEF IInv, WinnersAreBehind
    <3> QED
      BY <1>4, <1>5, <1>6, <2>1, <3>2, <3>3
  <2> QED
    BY <2>2, <2>3
<1>17. OneWinnerPerVersion'
  <2> SUFFICES ASSUME NEW p \in Reqs, NEW q \in Reqs, Won(p)', Won(q)', p # q,
                      Task(p) = Task(q), expected[p] = expected[q]
      PROVE  FALSE
    BY <1>1 DEF OneWinnerPerVersion
  <2>1. \A i \in Reqs : Won(i) /\ Kind(r) = "move" => Task(i) # Task(r) \/ expected[i] # expected[r]
    BY <1>6, <1>1 DEF IInv, WinnersAreBehind, TypeOK
  <2> QED
    BY <1>15, <2>1 DEF IInv, OneWinnerPerVersion
<1>18. BoardsStayResolved'
  <2> SUFFICES ASSUME NEW q \in Reqs, InProgress(q)'
      PROVE  /\ board[q] \in Boards
             /\ Kind(q) = "create" => BoardOf[Target(q)] = board[q]
             /\ Kind(q) = "move" =>
                  /\ table'[Task(q)] # NoRow => table'[Task(q)].boardId = board[q]
                  /\ pc'[q] # "accepted" => BoardOf[Target(q)] = board[q]
    BY <1>1 DEF BoardsStayResolved
  <2>1. InProgress(q) /\ (pc'[q] # "accepted" => pc[q] # "accepted")
    BY <1>1, <1>2 DEF InProgress
  <2>2. /\ board[q] \in Boards
        /\ Kind(q) = "create" => BoardOf[Target(q)] = board[q]
        /\ Kind(q) = "move" =>
             /\ table[Task(q)] # NoRow => table[Task(q)].boardId = board[q]
             /\ pc[q] # "accepted" => BoardOf[Target(q)] = board[q]
    BY <2>1 DEF IInv, BoardsStayResolved
  <2>3. Kind(q) = "move" /\ table'[Task(q)] # NoRow => table[Task(q)] # NoRow
    <3>1. Kind(q) = "move" => Task(q) \in TaskIds
      BY Named DEF IInv, TypeOK
    <3> QED
      BY <1>1, <1>4, <1>5, <1>6, <1>8, <2>1, <3>1
  <2>4. Kind(q) = "move" => Task(q) \in TaskIds
    BY Named DEF IInv, TypeOK
  <2> QED
    BY <1>4, <1>5, <2>1, <2>2, <2>3, <2>4
<1>19. TaskStaysOnBoard'
  BY <1>1, <1>4, <1>5 DEF IInv, TaskStaysOnBoard
<1> QED
  BY <1>9, <1>10, <1>11, <1>13, <1>14, <1>16, <1>17, <1>18, <1>19 DEF IInv

\* A single statement, of an edit or a delete, waits for the rows' locks.
LEMMA Erase ==
  ASSUME IInv, NEW r \in Reqs, NEW D \in SUBSET TaskIds, NEW S \in SUBSET (TaskIds \cup Columns),
         Statement(r, Kind(r)),
         Kind(r) \in {"update", "remove", "removeColumn"},
         D \subseteq S,
         MarkStale(r, S),
         DOMAIN table' = TaskIds,
         \A t \in TaskIds : table'[t] = IF t \in D THEN NoRow ELSE table[t],
         columns' \subseteq columns,
         \A t \in D : ~LockedByOther(r, t),
         \A t \in TaskIds : table'[t] # NoRow => table[t].columnId \in columns',
         \A q \in Reqs \ {r}, t \in TaskIds :
           held[q][t] # Untouched => held[q][t].columnId \in columns',
         DOMAIN reply' = Reqs,
         reply'[r].status \in Statuses,
         \A q \in Reqs \ {r} : reply'[q] = reply[q],
         pc' = [pc EXCEPT ![r] = "committed"]
  PROVE  IInv'
<1> USE DEF Kind, Task, Target, request
<1>1. UNCHANGED <<body, expected, board, retried, held>> /\ pc[r] = "accepted"
  BY DEF Statement
<1>2. pc \in [Reqs -> Stages]
  BY DEF IInv, TypeOK
<1>3. (\A q \in Reqs \ {r} : pc'[q] = pc[q]) /\ pc'[r] = "committed"
  BY <1>2
<1>4. \A t \in TaskIds : held[r][t] = Untouched
  BY <1>1 DEF IInv, LocksAreExclusive
<1>5. \A q \in Reqs, t \in TaskIds : held[q][t] # Untouched => q # r /\ table'[t] = table[t]
  BY <1>4 DEF LockedByOther
<1>6. TypeOK'
  <2>1. stale' \in [Reqs -> SUBSET (TaskIds \cup Columns)]
    BY DEF IInv, TypeOK, MarkStale
  <2>2. /\ pc' \in [Reqs -> Stages]
        /\ \A q \in Reqs : InTransaction(q)' => Kind(q) \in {"move", "create"}
    BY <1>1, <1>3 DEF IInv, TypeOK, Stages, InTransaction
  <2> QED
    BY <1>1, <2>1, <2>2 DEF IInv, TypeOK
<1>7. LocksAreExclusive'
  BY <1>1, <1>3, <1>4 DEF IInv, LocksAreExclusive, LockedByOther
<1>8. CreatesAreNew'
  BY <1>1, <1>3, Named DEF IInv, TypeOK, CreatesAreNew, Creating
<1>9. \A q \in Reqs : (Moving(q)' => Moving(q) /\ q # r) /\ (Won(q)' => Won(q))
  BY <1>1, <1>3 DEF Moving, InTransaction, Won
<1>10. MatchedVersionsHold'
  <2> SUFFICES ASSUME NEW q \in Reqs, Moving(q)',
                      pc'[q] = "respacing" \/ Task(q) \notin stale'[q]
      PROVE  VersionMatches(q)'
    BY <1>1 DEF MatchedVersionsHold
  <2>1. Moving(q) /\ q # r /\ Task(q) \in TaskIds
    BY <1>1, <1>9, Named DEF IInv, TypeOK, Moving
  <2>2. pc[q] = "respacing" => VersionMatches(q) /\ table'[Task(q)] = table[Task(q)]
    BY <1>5, <2>1 DEF IInv, MatchedVersionsHold, PlacedVersions
  <2>3. stale'[q] = stale[q] \cup S
    BY <2>1 DEF MarkStale
  <2>4. pc[q] # "respacing" => VersionMatches(q) /\ table'[Task(q)] = table[Task(q)]
    BY <1>3, <2>1, <2>3 DEF IInv, MatchedVersionsHold
  <2> QED
    BY <1>1, <2>2, <2>4 DEF VersionMatches
<1>11. PlacedVersions' /\ RespacedVersions'
  BY <1>1, <1>3, <1>5, <1>9 DEF IInv, PlacedVersions, RespacedVersions
<1>12. WinnersAreBehind' /\ OneWinnerPerVersion'
  BY <1>1, <1>9, Named DEF IInv, TypeOK, WinnersAreBehind, OneWinnerPerVersion, Won
<1>13. BoardsStayResolved'
  BY <1>1, <1>3, Named DEF IInv, TypeOK, BoardsStayResolved, InProgress
<1>14. HeldOnBoard' /\ TaskStaysOnBoard'
  BY <1>1, <1>5 DEF IInv, HeldOnBoard, TaskStaysOnBoard
<1> QED
  BY <1>6, <1>7, <1>8, <1>10, <1>11, <1>12, <1>13, <1>14 DEF IInv

LEMMA StatementSteps ==
  ASSUME IInv, NEW r \in Reqs, UpdateTask(r) \/ RemoveTask(r) \/ RemoveColumn(r)
  PROVE  IInv'
<1> USE DEF store, Goto
<1>1. /\ DOMAIN table = TaskIds /\ DOMAIN reply = Reqs
      /\ \A t \in TaskIds : table[t] # NoRow => table[t].columnId \in columns
      /\ \A q \in Reqs, t \in TaskIds : held[q][t] # Untouched => held[q][t].columnId \in columns
  BY DEF IInv, TypeOK, TaskStaysOnBoard, HeldOnBoard
<1>2. CASE UpdateTask(r)
  <2>1. Kind(r) = "update" /\ Task(r) \in TaskIds /\ Statement(r, Kind(r))
    BY <1>2, Named DEF UpdateTask, Statement, IInv, TypeOK
  <2>2. {} \in SUBSET TaskIds /\ {Task(r)} \in SUBSET (TaskIds \cup Columns)
    BY <2>1
  <2> QED
    BY <1>1, <1>2, <2>1, <2>2, Erase DEF UpdateTask, Statuses
<1>3. CASE RemoveTask(r)
  <2>1. Kind(r) = "remove" /\ Task(r) \in TaskIds /\ Statement(r, Kind(r))
    BY <1>3, Named DEF RemoveTask, Statement, IInv, TypeOK
  <2>2. {Task(r)} \in SUBSET TaskIds /\ {Task(r)} \in SUBSET (TaskIds \cup Columns)
    BY <2>1
  <2> QED
    BY <1>1, <1>3, <2>1, <2>2, Erase DEF RemoveTask, Statuses
<1>4. CASE RemoveColumn(r)
  <2> DEFINE D == InColumn(table, Target(r))
  <2>1. Kind(r) = "removeColumn" /\ Target(r) \in Columns /\ Statement(r, Kind(r))
    BY <1>4, Named DEF RemoveColumn, Statement, IInv, TypeOK
  <2>2. D \in SUBSET TaskIds /\ {Target(r)} \cup D \in SUBSET (TaskIds \cup Columns)
    BY <2>1 DEF InColumn
  <2>3. /\ \A t \in TaskIds : table'[t] = IF t \in D THEN NoRow ELSE table[t]
        /\ DOMAIN table' = TaskIds
        /\ columns' = columns \ {Target(r)}
        /\ MarkStale(r, {Target(r)} \cup D)
    BY <1>4 DEF RemoveColumn
  <2>4. \A t \in D : ~LockedByOther(r, t)
    BY <1>4 DEF RemoveColumn, LockedByOther, InColumn
  <2>5. \A t \in TaskIds : table'[t] # NoRow => table[t].columnId \in columns'
    BY <1>1, <2>3 DEF InColumn
  <2>6. \A q \in Reqs \ {r}, t \in TaskIds :
          held[q][t] # Untouched => held[q][t].columnId \in columns'
    BY <1>1, <1>4, <2>3 DEF RemoveColumn
  <2>7. /\ DOMAIN reply' = Reqs /\ reply'[r].status \in Statuses
        /\ \A q \in Reqs \ {r} : reply'[q] = reply[q]
        /\ pc' = [pc EXCEPT ![r] = "committed"]
    BY <1>1, <1>4 DEF RemoveColumn, Statuses
  <2> HIDE DEF D
  <2> QED
    BY <2>1, <2>2, <2>3, <2>4, <2>5, <2>6, <2>7, Erase
<1> QED
  BY <1>2, <1>3, <1>4

LEMMA NextIInv == IInv /\ [Next]_vars => IInv'
<1> SUFFICES ASSUME IInv, [Next]_vars PROVE IInv'
  OBVIOUS
<1>1. ASSUME UNCHANGED vars PROVE IInv'
  BY <1>1
  DEF vars, IInv, TypeOK, LocksAreExclusive, CreatesAreNew, MatchedVersionsHold, PlacedVersions,
      RespacedVersions, WinnersAreBehind, OneWinnerPerVersion, BoardsStayResolved, HeldOnBoard,
      TaskStaysOnBoard, LockedByOther, Creating, InProgress, Moving, InTransaction,
      VersionMatches, Won, Kind, Task, Target
<1>2. ASSUME NEW r \in Reqs, Authorize(r) PROVE IInv'
  BY <1>2, AuthorizeStep
<1>3. ASSUME NEW r \in Reqs, Handle(r) PROVE IInv'
  BY <1>3, QuietActions, PlaceTaskStep, InsertTaskStep, RespaceRowStep, CommitStep, StatementSteps
  DEF Handle
<1> QED
  BY <1>1, <1>2, <1>3 DEF Next, Idle

LEMMA Invariant == Spec => []IInv
BY InitIInv, NextIInv, PTL DEF Spec

\* The state of the service keeps its type: every stored row has a board, a column
\* and a version, whatever is created, moved, re-spaced or deleted beside it.
THEOREM TypeCorrect == Spec => []TypeOK
<1>1. IInv => TypeOK
  BY DEF IInv
<1> QED
  BY <1>1, Invariant, PTL

\* Of any number of moves of one task from one version, one at most is accepted
\* (tasks.service.ts 195-212).
THEOREM OneDragWins == Spec => []OneWinnerPerVersion
<1>1. IInv => OneWinnerPerVersion
  BY DEF IInv
<1> QED
  BY <1>1, Invariant, PTL

\* No interleaving takes a task to a column of another board, or leaves it in a
\* column that has been removed (tasks.service.ts 123-129).
THEOREM TasksKeepTheirBoard == Spec => []TaskStaysOnBoard
<1>1. IInv => TaskStaysOnBoard
  BY DEF IInv
<1> QED
  BY <1>1, Invariant, PTL

-----------------------------------------------------------------------------
(* The registers. *)

LEMMA InitRInv == Init => RInv
<1> SUFFICES ASSUME Init PROVE RInv
  OBVIOUS
<1>1. \A r \in Reqs : pc[r] = "sent" /\ reply[r].status = "none" /\ held[r] = Nothing
  BY DEF Init, NoReply
<1> QED
  BY <1>1 DEF RInv, AnswersFit, HeldCells, CreatesInsert, Nothing

LEMMA InitMaps == Init => Register!Init
<1> SUFFICES ASSUME Init PROVE Register!Init
  OBVIOUS
<1>1. \A r \in Reqs : Outcome(r) = "unsent"
  BY DEF Init, Outcome
<1> QED
  BY <1>1 DEF Init, Register!Init

\* A handler that changes no row, or fails: the registers stay as they are, and what is
\* refused was pending.
LEMMA QuietMaps ==
  ASSUME IInv, RInv, NEW r \in Reqs, InProgress(r),
         UNCHANGED <<table, columns, body, expected>>,
         NEW stage \in Stages \ {"sent", "respacing", "committed"},
         pc' = [pc EXCEPT ![r] = stage],
         \/ held' = held /\ pc[r] # "respacing"
         \/ held' = [held EXCEPT ![r] = Nothing],
         \A q \in Reqs \ {r} : reply'[q] = reply[q],
         \/ stage # "done" /\ pc[r] # "committed" /\ reply' = reply
         \/ stage = "done" /\ pc[r] = "committed" /\ reply' = reply
         \/ stage = "done" /\ pc[r] # "committed" /\ reply'[r].status \notin {"none", "ok"}
  PROVE  RInv' /\ [Register!Next]_Register!rvars
<1>1. /\ pc'[r] = stage
      /\ \A q \in Reqs \ {r} : pc'[q] = pc[q]
  BY DEF IInv, TypeOK
<1>2. \A q \in Reqs, t \in TaskIds :
        held'[q][t] # Untouched => held'[q][t] = held[q][t] /\ pc'[q] = "respacing" /\ q # r
  BY <1>1 DEF IInv, TypeOK, LocksAreExclusive, Nothing
<1>3. \A q \in Reqs \ {r} : held'[q] = held[q]
  BY DEF IInv, TypeOK
<1>4. AnswersFit'
  BY <1>1 DEF RInv, AnswersFit, InProgress, Stages
<1>5. HeldCells'
  BY <1>2 DEF RInv, HeldCells, Kind, Task, Target
<1>6. CreatesInsert'
  BY <1>1, <1>3 DEF RInv, CreatesInsert, Kind, Task
<1>7. \A q \in Reqs \ {r} : Outcome(q)' = Outcome(q)
  BY <1>1 DEF Outcome
<1>8. CASE stage = "done" /\ pc[r] # "committed" /\ reply'[r].status \notin {"none", "ok"}
  <2>1. Outcome(r) = "pending" /\ Outcome(r)' = "refused"
    BY <1>1, <1>8 DEF Outcome, InProgress, RInv, AnswersFit
  <2>2. Register!Refuse(r)
    BY <1>7, <2>1 DEF Register!Refuse
  <2> QED
    BY <1>4, <1>5, <1>6, <2>2 DEF RInv, Register!Next
<1>9. CASE reply' = reply
  <2>1. Outcome(r)' = Outcome(r)
    BY <1>1, <1>9 DEF Outcome, InProgress
  <2>2. UNCHANGED Register!rvars
    BY <1>7, <2>1 DEF Register!rvars
  <2> QED
    BY <1>4, <1>5, <1>6, <2>2 DEF RInv
<1> QED
  BY <1>8, <1>9

LEMMA QuietActionsMap ==
  ASSUME IInv, RInv, NEW r \in Reqs,
         \/ CheckTarget(r) \/ AttemptMove(r) \/ PlaceTaskFails(r)
         \/ CreateReads(r) \/ InsertTaskFails(r) \/ RespaceRowFails(r)
         \/ SerializationFailure(r) \/ GiveUp(r) \/ CreateVictim(r)
         \/ StatementFails(r) \/ Broadcast(r)
  PROVE  RInv' /\ [Register!Next]_Register!rvars
<1> USE DEF store, request, transaction, Reply, Goto, Discard, Clear, Plan, InProgress, Stages
<1>1. DOMAIN reply = Reqs
  BY DEF IInv, TypeOK
<1>2. CASE CheckTarget(r)
  BY <1>1, <1>2, QuietMaps DEF CheckTarget
<1>3. CASE AttemptMove(r)
  <2>1. PICK p \in {Place(r)} : AttemptThrows(r, p) \/ AttemptConflicts(r, p) \/ AttemptWrites(r, p)
    BY <1>3 DEF AttemptMove
  <2>2. CASE AttemptThrows(r, p)
    BY <1>1, <1>3, <2>2, QuietMaps DEF AttemptMove, AttemptThrows
  <2>3. CASE AttemptConflicts(r, p)
    BY <1>1, <1>3, <2>3, QuietMaps DEF AttemptMove, AttemptConflicts
  <2>4. CASE AttemptWrites(r, p)
    BY <1>1, <1>3, <2>4, QuietMaps DEF AttemptMove, AttemptWrites
  <2> QED
    BY <2>1, <2>2, <2>3, <2>4
<1>4. CASE PlaceTaskFails(r)
  BY <1>1, <1>4, QuietMaps DEF PlaceTaskFails
<1>5. CASE CreateReads(r)
  BY <1>1, <1>5, QuietMaps DEF CreateReads
<1>6. CASE InsertTaskFails(r)
  BY <1>1, <1>6, QuietMaps DEF InsertTaskFails
<1>7. CASE RespaceRowFails(r)
  BY <1>1, <1>7, QuietMaps DEF RespaceRowFails
<1>8. CASE SerializationFailure(r)
  <2>1. PICK stage \in {"begin", "givingUp"} : pc' = [pc EXCEPT ![r] = stage]
    BY <1>8 DEF SerializationFailure, Retry
  <2>2. /\ UNCHANGED <<table, columns, body, expected>> /\ reply' = reply
        /\ held' = [held EXCEPT ![r] = Nothing]
        /\ pc[r] \in {"placing", "respacing"}
    BY <1>8 DEF SerializationFailure, Moving, InTransaction
  <2> QED
    BY <2>1, <2>2, QuietMaps
<1>9. CASE GiveUp(r)
  BY <1>1, <1>9, QuietMaps DEF GiveUp
<1>10. CASE CreateVictim(r)
  BY <1>1, <1>10, QuietMaps DEF CreateVictim, InTransaction
<1>11. CASE StatementFails(r)
  BY <1>1, <1>11, QuietMaps DEF StatementFails, Statement
<1>12. CASE Broadcast(r)
  BY <1>1, <1>12, QuietMaps DEF Broadcast
<1> QED
  BY <1>2, <1>3, <1>4, <1>5, <1>6, <1>7, <1>8, <1>9, <1>10, <1>11, <1>12

\* The guard takes a request up or refuses it.
LEMMA AuthorizeMaps ==
  ASSUME IInv, RInv, NEW r \in Reqs, Authorize(r)
  PROVE  RInv' /\ [Register!Next]_Register!rvars
<1> USE DEF store, transaction, Goto, Reply
<1>1. /\ pc \in [Reqs -> Stages] /\ DOMAIN reply = Reqs /\ expected \in [Reqs -> Nat]
  BY DEF IInv, TypeOK
<1>2. pc[r] = "sent" /\ UNCHANGED <<table, columns, body, held>> /\ reply[r].status = "none"
  BY DEF Authorize, RInv, AnswersFit
<1>3. \A q \in Reqs \ {r} : pc'[q] = pc[q] /\ reply'[q] = reply[q]
  BY <1>1 DEF Authorize
<1>4. \/ pc'[r] = "accepted" /\ reply' = reply
      \/ pc'[r] = "done" /\ reply'[r].status = "forbidden" /\ expected' = expected
  BY <1>1 DEF Authorize
<1>5. RInv'
  BY <1>2, <1>3, <1>4
  DEF RInv, AnswersFit, HeldCells, CreatesInsert, Kind, Task, Target
<1>6. \A q \in Reqs \ {r} : Outcome(q)' = Outcome(q)
  BY <1>3 DEF Outcome
<1>7. Outcome(r) = "unsent" /\ Outcome(r)' = IF pc'[r] = "accepted" THEN "pending" ELSE "refused"
  BY <1>2, <1>4 DEF Outcome
<1>8. pc'[r] = "accepted" => \E v \in Nat : expected' = [expected EXCEPT ![r] = v]
  <2>1. Kind(r) = "move" /\ table[Task(r)] # NoRow => table[Task(r)].version \in Nat
    BY Named DEF IInv, TypeOK, IsRow
  <2>2. Kind(r) = "move" /\ table[Task(r)] # NoRow =>
          0 .. (table[Task(r)].version + MaxAhead) \subseteq Nat
    BY <2>1, AheadAssumption
  <2> QED
    BY <1>1, <2>2 DEF Authorize
<1>9. Register!Submit(r)
  BY <1>1, <1>2, <1>4, <1>6, <1>7, <1>8 DEF Register!Submit
<1> QED
  BY <1>5, <1>9 DEF Register!Next

\* A write inside a transaction is in no register yet.
LEMMA WriteMaps ==
  ASSUME IInv, RInv, NEW r \in Reqs, NEW t, NEW x,
         UNCHANGED <<table, columns, body, expected, reply>>,
         InTransaction(r),
         pc' = [pc EXCEPT ![r] = "respacing"],
         held' = [held EXCEPT ![r][t] = x],
         t \in TaskIds =>
           /\ x # Untouched
           /\ t = Task(r) => /\ x.columnId = Target(r)
                             /\ Kind(r) = "create" => x.version = 0
           /\ t # Task(r) => /\ x.columnId = table[t].columnId
                             /\ x.boardId = table[t].boardId,
         Kind(r) = "create" => t = Task(r) \/ pc[r] = "respacing"
  PROVE  RInv' /\ [Register!Next]_Register!rvars
<1>1. /\ pc'[r] = "respacing"
      /\ \A q \in Reqs \ {r} : pc'[q] = pc[q] /\ held'[q] = held[q]
      /\ \A i \in TaskIds : held'[r][i] = IF i = t THEN x ELSE held[r][i]
  BY DEF IInv, TypeOK
<1>2. AnswersFit'
  BY <1>1 DEF RInv, AnswersFit, InTransaction
<1>3. HeldCells'
  BY <1>1 DEF RInv, HeldCells, Kind, Task, Target
<1>4. CreatesInsert'
  <2>1. Kind(r) = "create" => Task(r) \in TaskIds
    BY Named DEF IInv, TypeOK
  <2> QED
    BY <1>1, <2>1 DEF RInv, CreatesInsert, Kind, Task
<1>5. \A q \in Reqs : Outcome(q)' = Outcome(q)
  BY <1>1 DEF Outcome, InTransaction
<1> QED
  BY <1>2, <1>3, <1>4, <1>5 DEF RInv, Register!rvars

LEMMA PlaceTaskMaps ==
  ASSUME IInv, RInv, NEW r \in Reqs, PlaceTask(r)
  PROVE  RInv' /\ [Register!Next]_Register!rvars
<1>1. /\ Task(r) \in TaskIds /\ IsRow(table[Task(r)]) /\ Target(r) \in Columns
      /\ UNCHANGED <<table, columns, body, expected, reply>>
      /\ Kind(r) = "move" /\ InTransaction(r)
      /\ pc' = [pc EXCEPT ![r] = "respacing"]
  BY Named
  DEF PlaceTask, InTransaction, Goto, store, request, IInv, TypeOK, MatchedVersionsHold,
      Moving, VersionMatches
<1>2. PICK x : x = [table[Task(r)] EXCEPT !.rank = newRank[r], !.columnId = Target(r),
                                          !.version = @ + 1]
  OBVIOUS
<1>3. x = [boardId |-> table[Task(r)].boardId, columnId |-> Target(r), rank |-> newRank[r],
           version |-> table[Task(r)].version + 1]
  BY <1>1, <1>2 DEF IsRow
<1>4. x.columnId = Target(r) /\ x # Untouched
  BY <1>3 DEF Untouched
<1>5. held' = [held EXCEPT ![r][Task(r)] = x]
  BY <1>2 DEF PlaceTask
<1> QED
  BY <1>1, <1>4, <1>5, WriteMaps

LEMMA InsertTaskMaps ==
  ASSUME IInv, RInv, NEW r \in Reqs, InsertTask(r)
  PROVE  RInv' /\ [Register!Next]_Register!rvars
<1> DEFINE x == [boardId |-> board[r], columnId |-> Target(r), rank |-> newRank[r], version |-> 0]
<1>1. x.columnId = Target(r) /\ x.version = 0 /\ x # Untouched
  BY DEF Untouched
<1>2. held' = [held EXCEPT ![r][Task(r)] = x]
  BY DEF InsertTask
<1> HIDE DEF x
<1>3. /\ UNCHANGED <<table, columns, body, expected, reply>>
      /\ InTransaction(r) /\ pc' = [pc EXCEPT ![r] = "respacing"]
  BY DEF InsertTask, InTransaction, Goto, store, request
<1> QED
  BY <1>1, <1>2, <1>3, WriteMaps

LEMMA RespaceRowMaps ==
  ASSUME IInv, RInv, NEW r \in Reqs, RespaceRow(r)
  PROVE  RInv' /\ [Register!Next]_Register!rvars
<1>1. PICK t, k, z, x :
        /\ z = Seen(r)[t] /\ z # NoRow
        /\ x = [z EXCEPT !.rank = k]
        /\ held' = [held EXCEPT ![r][t] = x]
  BY DEF RespaceRow
<1>2. t \in TaskIds =>
        /\ IsRow(x) /\ x.version = z.version /\ x.columnId = z.columnId /\ x.boardId = z.boardId
  <2>1. t \in TaskIds => IsRow(z)
    BY <1>1, SeenRows
  <2> QED
    BY <1>1, <2>1, Reranked
<1>3. /\ UNCHANGED <<table, columns, body, expected, reply>>
      /\ pc[r] = "respacing" /\ InTransaction(r)
      /\ pc' = [pc EXCEPT ![r] = "respacing"]
  BY DEF RespaceRow, InTransaction, store, request, IInv, TypeOK
<1>4. Kind(r) \in {"move", "create"} /\ held[r][Task(r)] # Untouched
  BY <1>3 DEF IInv, TypeOK, PlacedVersions, Moving, RInv, CreatesInsert
<1>5. t \in TaskIds =>
        /\ t = Task(r) => /\ z.columnId = Target(r)
                          /\ Kind(r) = "create" => z.version = 0
        /\ t # Task(r) => z.columnId = table[t].columnId /\ z.boardId = table[t].boardId
  BY <1>1, <1>4 DEF Seen, RInv, HeldCells
<1>6. t \in TaskIds => x # Untouched
  BY <1>2, RowsAreRows
<1> QED
  BY <1>1, <1>2, <1>3, <1>5, <1>6, WriteMaps

\* A commit is the instant a move or a create takes effect: the row it is about is
\* written, and the rows it has re-spaced keep their registers.
LEMMA CommitMaps ==
  ASSUME IInv, RInv, NEW r \in Reqs, Commit(r)
  PROVE  RInv' /\ [Register!Next]_Register!rvars
<1> USE DEF store, request, Goto, Plan
<1>1. /\ UNCHANGED <<columns, body, expected>>
      /\ pc[r] = "respacing" /\ pc' = [pc EXCEPT ![r] = "committed"]
      /\ table' = Seen(r)
      /\ held' = [held EXCEPT ![r] = Nothing]
      /\ Kind(r) \in {"move", "create"} /\ Task(r) \in TaskIds /\ Target(r) \in Columns
      /\ reply[r].status = "none" /\ reply'[r].status = "ok"
  BY Named DEF Commit, IInv, TypeOK, InTransaction, RInv, AnswersFit
<1>2. /\ pc'[r] = "committed" /\ \A t \in TaskIds : held'[r][t] = Untouched
      /\ \A q \in Reqs \ {r} : pc'[q] = pc[q] /\ held'[q] = held[q] /\ reply'[q] = reply[q]
  BY <1>1 DEF IInv, TypeOK, Commit, Nothing
<1>3. \A t \in TaskIds :
        table'[t] = IF held[r][t] = Untouched THEN table[t] ELSE held[r][t]
  BY <1>1 DEF Seen
<1>4. AnswersFit'
  BY <1>1, <1>2 DEF RInv, AnswersFit
<1>5. HeldCells'
  <2>1. \A q \in Reqs, t \in TaskIds :
          held'[q][t] # Untouched => q # r /\ held'[q][t] = held[q][t] /\ table'[t] = table[t]
    BY <1>2, <1>3 DEF IInv, LocksAreExclusive, LockedByOther
  <2> QED
    BY <1>1, <2>1 DEF RInv, HeldCells, Kind, Task, Target
<1>6. CreatesInsert'
  BY <1>1, <1>2 DEF RInv, CreatesInsert, Kind, Task
<1>7. /\ held[r][Task(r)] # Untouched
      /\ table'[Task(r)] = held[r][Task(r)]
      /\ IsRow(table'[Task(r)])
      /\ table'[Task(r)].columnId = Target(r)
      /\ Target(r) \in columns
      /\ BoardOf[Target(r)] = table'[Task(r)].boardId
      /\ table[Task(r)] # NoRow => table'[Task(r)].boardId = table[Task(r)].boardId
  <2>1. held[r][Task(r)] # Untouched
    BY <1>1 DEF IInv, PlacedVersions, Moving, InTransaction, RInv, CreatesInsert
  <2> QED
    BY <1>1, <1>3, <2>1 DEF IInv, TypeOK, HeldOnBoard, RInv, HeldCells
<1>8. \A t \in TaskIds : t # Task(r) => Cell(table[t])' = Cell(table[t])
  <2> SUFFICES ASSUME NEW t \in TaskIds, t # Task(r), held[r][t] # Untouched
      PROVE  Cell(table[t])' = Cell(table[t])
    BY <1>3
  <2>1. /\ table'[t] = held[r][t] /\ IsRow(table'[t]) /\ table[t] # NoRow
        /\ table'[t].version = table[t].version
        /\ table'[t].columnId = table[t].columnId
        /\ table'[t].boardId = table[t].boardId
    BY <1>3 DEF IInv, TypeOK, RespacedVersions, RInv, HeldCells
  <2>2. table'[t] # NoRow
    BY <2>1, RowsAreRows
  <2> QED
    BY <2>1, <2>2 DEF Cell
<1>9. /\ \A q \in Reqs \ {r} : Outcome(q)' = Outcome(q)
      /\ Outcome(r) = "pending" /\ Outcome(r)' = "applied"
  BY <1>1, <1>2 DEF Outcome
<1>10. Cell(table[Task(r)])' = [boardId  |-> table'[Task(r)].boardId, columnId |-> Target(r),
                                version  |-> table'[Task(r)].version]
  <2>1. table'[Task(r)] # NoRow
    BY <1>7, RowsAreRows
  <2>2. Cell(table[Task(r)])' = [boardId  |-> table'[Task(r)].boardId,
                                 columnId |-> table'[Task(r)].columnId,
                                 version  |-> table'[Task(r)].version]
    BY <1>1, <2>1, Zenon DEF Cell, Task
  <2> QED
    BY <1>7, <2>2
<1>11. CASE Kind(r) = "move"
  <2>1. /\ table[Task(r)] # NoRow
        /\ table[Task(r)].version = expected[r]
        /\ table'[Task(r)].version = expected[r] + 1
    BY <1>1, <1>7, <1>11
    DEF IInv, MatchedVersionsHold, PlacedVersions, VersionMatches, Moving, InTransaction
  <2>2. IsRow(table[Task(r)])
    BY <1>1, <2>1 DEF IInv, TypeOK
  <2>3. PICK c : c = Cell(table[Task(r)])
    OBVIOUS
  <2>4. c # Register!Absent /\ c.version = expected[r] /\ c.boardId = table[Task(r)].boardId
    BY <2>1, <2>2, <2>3 DEF Cell, Register!Absent, IsRow
  <2>5. Cell(table[Task(r)])' = [boardId |-> c.boardId, columnId |-> Target(r),
                                 version |-> expected[r] + 1]
    BY <1>7, <1>10, <2>1, <2>4
  <2>6. Register!Move(r)
    BY <1>1, <1>7, <1>8, <1>9, <1>11, <2>1, <2>3, <2>4, <2>5
    DEF Register!Move, Register!Apply, Kind, Task, Target
  <2> QED
    BY <1>4, <1>5, <1>6, <2>6 DEF RInv, Register!Next
<1>12. CASE Kind(r) = "create"
  <2>1. table[Task(r)] = NoRow
    BY <1>1, <1>12 DEF IInv, CreatesAreNew, Creating
  <2>2. table'[Task(r)].version = 0
    BY <1>1, <1>7, <1>12 DEF RInv, HeldCells
  <2>3. Cell(table[Task(r)]) = Register!Absent
    BY <2>1 DEF Cell, Register!Absent, NoRow
  <2>4. Cell(table[Task(r)])' = [boardId |-> BoardOf[Target(r)], columnId |-> Target(r),
                                 version |-> 0]
    BY <1>7, <1>10, <2>2
  <2>5. Register!Create(r)
    BY <1>1, <1>7, <1>8, <1>9, <1>12, <2>3, <2>4
    DEF Register!Create, Register!Apply, Kind, Task, Target
  <2> QED
    BY <1>4, <1>5, <1>6, <2>5 DEF RInv, Register!Next
<1> QED
  BY <1>1, <1>11, <1>12

\* A single statement takes effect at once, on rows no transaction holds.
LEMMA StatementMaps ==
  ASSUME IInv, RInv, NEW r \in Reqs, UpdateTask(r) \/ RemoveTask(r) \/ RemoveColumn(r)
  PROVE  RInv' /\ [Register!Next]_Register!rvars
<1> USE DEF store, request, Goto, Statement
<1>1. /\ UNCHANGED <<body, expected, held>>
      /\ pc[r] = "accepted" /\ pc' = [pc EXCEPT ![r] = "committed"]
      /\ reply[r].status = "none" /\ reply'[r].status = "ok"
      /\ \A t \in TaskIds : held[r][t] = Untouched
      /\ Kind(r) \in {"update", "remove", "removeColumn"}
      /\ Kind(r) # "removeColumn" => Task(r) \in TaskIds
  BY Named
  DEF UpdateTask, RemoveTask, RemoveColumn, IInv, TypeOK, RInv, AnswersFit, LocksAreExclusive
<1>2. /\ pc'[r] = "committed"
      /\ \A q \in Reqs \ {r} : pc'[q] = pc[q] /\ reply'[q] = reply[q]
  BY <1>1 DEF IInv, TypeOK, UpdateTask, RemoveTask, RemoveColumn
<1>3. AnswersFit' /\ CreatesInsert'
  BY <1>1, <1>2 DEF RInv, AnswersFit, CreatesInsert, Kind, Task
<1>4. HeldCells'
  <2>1. \A q \in Reqs, t \in TaskIds : held[q][t] # Untouched => table'[t] = table[t]
    BY <1>1 DEF UpdateTask, RemoveTask, RemoveColumn, LockedByOther, IInv, TypeOK
  <2> QED
    BY <1>1, <2>1 DEF RInv, HeldCells, Kind, Task, Target
<1>5. /\ \A q \in Reqs \ {r} : Outcome(q)' = Outcome(q)
      /\ Outcome(r) = "pending" /\ Outcome(r)' = "applied"
  BY <1>1, <1>2 DEF Outcome
<1>6. \A t \in TaskIds : table[t] # NoRow => Cell(table[t]) # Register!Absent /\ IsRow(table[t])
  BY DEF IInv, TypeOK, Cell, Register!Absent, IsRow
<1>7. Cell(NoRow) = Register!Absent
  BY DEF Cell, NoRow, Register!Absent
<1>8. CASE UpdateTask(r)
  <2>1. Register!Edit(r)
    BY <1>1, <1>5, <1>6, <1>8 DEF UpdateTask, Register!Edit, Register!Apply, Kind, Task
  <2> QED
    BY <1>3, <1>4, <2>1 DEF RInv, Register!Next
<1>9. CASE RemoveTask(r)
  <2>1. /\ \A t \in TaskIds : table'[t] = IF t = Task(r) THEN NoRow ELSE table[t]
        /\ UNCHANGED columns /\ Kind(r) = "remove" /\ table[Task(r)] # NoRow
    BY <1>9 DEF RemoveTask, IInv, TypeOK
  <2>2. Register!Remove(r)
    BY <1>1, <1>5, <1>6, <1>7, <2>1 DEF Register!Remove, Register!Apply, Kind, Task
  <2> QED
    BY <1>3, <1>4, <2>2 DEF RInv, Register!Next
<1>10. CASE RemoveColumn(r)
  <2>1. /\ \A t \in TaskIds :
             table'[t] = IF table[t] # NoRow /\ table[t].columnId = Target(r)
                         THEN NoRow ELSE table[t]
        /\ columns' = columns \ {Target(r)} /\ Target(r) \in columns
        /\ Kind(r) = "removeColumn"
    BY <1>10 DEF RemoveColumn, InColumn
  <2>2. \A t \in TaskIds : table[t] # NoRow => Cell(table[t]).columnId = table[t].columnId
    BY DEF Cell
  <2>3. \A t \in TaskIds : table[t] = NoRow => Cell(table[t]) = Register!Absent
    BY <1>7
  <2>4. \A t \in TaskIds :
          Cell(table[t])' = IF /\ Cell(table[t]) # Register!Absent
                               /\ Cell(table[t]).columnId = Target(r)
                            THEN Register!Absent ELSE Cell(table[t])
    BY <1>6, <1>7, <2>1, <2>2, <2>3
  <2>5. Register!RemoveColumn(r)
    BY <1>1, <1>5, <2>1, <2>4 DEF Register!RemoveColumn, Register!Apply, Kind, Target
  <2> QED
    BY <1>3, <1>4, <2>5 DEF RInv, Register!Next
<1> QED
  BY <1>8, <1>9, <1>10

LEMMA NextMaps == IInv /\ RInv /\ [Next]_vars => RInv' /\ [Register!Next]_Register!rvars
<1> SUFFICES ASSUME IInv, RInv, [Next]_vars
    PROVE  RInv' /\ [Register!Next]_Register!rvars
  OBVIOUS
<1>1. ASSUME UNCHANGED vars PROVE RInv' /\ UNCHANGED Register!rvars
  BY <1>1 DEF vars, RInv, AnswersFit, HeldCells, CreatesInsert, Outcome, Kind, Task, Target,
              Register!rvars
<1>2. ASSUME NEW r \in Reqs, Authorize(r)
      PROVE  RInv' /\ [Register!Next]_Register!rvars
  BY <1>2, AuthorizeMaps
<1>3. ASSUME NEW r \in Reqs, Handle(r)
      PROVE  RInv' /\ [Register!Next]_Register!rvars
  BY <1>3, QuietActionsMap, PlaceTaskMaps, InsertTaskMaps, RespaceRowMaps, CommitMaps,
     StatementMaps
  DEF Handle
<1> QED
  BY <1>1, <1>2, <1>3 DEF Next, Idle

\* For every set of requests, tasks and columns, the service's statements, row locks,
\* serialization failures and retries are invisible: what a client can tell apart is a
\* set of registers whose moves compare and set (tasks.service.ts 112-238).
THEOREM RegisterImplemented == Spec => ImplementsRegister
<1>1. IInv /\ RInv /\ [Next]_vars => RInv'
  BY NextMaps
<1>2. IInv /\ RInv /\ [Next]_vars => [Register!Next]_Register!rvars
  BY NextMaps
<1> QED
  BY InitRInv, InitMaps, Invariant, <1>1, <1>2, PTL DEF Spec, ImplementsRegister, Register!Spec

(* What is announced, and the count of the moves. *)

\* The answer of an accepted move carries the version after the one it matched.
AnswersCarryVersions ==
  \A r \in Reqs : Won(r) => reply[r].row.version = expected[r] + 1

\* Every move on the wire is an accepted one's, and no two carry one version.
WireHolds ==
  /\ \E S : wire \in Seq(S)
  /\ \A i \in 1 .. Len(wire) :
       wire[i].event = "move" =>
         /\ \E r \in Reqs : /\ Won(r) /\ pc[r] = "done"
                            /\ Task(r) = wire[i].id /\ reply[r].row = wire[i].row
         /\ \A j \in 1 .. Len(wire) :
              wire[j].event = "move" /\ wire[j].id = wire[i].id
                /\ wire[j].row.version = wire[i].row.version => i = j

AInv == AnswersCarryVersions /\ WireHolds

\* A handler says nothing before its last step, and wins when it commits only.
LEMMA StepsAreSilent ==
  ASSUME IInv, RInv, NEW r \in Reqs, Authorize(r) \/ Handle(r), ~Broadcast(r)
  PROVE  /\ pc[r] \notin {"committed", "done"} /\ wire' = wire /\ body' = body
         /\ \A q \in Reqs \ {r} :
              pc'[q] = pc[q] /\ reply'[q] = reply[q] /\ expected'[q] = expected[q]
         /\ Won(r)' => Commit(r)
         /\ ~Commit(r) => \A t \in TaskIds : table'[t] = table[t] \/ table'[t] = NoRow
<1> USE DEF store, request, transaction, Reply, Goto, Discard, Clear, Plan
<1>1. /\ DOMAIN reply = Reqs /\ pc \in [Reqs -> Stages] /\ expected \in [Reqs -> Nat]
      /\ reply[r].status = "none" <=> pc[r] \notin {"committed", "done"}
  BY DEF IInv, TypeOK, RInv, AnswersFit
<1>2. CASE Authorize(r) \/ CheckTarget(r)
  BY <1>1, <1>2 DEF Authorize, CheckTarget, Won, Kind
<1>3. CASE AttemptMove(r)
  <2>1. PICK p \in {Place(r)} : AttemptThrows(r, p) \/ AttemptConflicts(r, p) \/ AttemptWrites(r, p)
    BY <1>3 DEF AttemptMove
  <2> QED
    BY <1>1, <1>3, <2>1
    DEF AttemptMove, AttemptThrows, AttemptConflicts, AttemptWrites, Won, Kind
<1>4. CASE PlaceTask(r) \/ PlaceTaskFails(r) \/ CreateReads(r)
  BY <1>1, <1>4 DEF PlaceTask, PlaceTaskFails, CreateReads, Won, Kind
<1>5. CASE InsertTask(r) \/ InsertTaskFails(r)
  BY <1>1, <1>5 DEF InsertTask, InsertTaskFails, Won, Kind
<1>6. CASE RespaceRow(r) \/ RespaceRowFails(r)
  BY <1>1, <1>6 DEF RespaceRow, RespaceRowFails, Won, Kind
<1>7. CASE Commit(r)
  BY <1>1, <1>7 DEF Commit
<1>8. CASE SerializationFailure(r) \/ GiveUp(r) \/ CreateVictim(r)
  BY <1>1, <1>8
  DEF SerializationFailure, GiveUp, CreateVictim, Retry, Moving, InTransaction, Won, Kind
<1>9. CASE UpdateTask(r) \/ RemoveTask(r) \/ RemoveColumn(r) \/ StatementFails(r)
  <2>1. \A t \in TaskIds : table'[t] = table[t] \/ table'[t] = NoRow
    BY <1>9
    DEF UpdateTask, RemoveTask, RemoveColumn, StatementFails, Statement, IInv, TypeOK
  <2> QED
    BY <1>1, <1>9, <2>1
    DEF UpdateTask, RemoveTask, RemoveColumn, StatementFails, Statement, MarkStale, Won, Kind
<1> QED
  BY <1>2, <1>3, <1>4, <1>5, <1>6, <1>7, <1>8, <1>9 DEF Handle

LEMMA NextAInv == IInv /\ IInv' /\ RInv /\ AInv /\ [Next]_vars => AInv'
<1> SUFFICES ASSUME IInv, IInv', RInv, AInv, [Next]_vars PROVE AInv'
  OBVIOUS
<1>1. /\ DOMAIN reply = Reqs /\ pc \in [Reqs -> Stages] /\ expected \in [Reqs -> Nat]
  BY DEF IInv, TypeOK
<1>2. ASSUME NEW r \in Reqs, Authorize(r) \/ Handle(r), ~Broadcast(r) PROVE AInv'
  <2>1. /\ pc[r] \notin {"committed", "done"} /\ wire' = wire /\ body' = body
        /\ \A q \in Reqs \ {r} :
             pc'[q] = pc[q] /\ reply'[q] = reply[q] /\ expected'[q] = expected[q]
        /\ Won(r)' => Commit(r)
    BY <1>2, StepsAreSilent
  <2>2. \A q \in Reqs \ {r} : Won(q)' <=> Won(q)
    BY <2>1 DEF Won, Kind
  <2>3. Won(r)' => reply'[r].row.version = expected'[r] + 1
    <3>1. SUFFICES ASSUME Won(r)' PROVE reply'[r].row.version = expected'[r] + 1
      OBVIOUS
    <3>2. Commit(r) /\ Kind(r) = "move"
      BY <2>1, <3>1 DEF Won, Kind
    <3>3. /\ held[r][Task(r)].version = expected[r] + 1
          /\ reply'[r].row = held[r][Task(r)] /\ expected' = expected
      BY <1>1, <3>2
      DEF Commit, request, IInv, PlacedVersions, Moving, InTransaction
    <3> QED
      BY <3>3
  <2>4. AnswersCarryVersions'
    BY <2>1, <2>2, <2>3 DEF AInv, AnswersCarryVersions
  <2>5. \A q \in Reqs :
          Won(q) /\ pc[q] = "done" =>
            Won(q)' /\ pc'[q] = "done" /\ Task(q)' = Task(q) /\ reply'[q] = reply[q]
    BY <2>1, <2>2 DEF Task
  <2>6. WireHolds'
    BY <2>1, <2>5 DEF AInv, WireHolds
  <2> QED
    BY <2>4, <2>6 DEF AInv
<1>3. ASSUME NEW r \in Reqs, Broadcast(r) PROVE AInv'
  <2> DEFINE e == [event |-> Kind(r), id |-> Task(r), row |-> reply[r].row]
  <2>1. /\ pc[r] = "committed" /\ pc' = [pc EXCEPT ![r] = "done"]
        /\ UNCHANGED <<body, expected, reply>> /\ wire' = Append(wire, e)
        /\ reply[r].status = "ok"
    BY <1>3 DEF Broadcast, Goto, request, RInv, AnswersFit
  <2>2. \A q \in Reqs : Won(q)' <=> Won(q)
    BY <1>1, <2>1 DEF Won, Kind
  <2>3. AnswersCarryVersions'
    BY <2>1, <2>2 DEF AInv, AnswersCarryVersions
  <2>4. PICK S : wire \in Seq(S)
    BY DEF AInv, WireHolds
  <2>5. wire \in Seq(S \cup {e}) /\ e \in S \cup {e}
    BY <2>4
  <2>6. wire' \in Seq(S \cup {e})
    BY <2>1, <2>5
  <2>7. /\ Len(wire') = Len(wire) + 1 /\ Len(wire) \in Nat /\ wire'[Len(wire) + 1] = e
        /\ \A i \in 1 .. Len(wire) : wire'[i] = wire[i]
    BY <2>1, <2>5
  <2>8. \A i \in 1 .. Len(wire') : i \in 1 .. Len(wire) \/ i = Len(wire) + 1
    BY <2>7
  <2>9. \A q \in Reqs :
          Won(q) /\ pc[q] = "done" =>
            Won(q)' /\ pc'[q] = "done" /\ Task(q)' = Task(q) /\ reply'[q] = reply[q]
    BY <1>1, <2>1, <2>2 DEF Task
  <2>10. Kind(r) = "move" =>
           Won(r)' /\ pc'[r] = "done" /\ Task(r)' = Task(r) /\ reply'[r].row = e.row
    BY <1>1, <2>1, <2>2 DEF Won, Task
  \* Two accepted moves of one task are from different versions.
  <2>11. \A i \in 1 .. Len(wire) :
           e.event = "move" /\ wire[i].event = "move" /\ wire[i].id = e.id =>
             wire[i].row.version # e.row.version
    <3>1. SUFFICES ASSUME NEW i \in 1 .. Len(wire), Kind(r) = "move", wire[i].event = "move",
                          wire[i].id = Task(r), wire[i].row.version = reply[r].row.version
                   PROVE  FALSE
      OBVIOUS
    <3>2. PICK q \in Reqs : /\ Won(q) /\ pc[q] = "done"
                            /\ Task(q) = Task(r) /\ reply[q].row = wire[i].row
      BY <3>1 DEF AInv, WireHolds
    <3>3. Won(r)
      BY <2>1, <3>1 DEF Won
    <3>4. expected[q] + 1 = expected[r] + 1
      BY <3>1, <3>2, <3>3 DEF AInv, AnswersCarryVersions
    <3>5. expected[q] = expected[r]
      BY <1>1, <3>4
    <3> QED
      BY <2>1, <3>2, <3>3, <3>5 DEF IInv, OneWinnerPerVersion
  <2>12. WireHolds'
    <3>1. \A i \in 1 .. Len(wire') :
            wire'[i].event = "move" =>
              \E q \in Reqs : /\ Won(q)' /\ pc'[q] = "done"
                              /\ Task(q)' = wire'[i].id /\ reply'[q].row = wire'[i].row
      BY <2>7, <2>8, <2>9, <2>10 DEF AInv, WireHolds
    <3>2. \A i, j \in 1 .. Len(wire') :
            /\ wire'[i].event = "move" /\ wire'[j].event = "move" /\ wire'[j].id = wire'[i].id
            /\ wire'[j].row.version = wire'[i].row.version
            => i = j
      BY <2>7, <2>8, <2>11 DEF AInv, WireHolds
    <3> QED
      BY <2>6, <3>1, <3>2 DEF WireHolds
  <2> QED
    BY <2>3, <2>12 DEF AInv
<1>4. ASSUME UNCHANGED vars PROVE AInv'
  BY <1>4 DEF vars, AInv, AnswersCarryVersions, WireHolds, Won, Kind, Task
<1> QED
  BY <1>2, <1>3, <1>4 DEF Next, Idle

\* Each accepted move is announced once, at a version the task has reached and no other
\* event has, whatever fails, is retried or is announced first (tasks.service.ts 135-161).
THEOREM MovesAnnouncedOnce == Spec => []AnnouncedOnceCommitted
<1>1. Init => AInv
  <2>1. ASSUME Init PROVE wire = <<>> /\ \A r \in Reqs : ~Won(r)
    BY <2>1 DEF Init, Won
  <2>2. <<>> \in Seq({}) /\ Len(<<>>) = 0
    OBVIOUS
  <2> QED
    BY <2>1, <2>2 DEF AInv, AnswersCarryVersions, WireHolds
<1>2. IInv /\ AInv => AnnouncedOnceCommitted
  <2> SUFFICES ASSUME IInv, AInv,
                      NEW i \in 1 .. Len(wire), wire[i].event = "move",
                      table[wire[i].id] # NoRow
               PROVE  wire[i].row.version <= table[wire[i].id].version
    BY DEF AInv, WireHolds, AnnouncedOnceCommitted
  <2>1. PICK r \in Reqs : Won(r) /\ Task(r) = wire[i].id /\ reply[r].row = wire[i].row
    BY DEF AInv, WireHolds
  <2>2. wire[i].row.version = expected[r] + 1 /\ expected[r] < table[wire[i].id].version
    BY <2>1 DEF AInv, AnswersCarryVersions, IInv, WinnersAreBehind
  <2>3. Kind(r) = "move" /\ Task(r) \in TaskIds
    BY <2>1, Named DEF Won, IInv, TypeOK
  <2>4. expected[r] \in Nat /\ table[wire[i].id].version \in Nat
    BY <2>1, <2>3 DEF IInv, TypeOK, IsRow
  <2>5. \A m, n \in Nat : m < n => m + 1 <= n
    OBVIOUS
  <2> QED
    BY <2>2, <2>4, <2>5
<1> QED
  BY <1>1, <1>2, InitIInv, NextIInv, InitRInv, NextMaps, NextAInv, PTL DEF Spec

Accepted(t) == {r \in Reqs : Won(r) /\ Task(r) = t}

CountsHold == VersionCountsMoves /\ \A t \in TaskIds : IsFiniteSet(Accepted(t))

\* A commit counts the move that it accepts; the row of a create starts at the count.
LEMMA CommitCounts ==
  ASSUME IInv, RInv, CountsHold, NEW r \in Reqs, Commit(r)
  PROVE  CountsHold'
<1>1. /\ pc[r] = "respacing" /\ pc' = [pc EXCEPT ![r] = "committed"]
      /\ body' = body /\ table' = Seen(r) /\ reply'[r].status = "ok"
      /\ Kind(r) \in {"move", "create"} /\ Task(r) \in TaskIds
      /\ DOMAIN reply = Reqs /\ pc \in [Reqs -> Stages]
  BY Named DEF Commit, Goto, request, IInv, TypeOK, InTransaction
<1>2. \A q \in Reqs \ {r} : pc'[q] = pc[q] /\ reply'[q] = reply[q]
  BY <1>1 DEF Commit
<1>3. /\ \A q \in Reqs \ {r} : Won(q)' <=> Won(q)
      /\ ~Won(r) /\ (Won(r)' <=> Kind(r) = "move")
  BY <1>1, <1>2 DEF Won, Kind
<1>4. \A t \in TaskIds :
        Accepted(t)' = IF Kind(r) = "move" /\ t = Task(r) THEN Accepted(t) \cup {r}
                       ELSE Accepted(t)
  BY <1>1, <1>3 DEF Accepted, Task
<1>5. \A t \in TaskIds : IsFiniteSet(Accepted(t))' /\ Cardinality(Accepted(t)) \in Nat
  BY <1>4, FS_AddElement, FS_CardinalityType DEF CountsHold
<1>6. \A t \in TaskIds :
        table'[t] = IF held[r][t] = Untouched THEN table[t] ELSE held[r][t]
  BY <1>1 DEF Seen
<1>7. ASSUME NEW t \in TaskIds, t # Task(r), table'[t] # NoRow
      PROVE  table[t] # NoRow /\ table'[t].version = table[t].version
  BY <1>6, <1>7 DEF IInv, RespacedVersions
<1>8. CASE Kind(r) = "move"
  <2>1. /\ table[Task(r)] # NoRow /\ table[Task(r)].version = expected[r]
        /\ table'[Task(r)].version = expected[r] + 1
    BY <1>1, <1>6, <1>8
    DEF IInv, MatchedVersionsHold, PlacedVersions, VersionMatches, Moving, InTransaction
  <2>2. Cardinality(Accepted(Task(r)) \cup {r}) = Cardinality(Accepted(Task(r))) + 1
    BY <1>1, <1>3, FS_AddElement DEF CountsHold, Accepted
  <2>3. InitialTable[Task(r)] # NoRow => InitialTable[Task(r)].version \in Nat
    BY <1>1, TableAssumption DEF IsRow
  <2>4. table'[Task(r)].version =
          (IF InitialTable[Task(r)] = NoRow THEN 0 ELSE InitialTable[Task(r)].version)
            + Cardinality(Accepted(Task(r)))'
    <3>1. expected[r] =
            (IF InitialTable[Task(r)] = NoRow THEN 0 ELSE InitialTable[Task(r)].version)
              + Cardinality(Accepted(Task(r)))
      BY <1>1, <2>1 DEF CountsHold, VersionCountsMoves, Accepted
    <3> QED
      <4>1. /\ Cardinality(Accepted(Task(r)))' = Cardinality(Accepted(Task(r))) + 1
            /\ Cardinality(Accepted(Task(r))) \in Nat
        BY <1>1, <1>4, <1>5, <1>8, <2>2 DEF Task
      <4>2. \A m, n, e \in Nat : e = m + n => e + 1 = m + (n + 1)
        OBVIOUS
      <4>3. (IF InitialTable[Task(r)] = NoRow THEN 0 ELSE InitialTable[Task(r)].version) \in Nat
        BY <2>3
      <4>4. expected[r] \in Nat
        BY DEF IInv, TypeOK
      <4> QED
        BY <2>1, <3>1, <4>1, <4>2, <4>3, <4>4
  <2>5. ASSUME NEW t \in TaskIds, table'[t] # NoRow
        PROVE  table'[t].version =
                 (IF InitialTable[t] = NoRow THEN 0 ELSE InitialTable[t].version)
                   + Cardinality(Accepted(t)')
    <3>1. CASE t = Task(r)
      BY <1>1, <2>4, <3>1 DEF Task
    <3>2. CASE t # Task(r)
      BY <1>4, <1>7, <2>5, <3>2 DEF CountsHold, VersionCountsMoves, Accepted
    <3> QED
      BY <3>1, <3>2
  <2> QED
    BY <1>5, <2>5 DEF CountsHold, VersionCountsMoves, Accepted
<1>9. CASE Kind(r) = "create"
  <2>1. Accepted(Task(r)) = {}
    BY <1>1, <1>3, <1>9 DEF IInv, CreatesAreNew, Creating, Accepted, Won
  <2>2. table'[Task(r)].version = 0
    BY <1>1, <1>6, <1>9 DEF RInv, HeldCells, CreatesInsert
  <2>3. InitialTable[Task(r)] = NoRow
    <3>1. body \in [Reqs -> Bodies] /\ WellFormed(body)
      BY WorkloadAssumption DEF IInv, TypeOK
    <3> QED
      BY <1>9, <3>1 DEF WellFormed, Kind, Task
  <2>4. Cardinality(Accepted(Task(r))) = 0
    BY <2>1, FS_EmptySet
  <2>5. ASSUME NEW t \in TaskIds, table'[t] # NoRow
        PROVE  table'[t].version =
                 (IF InitialTable[t] = NoRow THEN 0 ELSE InitialTable[t].version)
                   + Cardinality(Accepted(t)')
    <3>1. CASE t = Task(r)
      BY <1>1, <1>4, <1>9, <2>2, <2>3, <2>4, <3>1
    <3>2. CASE t # Task(r)
      BY <1>4, <1>7, <2>5, <3>2 DEF CountsHold, VersionCountsMoves, Accepted
    <3> QED
      BY <3>1, <3>2
  <2> QED
    BY <1>5, <2>5 DEF CountsHold, VersionCountsMoves, Accepted
<1> QED
  BY <1>1, <1>8, <1>9

LEMMA NextCountsHold == IInv /\ RInv /\ CountsHold /\ [Next]_vars => CountsHold'
<1> SUFFICES ASSUME IInv, RInv, CountsHold, [Next]_vars PROVE CountsHold'
  OBVIOUS
<1>1. ASSUME \A t \in TaskIds : table'[t] = table[t] \/ table'[t] = NoRow,
             \A r \in Reqs : Won(r)' <=> Won(r), body' = body
      PROVE  CountsHold'
  <2>1. \A t \in TaskIds : Accepted(t)' = Accepted(t)
    BY <1>1 DEF Accepted, Task
  <2> QED
    BY <1>1, <2>1 DEF CountsHold, VersionCountsMoves, Accepted
<1>2. ASSUME NEW r \in Reqs, Authorize(r) \/ Handle(r), ~Broadcast(r), ~Commit(r)
      PROVE  CountsHold'
  <2>1. /\ pc[r] \notin {"committed", "done"} /\ body' = body
        /\ \A q \in Reqs \ {r} : pc'[q] = pc[q] /\ reply'[q] = reply[q]
        /\ ~Won(r)'
        /\ \A t \in TaskIds : table'[t] = table[t] \/ table'[t] = NoRow
    BY <1>2, StepsAreSilent
  <2>2. \A q \in Reqs : Won(q)' <=> Won(q)
    BY <2>1 DEF Won, Kind
  <2> QED
    BY <1>1, <2>1, <2>2
<1>3. ASSUME NEW r \in Reqs, Broadcast(r) PROVE CountsHold'
  <2>1. pc \in [Reqs -> Stages]
    BY DEF IInv, TypeOK
  <2>2. \A q \in Reqs : Won(q)' <=> Won(q)
    BY <1>3, <2>1 DEF Broadcast, Goto, request, Won, Kind
  <2> QED
    BY <1>1, <1>3, <2>2 DEF Broadcast, store, request
<1>4. ASSUME UNCHANGED vars PROVE CountsHold'
  BY <1>1, <1>4 DEF vars, Won, Kind
<1> QED
  BY <1>2, <1>3, <1>4, CommitCounts DEF Next, Idle

\* The version of a task counts the moves it has accepted: none is lost to another move,
\* to a re-spacing or to a create, and nothing else bumps it (tasks.service.ts 195-226).
THEOREM VersionsCountMoves == Spec => []VersionCountsMoves
<1>1. Init => CountsHold
  <2>1. ASSUME Init
        PROVE  /\ \A t \in TaskIds : Accepted(t) = {}
               /\ table = InitialTable
    BY <2>1 DEF Init, Accepted, Won
  <2>2. \A t \in TaskIds : InitialTable[t] # NoRow => InitialTable[t].version \in Nat
    BY TableAssumption DEF IsRow
  <2>3. IsFiniteSet({}) /\ Cardinality({}) = 0 /\ \A n \in Nat : n + 0 = n
    BY FS_EmptySet
  <2> QED
    BY <2>1, <2>2, <2>3 DEF CountsHold, VersionCountsMoves, Accepted
<1>2. CountsHold => VersionCountsMoves
  BY DEF CountsHold
<1> QED
  BY <1>1, <1>2, InitRInv, Invariant, NextMaps, NextCountsHold, PTL DEF Spec

-----------------------------------------------------------------------------
(* Order.  What a move in flight still has to write, and what nobody else  *)
(* has changed, lets it commit between its neighbours and on a rank of its *)
(* own.                                                                    *)

RanksStored ==
  /\ \A t \in TaskIds : table[t] # NoRow => table[t].rank \in StoredRanks
  /\ \A r \in Reqs, t \in TaskIds : held[r][t] # Untouched => held[r][t].rank \in StoredRanks
  /\ \A r \in Reqs : InTransaction(r) => newRank[r] \in StoredRanks
  /\ \A r \in Reqs : todo[r] \in Seq([id : TaskIds, rank : StoredRanks])

\* A move reads a column that it writes.
RivalsRead == \A r \in Reqs : \A v \in rivals[r] : v.reads \in v.writes

\* The rows a move has written, and those it still has to write, are in its column; the
\* latter unless somebody has changed them, which keeps the move from writing them.
HeldInTarget(r) ==
  Moving(r) => \A t \in TaskIds : held[r][t] # Untouched => held[r][t].columnId = Target(r)

TodoInTarget(r) ==
  Moving(r) =>
    \A n \in 1 .. Len(todo[r]) :
      \/ todo[r][n].id = Task(r)
      \/ todo[r][n].id \in stale[r]
      \/ todo[r][n].id \in InColumn(table, Target(r))

\* No move that is committed since the snapshot has read the column r puts its task into.
Undisturbed(r) == \A v \in rivals[r] : v.reads # Target(r)

Neighbours(r) == InColumn(table, Target(r)) \ {Task(r)}

\* The ranks a row can have once r commits: one, when nothing in `todo' is for the same row.
FinalRanks(r, t) ==
  LET planned == {n \in 1 .. Len(todo[r]) : todo[r][n].id = t}
  IN  IF planned # {} THEN {todo[r][n].rank : n \in planned}
      ELSE {IF pc[r] = "placing" /\ t = Task(r) THEN newRank[r] ELSE Seen(r)[t].rank}

AllLess(R, S) == \A j \in R, k \in S : Less(j, k)

LandsRight(r) ==
  /\ body[r].before \in Neighbours(r) =>
       AllLess(FinalRanks(r, body[r].before), FinalRanks(r, Task(r)))
  /\ body[r].after \in Neighbours(r) =>
       AllLess(FinalRanks(r, Task(r)), FinalRanks(r, body[r].after))

\* A midpoint between the neighbours of the request can be that of a row between them.
LandsAlone(r) ==
  \/ \A t \in Neighbours(r) : FinalRanks(r, t) \cap FinalRanks(r, Task(r)) = {}
  \/ /\ body[r].before # None \/ body[r].after # None
     /\ todo[r] = <<>>
     /\ \A t \in Neighbours(r) : held[r][t] = Untouched

MoveInOrder(r) ==
  Moving(r) /\ OnlyMovesAdd /\ Undisturbed(r) => LandsRight(r) /\ LandsAlone(r)

OInv ==
  /\ DOMAIN newRank = Reqs /\ DOMAIN todo = Reqs /\ DOMAIN rivals = Reqs
  /\ RanksStored
  /\ RivalsRead
  /\ \A r \in Reqs : HeldInTarget(r) /\ TodoInTarget(r) /\ MoveInOrder(r)

-----------------------------------------------------------------------------

LEMMA TailIs ==
  ASSUME NEW T, NEW s \in Seq(T), s # <<>>
  PROVE  /\ Head(s) = s[1] /\ s[1] \in T /\ 1 \in 1 .. Len(s)
         /\ Tail(s) \in Seq(T)
         /\ \A n \in 1 .. Len(Tail(s)) : n + 1 \in 1 .. Len(s) /\ Tail(s)[n] = s[n + 1]
         /\ \A n \in 2 .. Len(s) : n - 1 \in 1 .. Len(Tail(s)) /\ Tail(s)[n - 1] = s[n]
OBVIOUS

\* What a step of one request leaves alone of another one.
LEMMA Bystander ==
  ASSUME IInv, OInv, NEW q \in Reqs, Authorize(q) \/ Handle(q), NEW r \in Reqs \ {q}
  PROVE  /\ body' = body /\ pc'[r] = pc[r] /\ newRank'[r] = newRank[r]
         /\ todo'[r] = todo[r] /\ held'[r] = held[r]
         /\ rivals[r] \subseteq rivals'[r]
         /\ Moving(r) => stale[r] \subseteq stale'[r]
<1> USE DEF store, request, transaction, Reply, Goto, Discard, Clear, Plan
<1>1. /\ pc \in [Reqs -> Stages] /\ stale \in [Reqs -> SUBSET (TaskIds \cup Columns)]
      /\ DOMAIN held = Reqs /\ DOMAIN newRank = Reqs /\ DOMAIN todo = Reqs /\ DOMAIN rivals = Reqs
  BY DEF IInv, TypeOK, OInv
<1>2. CASE Authorize(q) \/ CheckTarget(q)
  BY <1>1, <1>2 DEF Authorize, CheckTarget
<1>3. CASE AttemptMove(q)
  <2>1. PICK p \in {Place(q)} : AttemptThrows(q, p) \/ AttemptConflicts(q, p) \/ AttemptWrites(q, p)
    BY <1>3 DEF AttemptMove
  <2> QED
    BY <1>1, <2>1 DEF AttemptThrows, AttemptConflicts, AttemptWrites
<1>4. CASE PlaceTask(q) \/ PlaceTaskFails(q) \/ CreateReads(q)
  BY <1>1, <1>4 DEF PlaceTask, PlaceTaskFails, CreateReads
<1>5. CASE InsertTask(q) \/ InsertTaskFails(q)
  BY <1>1, <1>5 DEF InsertTask, InsertTaskFails
<1>6. CASE RespaceRow(q) \/ RespaceRowFails(q)
  BY <1>1, <1>6 DEF RespaceRow, RespaceRowFails
<1>7. CASE Commit(q)
  BY <1>1, <1>7 DEF Commit, MarkStale
<1>8. CASE SerializationFailure(q) \/ GiveUp(q) \/ CreateVictim(q)
  BY <1>1, <1>8 DEF SerializationFailure, GiveUp, CreateVictim, Retry
<1>9. CASE UpdateTask(q) \/ RemoveTask(q) \/ RemoveColumn(q) \/ StatementFails(q)
  BY <1>1, <1>9 DEF UpdateTask, RemoveTask, RemoveColumn, StatementFails, Statement, MarkStale
<1>10. CASE Broadcast(q)
  BY <1>1, <1>10 DEF Broadcast
<1> QED
  BY <1>2, <1>3, <1>4, <1>5, <1>6, <1>7, <1>8, <1>9, <1>10 DEF Handle

\* Only a commit and the two deletes change the table.
LEMMA TableChanges ==
  ASSUME NEW q \in Reqs, Authorize(q) \/ Handle(q),
         ~Commit(q), ~RemoveTask(q), ~RemoveColumn(q)
  PROVE  table' = table
<1> USE DEF store
<1>1. CASE AttemptMove(q)
  <2>1. PICK p \in {Place(q)} : AttemptThrows(q, p) \/ AttemptConflicts(q, p) \/ AttemptWrites(q, p)
    BY <1>1 DEF AttemptMove
  <2> QED
    BY <2>1 DEF AttemptThrows, AttemptConflicts, AttemptWrites
<1> QED
  BY <1>1
  DEF Handle, Authorize, CheckTarget, PlaceTask, PlaceTaskFails, CreateReads, InsertTask,
      InsertTaskFails, RespaceRow, RespaceRowFails, SerializationFailure, GiveUp, CreateVictim,
      UpdateTask, StatementFails, Broadcast

\* A row that another request changes is stale for a move in flight.
LEMMA ChangedAreStale ==
  ASSUME IInv, OInv, NEW q \in Reqs, Authorize(q) \/ Handle(q), NEW r \in Reqs \ {q}, Moving(r),
         NEW t \in TaskIds
  PROVE  table'[t] = table[t] \/ t \in stale'[r]
<1>1. CASE Commit(q)
  BY <1>1 DEF Commit, Seen, MarkStale
<1>2. CASE RemoveTask(q)
  <2>1. DOMAIN table = TaskIds /\ table' = [table EXCEPT ![Task(q)] = NoRow]
    BY <1>2 DEF RemoveTask, IInv, TypeOK
  <2> QED
    BY <1>2, <2>1 DEF RemoveTask, MarkStale
<1>3. CASE RemoveColumn(q)
  BY <1>3 DEF RemoveColumn, MarkStale
<1> QED
  BY <1>1, <1>2, <1>3, TableChanges

\* While nobody has read what a move changes, others only take rows out of its column.
LEMMA OthersOnlyRemove ==
  ASSUME IInv, RInv, OInv, NEW q \in Reqs, Authorize(q) \/ Handle(q), NEW r \in Reqs \ {q},
         Moving(r), OnlyMovesAdd', Undisturbed(r)'
  PROVE  /\ OnlyMovesAdd /\ Undisturbed(r)
         /\ \A t \in Neighbours(r)' : t \in Neighbours(r) /\ table'[t] = table[t]
<1>0. /\ body' = body /\ rivals[r] \subseteq rivals'[r] /\ pc \in [Reqs -> Stages]
      /\ \A p \in Reqs \ {q} : pc'[p] = pc[p]
  BY Bystander DEF IInv, TypeOK
<1>1. Undisturbed(r)
  BY <1>0 DEF Undisturbed, Target
<1>2. OnlyMovesAdd
  <2>1. SUFFICES ASSUME Kind(q) = "create", pc[q] \in {"committed", "done"} PROVE FALSE
    BY <1>0 DEF OnlyMovesAdd, Kind
  <2>2. pc'[q] \in {"committed", "done"}
    BY <1>0, <2>1
    DEF Handle, Authorize, CheckTarget, AttemptMove, PlaceTask, PlaceTaskFails, CreateReads,
        InsertTask, InsertTaskFails, RespaceRow, RespaceRowFails, Commit, SerializationFailure,
        Moving, InTransaction, GiveUp, CreateVictim, UpdateTask, RemoveTask, RemoveColumn,
        StatementFails, Statement, Broadcast, Goto
  <2> QED
    BY <1>0, <2>1, <2>2 DEF OnlyMovesAdd, Kind
<1>3. ASSUME NEW t \in Neighbours(r)' PROVE t \in Neighbours(r) /\ table'[t] = table[t]
  <2>0. /\ t \in TaskIds /\ t # Task(r) /\ table'[t] # NoRow /\ table'[t].columnId = Target(r)
    BY <1>0, <1>3 DEF Neighbours, InColumn, Task, Target
  <2>1. SUFFICES table'[t] = table[t]
    BY <2>0 DEF Neighbours, InColumn
  <2>2. CASE Commit(q)
    <3>1. pc'[q] = "committed" /\ Kind(q) \in {"move", "create"} /\ InTransaction(q)
      BY <1>0, <2>2 DEF Commit, Goto, IInv, TypeOK, InTransaction
    <3>2. Kind(q) = "move"
      BY <1>0, <3>1 DEF OnlyMovesAdd, Kind
    <3>3. [reads |-> Target(q), writes |-> ColumnsWritten(q)] \in rivals'[r]
      BY <2>2, <3>1, <3>2 DEF Commit, Moving
    <3>4. Target(q) # Target(r)
      BY <1>0, <3>3 DEF Undisturbed, Target
    <3>5. table'[t] = IF held[q][t] = Untouched THEN table[t] ELSE held[q][t]
      BY <2>0, <2>2 DEF Commit, Seen
    <3>6. held[q][t] # Untouched => held[q][t].columnId = Target(q)
      BY <2>0, <3>1, <3>2 DEF OInv, HeldInTarget, Moving
    <3> QED
      BY <2>0, <3>4, <3>5, <3>6
  <2>3. CASE RemoveTask(q)
    <3>1. DOMAIN table = TaskIds /\ table' = [table EXCEPT ![Task(q)] = NoRow]
      BY <2>3 DEF RemoveTask, IInv, TypeOK
    <3> QED
      BY <2>0, <3>1
  <2>4. CASE RemoveColumn(q)
    BY <2>0, <2>4 DEF RemoveColumn
  <2> QED
    BY <2>2, <2>3, <2>4, TableChanges
<1> QED
  BY <1>1, <1>2, <1>3

\* Fewer neighbours and fewer ranks keep the order.
LEMMA OrderNarrows ==
  ASSUME NEW r \in Reqs, LandsRight(r), LandsAlone(r), body' = body,
         Neighbours(r)' \subseteq Neighbours(r),
         \A t \in Neighbours(r)' \cup {Task(r)} : FinalRanks(r, t)' \subseteq FinalRanks(r, t),
         todo[r] = <<>> =>
           todo'[r] = <<>> /\ \A t \in Neighbours(r)' : held'[r][t] = held[r][t]
  PROVE  LandsRight(r)' /\ LandsAlone(r)'
<1>1. Task(r)' = Task(r) /\ body'[r] = body[r]
  BY DEF Task
<1>2. LandsRight(r)'
  BY <1>1 DEF LandsRight, AllLess
<1>3. LandsAlone(r)'
  <2>1. CASE \A t \in Neighbours(r) : FinalRanks(r, t) \cap FinalRanks(r, Task(r)) = {}
    <3>1. \A t \in Neighbours(r)' : FinalRanks(r, t)' \cap FinalRanks(r, Task(r))' = {}
      BY <1>1, <2>1
    <3> QED
      BY <1>1, <3>1 DEF LandsAlone
  <2>2. CASE ~\A t \in Neighbours(r) : FinalRanks(r, t) \cap FinalRanks(r, Task(r)) = {}
    BY <1>1, <2>2 DEF LandsAlone
  <2> QED
    BY <2>1, <2>2
<1> QED
  BY <1>2, <1>3

LEMMA OthersInOrder ==
  ASSUME IInv, RInv, OInv, NEW q \in Reqs, Authorize(q) \/ Handle(q), NEW r \in Reqs \ {q}
  PROVE  HeldInTarget(r)' /\ TodoInTarget(r)' /\ MoveInOrder(r)'
<1>1. /\ body' = body /\ pc'[r] = pc[r] /\ newRank'[r] = newRank[r]
      /\ todo'[r] = todo[r] /\ held'[r] = held[r]
      /\ Moving(r) => stale[r] \subseteq stale'[r]
  BY Bystander
<1>2. (Moving(r)' <=> Moving(r)) /\ Task(r)' = Task(r) /\ Target(r)' = Target(r)
  BY <1>1 DEF Moving, InTransaction, Kind, Task, Target
<1>3. HeldInTarget(r)'
  BY <1>1, <1>2 DEF OInv, HeldInTarget
<1>4. TodoInTarget(r)'
  <2> SUFFICES ASSUME Moving(r), NEW n \in 1 .. Len(todo[r])
               PROVE  \/ todo[r][n].id = Task(r)
                      \/ todo[r][n].id \in stale'[r]
                      \/ todo[r][n].id \in InColumn(table, Target(r))'
    BY <1>1, <1>2 DEF TodoInTarget
  <2> DEFINE t == todo[r][n].id
  <2>1. t = Task(r) \/ t \in stale[r] \/ t \in InColumn(table, Target(r))
    BY DEF OInv, TodoInTarget
  <2> HIDE DEF t
  <2>2. ASSUME t \in InColumn(table, Target(r)), t \notin stale'[r]
        PROVE  t \in InColumn(table, Target(r))'
    <3>1. t \in TaskIds
      BY <2>2 DEF InColumn
    <3>2. table'[t] = table[t]
      BY <2>2, <3>1, ChangedAreStale
    <3> QED
      BY <1>2, <2>2, <3>2 DEF InColumn
  <2> QED
    BY <1>1, <2>1, <2>2 DEF t
<1>5. MoveInOrder(r)'
  <2> SUFFICES ASSUME Moving(r), OnlyMovesAdd', Undisturbed(r)'
               PROVE  LandsRight(r)' /\ LandsAlone(r)'
    BY <1>2 DEF MoveInOrder
  <2>1. /\ OnlyMovesAdd /\ Undisturbed(r)
        /\ \A t \in Neighbours(r)' : t \in Neighbours(r) /\ table'[t] = table[t]
    BY OthersOnlyRemove
  <2>2. LandsRight(r) /\ LandsAlone(r)
    BY <2>1 DEF OInv, MoveInOrder
  <2>3. \A t \in Neighbours(r)' : Seen(r)'[t] = Seen(r)[t]
    <3>1. \A t \in Neighbours(r)' : t \in TaskIds
      BY DEF Neighbours, InColumn
    <3> QED
      BY <1>1, <2>1, <3>1 DEF Seen
  <2>4. pc[r] = "placing" \/ Seen(r)'[Task(r)] = Seen(r)[Task(r)]
    <3>1. pc[r] = "placing" \/ held[r][Task(r)] # Untouched
      BY DEF Moving, InTransaction, IInv, PlacedVersions
    <3>2. Task(r) \in TaskIds
      BY Named DEF Moving, IInv, TypeOK
    <3> QED
      BY <1>1, <3>1, <3>2 DEF Seen
  <2>5. \A t \in Neighbours(r)' \cup {Task(r)} : FinalRanks(r, t)' \subseteq FinalRanks(r, t)
    BY <1>1, <1>2, <2>3, <2>4 DEF FinalRanks
  <2> QED
    BY <1>1, <2>1, <2>2, <2>5, OrderNarrows
<1> QED
  BY <1>3, <1>4, <1>5

-----------------------------------------------------------------------------
(* The move's own steps. *)

LEMMA PlaceTaskInOrder ==
  ASSUME IInv, RInv, OInv, NEW r \in Reqs, PlaceTask(r)
  PROVE  /\ held'[r][Task(r)].rank \in StoredRanks
         /\ \A t \in TaskIds : held'[r][t] = held[r][t] \/ t = Task(r)
         /\ HeldInTarget(r)' /\ TodoInTarget(r)' /\ MoveInOrder(r)'
<1>1. /\ pc[r] = "placing" /\ Kind(r) = "move" /\ pc'[r] = "respacing"
      /\ body' = body /\ table' = table /\ todo' = todo /\ stale' = stale /\ rivals' = rivals
      /\ Task(r) \notin stale[r] /\ Task(r) \in TaskIds /\ Target(r) \in Columns
      /\ pc \in [Reqs -> Stages] /\ pc' = [pc EXCEPT ![r] = "respacing"]
      /\ DOMAIN held = Reqs /\ DOMAIN held[r] = TaskIds
  BY Named DEF PlaceTask, Goto, store, request, IInv, TypeOK
<1>2. Moving(r) /\ Task(r)' = Task(r) /\ Target(r)' = Target(r)
  BY <1>1 DEF Moving, InTransaction, Task, Target
<1>3. PICK x : x = table[Task(r)] /\ IsRow(x)
  BY <1>1, <1>2 DEF IInv, MatchedVersionsHold, VersionMatches, TypeOK
<1>4. PICK y : y = [x EXCEPT !.rank = newRank[r], !.columnId = Target(r), !.version = @ + 1]
  OBVIOUS
<1>11. y.rank = newRank[r] /\ y.columnId = Target(r) /\ y # Untouched
  <2>1. x = [boardId |-> x.boardId, columnId |-> x.columnId,
             rank |-> x.rank, version |-> x.version]
    BY <1>3 DEF IsRow
  <2>2. PICK x1 : x1 = [x EXCEPT !.rank = newRank[r]]
    OBVIOUS
  <2>3. PICK x2 : x2 = [x1 EXCEPT !.columnId = Target(r)]
    OBVIOUS
  <2>4. x1 = [boardId |-> x.boardId, columnId |-> x.columnId,
              rank |-> newRank[r], version |-> x.version]
    BY <2>1, <2>2
  <2>5. x2 = [boardId |-> x.boardId, columnId |-> Target(r),
              rank |-> newRank[r], version |-> x.version]
    BY <2>3, <2>4
  <2>6. y = [x2 EXCEPT !.version = x.version + 1]
    BY <1>4, <2>2, <2>3
  <2>7. y = [boardId |-> x.boardId, columnId |-> Target(r),
             rank |-> newRank[r], version |-> x.version + 1]
    BY <2>5, <2>6
  <2> QED
    BY <2>7 DEF Untouched
<1>5. held' = [held EXCEPT ![r][Task(r)] = y]
  BY <1>3, <1>4 DEF PlaceTask
<1>6. held'[r][Task(r)] = y /\ \A t \in TaskIds \ {Task(r)} : held'[r][t] = held[r][t]
  BY <1>1, <1>5
<1>7. y.rank \in StoredRanks
  BY <1>2, <1>11 DEF OInv, RanksStored, Moving
<1>8. HeldInTarget(r)'
  BY <1>2, <1>11, <1>6 DEF HeldInTarget, OInv
<1>9. TodoInTarget(r)'
  BY <1>1, <1>2 DEF OInv, TodoInTarget, InColumn
<1>10. MoveInOrder(r)'
  <2> SUFFICES ASSUME OnlyMovesAdd', Undisturbed(r)'
               PROVE  LandsRight(r)' /\ LandsAlone(r)'
    BY DEF MoveInOrder
  <2>1. OnlyMovesAdd /\ Undisturbed(r)
    <3>1. \A q \in Reqs : pc[q] \in {"committed", "done"} => pc'[q] \in {"committed", "done"}
      BY <1>1
    <3> QED
      BY <1>1, <1>2, <3>1 DEF OnlyMovesAdd, Undisturbed, Kind
  <2>2. LandsRight(r) /\ LandsAlone(r)
    BY <1>2, <2>1 DEF OInv, MoveInOrder
  <2>3. Neighbours(r)' = Neighbours(r)
    BY <1>1, <1>2 DEF Neighbours, InColumn
  <2>4. \A t \in Neighbours(r) : t \in TaskIds \ {Task(r)}
    BY DEF Neighbours, InColumn
  <2>5. \A t \in Neighbours(r) : Seen(r)'[t] = Seen(r)[t]
    BY <1>1, <1>6, <2>4 DEF Seen
  <2>6. Seen(r)'[Task(r)].rank = newRank[r]
    BY <1>1, <1>11, <1>6 DEF Seen
  <2>7. \A t \in Neighbours(r)' \cup {Task(r)} : FinalRanks(r, t)' \subseteq FinalRanks(r, t)
    BY <1>1, <1>2, <2>3, <2>4, <2>5, <2>6 DEF FinalRanks
  <2> QED
    BY <1>1, <1>6, <2>2, <2>3, <2>4, <2>7, OrderNarrows
<1> QED
  BY <1>11, <1>6, <1>7, <1>8, <1>9, <1>10

\* One row of a re-spacing, of a move or a create.
LEMMA RespaceRowWrites ==
  ASSUME IInv, OInv, NEW r \in Reqs, RespaceRow(r)
  PROVE  LET w == todo[r][1] IN
         /\ w.id \in TaskIds /\ w.rank \in StoredRanks /\ 1 \in 1 .. Len(todo[r])
         /\ w.id \notin stale[r]
         /\ held'[r][w.id].rank = w.rank
         /\ held'[r][w.id].columnId = Seen(r)[w.id].columnId
         /\ held'[r][w.id] # Untouched
         /\ \A t \in TaskIds \ {w.id} : held'[r][t] = held[r][t]
         /\ todo'[r] = Tail(todo[r]) /\ todo[r] # <<>>
         /\ todo'[r] \in Seq([id : TaskIds, rank : StoredRanks])
         /\ \A n \in 1 .. Len(todo'[r]) : n + 1 \in 1 .. Len(todo[r]) /\ todo'[r][n] = todo[r][n + 1]
         /\ \A n \in 2 .. Len(todo[r]) :
              n - 1 \in 1 .. Len(todo'[r]) /\ todo'[r][n - 1] = todo[r][n]
<1> DEFINE T == [id : TaskIds, rank : StoredRanks]
           s == todo[r]
           w == todo[r][1]
<1>1. s \in Seq(T) /\ s # <<>>
  BY DEF OInv, RanksStored, RespaceRow
<1>2. w.id \in TaskIds /\ w.rank \in StoredRanks
  <2>1. w \in T
    <3> HIDE DEF T
    <3> QED
      BY <1>1
  <2> QED
    BY <2>1
<1> HIDE DEF T
<1>3. /\ Head(s) = w /\ 1 \in 1 .. Len(s)
      /\ Tail(s) \in Seq(T)
      /\ \A n \in 1 .. Len(Tail(s)) : n + 1 \in 1 .. Len(s) /\ Tail(s)[n] = s[n + 1]
      /\ \A n \in 2 .. Len(s) : n - 1 \in 1 .. Len(Tail(s)) /\ Tail(s)[n - 1] = s[n]
  BY <1>1, TailIs
<1>4. todo'[r] = Tail(s)
  BY DEF RespaceRow, OInv
<1> DEFINE x == Seen(r)[w.id]
           y == [x EXCEPT !.rank = w.rank]
<1>5. /\ held' = [held EXCEPT ![r][w.id] = y] /\ x # NoRow /\ w.id \notin stale[r]
      /\ DOMAIN held = Reqs /\ DOMAIN held[r] = TaskIds
  BY <1>3 DEF RespaceRow, IInv, TypeOK
<1>6. IsRow(x)
  BY <1>2, <1>5 DEF IInv, TypeOK, Seen
<1> HIDE DEF x
<1>7. y.rank = w.rank /\ y.columnId = x.columnId /\ y # Untouched
  BY <1>6, Reranked, RowsAreRows
<1> HIDE DEF y
<1>8. held'[r][w.id] = y /\ \A t \in TaskIds \ {w.id} : held'[r][t] = held[r][t]
  BY <1>2, <1>5
<1> HIDE DEF w, s
<1>9. /\ w.id \in TaskIds /\ w.rank \in StoredRanks /\ 1 \in 1 .. Len(s)
      /\ w.id \notin stale[r]
      /\ held'[r][w.id].rank = w.rank
      /\ held'[r][w.id].columnId = Seen(r)[w.id].columnId
      /\ held'[r][w.id] # Untouched
      /\ \A t \in TaskIds \ {w.id} : held'[r][t] = held[r][t]
  BY <1>2, <1>3, <1>5, <1>7, <1>8 DEF x
<1>10. /\ todo'[r] = Tail(s) /\ s # <<>>
       /\ todo'[r] \in Seq(T)
       /\ \A n \in 1 .. Len(todo'[r]) : n + 1 \in 1 .. Len(s) /\ todo'[r][n] = s[n + 1]
       /\ \A n \in 2 .. Len(s) : n - 1 \in 1 .. Len(todo'[r]) /\ todo'[r][n - 1] = s[n]
  BY <1>1, <1>3, <1>4
<1> QED
  BY <1>9, <1>10 DEF w, s, T

LEMMA RespaceRowInOrder ==
  ASSUME IInv, RInv, OInv, NEW r \in Reqs, RespaceRow(r), Kind(r) = "move"
  PROVE  HeldInTarget(r)' /\ TodoInTarget(r)' /\ MoveInOrder(r)'
<1> DEFINE w == todo[r][1]
<1>1. /\ pc[r] = "respacing" /\ pc' = pc /\ newRank' = newRank
      /\ body' = body /\ table' = table /\ stale' = stale /\ rivals' = rivals
      /\ Task(r) \in TaskIds
  BY Named DEF RespaceRow, store, request, IInv, TypeOK
<1>2. Moving(r) /\ Task(r)' = Task(r) /\ Target(r)' = Target(r)
  BY <1>1 DEF Moving, InTransaction, Task, Target
<1>3. /\ w.id \in TaskIds /\ 1 \in 1 .. Len(todo[r])
      /\ w.id \notin stale[r]
      /\ held'[r][w.id].rank = w.rank
      /\ held'[r][w.id].columnId = Seen(r)[w.id].columnId
      /\ held'[r][w.id] # Untouched
      /\ \A t \in TaskIds \ {w.id} : held'[r][t] = held[r][t]
      /\ todo[r] # <<>>
  BY RespaceRowWrites
<1>4. /\ \A n \in 1 .. Len(todo'[r]) : n + 1 \in 1 .. Len(todo[r]) /\ todo'[r][n] = todo[r][n + 1]
      /\ \A n \in 2 .. Len(todo[r]) :
           n - 1 \in 1 .. Len(todo'[r]) /\ todo'[r][n - 1] = todo[r][n]
      /\ Len(todo[r]) \in Nat
  BY RespaceRowWrites
<1>5. HeldInTarget(r)'
  <2>1. w.id = Task(r) \/ w.id \in InColumn(table, Target(r))
    BY <1>2, <1>3 DEF OInv, TodoInTarget
  <2>2. held[r][w.id] # Untouched => held[r][w.id].columnId = Target(r)
    BY <1>2, <1>3 DEF OInv, HeldInTarget
  <2>3. held[r][Task(r)] # Untouched
    BY <1>1, <1>2 DEF IInv, PlacedVersions
  <2>4. Seen(r)[w.id].columnId = Target(r)
    BY <1>3, <2>1, <2>2, <2>3 DEF Seen, InColumn
  <2> QED
    BY <1>2, <1>3, <2>4 DEF OInv, HeldInTarget
<1>6. TodoInTarget(r)'
  <2>1. InColumn(table, Target(r))' = InColumn(table, Target(r))
    BY <1>1, <1>2 DEF InColumn
  <2>2. ASSUME NEW n \in 1 .. Len(todo'[r])
        PROVE  \/ todo'[r][n].id = Task(r)
               \/ todo'[r][n].id \in stale[r]
               \/ todo'[r][n].id \in InColumn(table, Target(r))
    BY <1>2, <1>4 DEF OInv, TodoInTarget
  <2> QED
    BY <1>1, <1>2, <2>1, <2>2 DEF TodoInTarget
<1>7. MoveInOrder(r)'
  <2> SUFFICES ASSUME OnlyMovesAdd', Undisturbed(r)'
               PROVE  LandsRight(r)' /\ LandsAlone(r)'
    BY DEF MoveInOrder
  <2>1. OnlyMovesAdd /\ Undisturbed(r)
    BY <1>1, <1>2 DEF OnlyMovesAdd, Undisturbed, Kind
  <2>2. LandsRight(r) /\ LandsAlone(r)
    BY <1>2, <2>1 DEF OInv, MoveInOrder
  <2>3. Neighbours(r)' = Neighbours(r) /\ \A t \in Neighbours(r) : t \in TaskIds
    BY <1>1, <1>2 DEF Neighbours, InColumn
  <2>4. ASSUME NEW t \in TaskIds PROVE FinalRanks(r, t)' \subseteq FinalRanks(r, t)
    <3> DEFINE planned == {n \in 1 .. Len(todo[r]) : todo[r][n].id = t}
               left == {n \in 1 .. Len(todo'[r]) : todo'[r][n].id = t}
    <3>1. CASE left # {}
      <4>1. FinalRanks(r, t)' = {todo'[r][n].rank : n \in left}
        BY <3>1 DEF FinalRanks
      <4>2. \A n \in left : n + 1 \in planned /\ todo'[r][n].rank = todo[r][n + 1].rank
        BY <1>4
      <4>3. planned # {}
        BY <3>1, <4>2
      <4>4. FinalRanks(r, t) = {todo[r][n].rank : n \in planned}
        BY <4>3 DEF FinalRanks
      <4> HIDE DEF left, planned
      <4> QED
        BY <4>1, <4>2, <4>4
    <3>2. CASE left = {} /\ t = w.id
      <4>1. 1 \in planned
        BY <1>3, <3>2
      <4>2. FinalRanks(r, t) = {todo[r][n].rank : n \in planned}
        BY <4>1 DEF FinalRanks
      <4>3. Seen(r)'[t].rank = w.rank
        BY <1>1, <1>3, <3>2 DEF Seen
      <4>4. FinalRanks(r, t)' = {Seen(r)'[t].rank}
        BY <1>1, <3>2 DEF FinalRanks
      <4> HIDE DEF left, planned
      <4> QED
        BY <4>1, <4>2, <4>3, <4>4
    <3>3. CASE left = {} /\ t # w.id
      <4>1. planned = {}
        <5> SUFFICES ASSUME NEW n \in planned PROVE FALSE
          OBVIOUS
        <5>1. n # 1 /\ n \in 2 .. Len(todo[r])
          BY <1>4, <3>3
        <5>2. n - 1 \in left
          BY <1>4, <5>1
        <5> QED
          BY <3>3, <5>2
      <4>2. Seen(r)'[t] = Seen(r)[t]
        BY <1>1, <1>3, <3>3 DEF Seen
      <4> QED
        BY <1>1, <1>2, <3>3, <4>1, <4>2 DEF FinalRanks
    <3> QED
      BY <3>1, <3>2, <3>3
  <2>5. \A t \in Neighbours(r)' \cup {Task(r)} : FinalRanks(r, t)' \subseteq FinalRanks(r, t)
    BY <1>1, <2>3, <2>4
  <2> QED
    BY <1>1, <1>3, <2>2, <2>3, <2>5, OrderNarrows
<1> QED
  BY <1>5, <1>6, <1>7

-----------------------------------------------------------------------------
(* attemptMove. *)

\* The rows that the bounds of a move are taken from.
LEMMA OthersAre ==
  ASSUME IInv, OInv, NEW r \in Reqs, Kind(r) = "move",
         NEW rk, rk = [t \in Neighbours(r) |-> table[t].rank]
  PROVE  /\ SortedRows(Others(r), Neighbours(r), rk)
         /\ Sorted(Others(r), RankedRows(Neighbours(r), rk))
         /\ \A n \in 1 .. Len(Others(r)) : Others(r)[n].id \in TaskIds /\ Others(r)[n].id # None
         /\ \A n \in 1 .. Len(Others(r)) : Others(r)[n].rank = table[Others(r)[n].id].rank
<1> DEFINE ids == Neighbours(r)
<1>1. \A t \in ids : t \in TaskIds /\ t \in Nat /\ table[t].rank \in StoredRanks
  BY IdAssumption DEF Neighbours, InColumn, OInv, RanksStored
<1>2. Others(r) = Ordered(RankedRows(ids, rk))
  BY DEF Others, OrderedRows, Neighbours
<1> HIDE DEF ids
<1>3. /\ ids \subseteq Nat /\ IsFiniteSet(ids)
      /\ \A t \in ids : rk[t] \in StoredRanks
  <2>1. ids \subseteq TaskIds
    BY <1>1
  <2>2. IsFiniteSet(ids)
    BY <2>1, IdAssumption, FS_Subset
  <2>3. \A t \in ids : rk[t] \in StoredRanks
    BY <1>1 DEF ids
  <2> QED
    BY <1>1, <2>2, <2>3
<1>4. SortedRows(Others(r), ids, rk)
  BY <1>2, <1>3, ListIs
<1>5. /\ Sorted(Others(r), RankedRows(ids, rk))
      /\ \A n \in 1 .. Len(Others(r)) :
           Others(r)[n].id \in ids /\ Others(r)[n].rank = rk[Others(r)[n].id]
  BY <1>4 DEF SortedRows
<1>6. \A t \in ids : rk[t] = table[t].rank
  BY DEF ids
<1> QED
  BY <1>1, <1>4, <1>5, <1>6, IdAssumption DEF ids

\* The rank between the bounds, and where the re-spaced list puts the task.
LEMMA PlaceIs ==
  ASSUME IInv, OInv, NEW r \in Reqs, Kind(r) = "move",
         NEW p, p = Place(r), HasRoom(p), NEW rank, rank = Between(p.lower, p.upper)
  PROVE  /\ rank \in StoredRanks /\ rank \in Ranks
         /\ Less(p.lower, rank) /\ Less(rank, p.upper)
         /\ p.index \in 0 .. Len(Others(r)) /\ Len(Others(r)) \in Nat
         /\ \A n \in 1 .. Len(Others(r)) :
              Others(r)[n].id = body[r].before =>
                p.lower = Others(r)[n].rank /\ n <= p.index
         /\ \A n \in 1 .. Len(Others(r)) :
              Others(r)[n].id = body[r].after =>
                p.upper = Others(r)[n].rank /\ p.index < n
         /\ body[r].before = None /\ body[r].after = None => IsGap(Others(r), p)
<1> DEFINE rk == [t \in Neighbours(r) |-> table[t].rank]
           list == Others(r)
<1>1. /\ Sorted(list, RankedRows(Neighbours(r), rk))
      /\ \A n \in 1 .. Len(list) : list[n].id # None
  BY OthersAre
<1>2. body[r].position \in Nat \cup {None}
  <2>1. body \in [Reqs -> Bodies]
    BY WorkloadAssumption DEF IInv, TypeOK
  <2> QED
    BY <2>1 DEF Bodies
<1>3. p = ResolveNeighborBounds(list, body[r].before, body[r].after, body[r].position)
  BY DEF Place
<1> DEFINE found == RankedRows(Neighbours(r), rk)
<1> HIDE DEF found, list
<1>4. /\ p.lower \in StoredRanks \cup {First}
      /\ p.upper \in StoredRanks \cup {Last}
      /\ p.index \in 0 .. Len(list)
      /\ BesideNeighbours(list, body[r].before, body[r].after, p)
      /\ body[r].before = None /\ body[r].after = None => IsGap(list, p)
  <2>1. Sorted(list, found) /\ \A n \in 1 .. Len(list) : list[n].id # None
    BY <1>1 DEF found
  <2>2. PICK before, after, position :
          before = body[r].before /\ after = body[r].after /\ position = body[r].position
    OBVIOUS
  <2>3. /\ p.lower \in StoredRanks \cup {First}
        /\ p.upper \in StoredRanks \cup {Last}
        /\ p.index \in 0 .. Len(list)
        /\ BesideNeighbours(list, before, after, p)
        /\ before = None /\ after = None => IsGap(list, p)
    <3>1. p = ResolveNeighborBounds(list, before, after, position) /\ position \in Nat \cup {None}
      BY <1>2, <1>3, <2>2
    <3> QED
      BY <2>1, <3>1, BoundsAre
  <2> QED
    BY <2>2, <2>3
<1>5. Len(list) \in Nat
  BY <1>1 DEF Sorted
<1>6. Less(p.lower, p.upper)
  BY DEF HasRoom
<1>7. /\ rank \in StoredRanks /\ rank \in Ranks
      /\ Less(p.lower, rank) /\ Less(rank, p.upper)
  BY <1>4, <1>6, BetweenStored
<1> QED
  BY <1>4, <1>5, <1>6, <1>7 DEF BesideNeighbours, list

\* The list and x after its first k rows, each row once, on ascending ranks.
SpacedWith(writes, list, k, x) ==
  /\ Len(writes) = Len(list) + 1
  /\ \A m, n \in 1 .. Len(writes) : m < n => Less(writes[m].rank, writes[n].rank)
  /\ \A m, n \in 1 .. Len(writes) :
       m # n => writes[m].rank # writes[n].rank /\ writes[m].id # writes[n].id
  /\ writes[k + 1].id = x
  /\ \A n \in 1 .. Len(list) : n <= k => writes[n].id = list[n].id
  /\ \A n \in 1 .. Len(list) : k < n => writes[n + 1].id = list[n].id

LEMMA RespacingIs ==
  ASSUME IInv, OInv, NEW r \in Reqs, Kind(r) = "move",
         NEW k \in 0 .. Len(Others(r)),
         NEW writes, writes = Spaced(SX!InsertAt(IdsOf(Others(r)), k + 1, Task(r)))
  PROVE  /\ writes \in Seq([id : TaskIds, rank : StoredRanks])
         /\ SpacedWith(writes, Others(r), k, Task(r))
<1> DEFINE list == Others(r)
           rk == [t \in Neighbours(r) |-> table[t].rank]
           found == RankedRows(Neighbours(r), rk)
           s == IdsOf(list)
           x == Task(r)
           i == k + 1
           w == SX!InsertAt(s, i, x)
<1>1. /\ Sorted(list, found) /\ SortedRows(list, Neighbours(r), rk)
      /\ \A n \in 1 .. Len(list) : list[n].id \in TaskIds
  BY OthersAre
<1>2. \A n \in 1 .. Len(list) : list[n].id # x
  <2> HIDE DEF list, rk
  <2>1. \A n \in 1 .. Len(list) : list[n].id \in Neighbours(r)
    BY <1>1 DEF SortedRows
  <2> QED
    BY <2>1 DEF Neighbours
<1>3. x \in TaskIds
  BY Named DEF IInv, TypeOK
<1> HIDE DEF found, list, x
<1>4. /\ s \in Seq(TaskIds) /\ Len(s) = Len(list) /\ Len(s) \in Nat
      /\ \A n \in 1 .. Len(s) : s[n] = list[n].id
      /\ \A m, n \in 1 .. Len(s) : m # n => s[m] # s[n]
  <2>1. \A y \in found : \E n \in 1 .. Len(list) : list[n] = y
    BY <1>1 DEF Sorted
  <2>2. \A y \in found : y.id \in TaskIds
    BY <1>1, <2>1
  <2> QED
    BY <1>1, <2>2, SortedIds
<1> HIDE DEF s
<1>5. i \in 1 .. (Len(s) + 1) /\ \A n \in 1 .. Len(s) : s[n] # x
  BY <1>2, <1>4 DEF list
<1> HIDE DEF i
<1>6. w = Splice(s, i, x)
  BY DEF SX!InsertAt, Splice
<1> HIDE DEF w
<1>14. i \in 1 .. (Len(s) + 1)
  BY <1>5
<1>15. \A n \in 1 .. Len(s) : s[n] # x
  BY <1>5
<1>16. \A m, n \in 1 .. Len(s) : m # n => s[m] # s[n]
  BY <1>4
<1>17. s \in Seq(TaskIds)
  BY <1>4
<1>7. /\ w \in Seq(TaskIds) /\ Len(w) = Len(s) + 1
      /\ w[i] = x
      /\ \A n \in 1 .. (i - 1) : w[n] = s[n]
      /\ \A n \in i .. Len(s) : w[n + 1] = s[n]
      /\ \A m, n \in 1 .. Len(w) : m # n => w[m] # w[n]
  BY <1>3, <1>6, <1>14, <1>15, <1>16, <1>17, Spliced
<1>8. writes = Spaced(w)
  BY DEF w, s, i, x, list
<1>9. /\ writes \in Seq([id : TaskIds, rank : StoredRanks])
      /\ Len(writes) = Len(w)
      /\ \A n \in 1 .. Len(w) : writes[n].id = w[n]
      /\ \A m, n \in 1 .. Len(w) : m < n => Less(writes[m].rank, writes[n].rank)
      /\ \A m, n \in 1 .. Len(w) : m # n => writes[m].rank # writes[n].rank
  BY <1>7, <1>8, SpacedIs
<1>10. \A m, n \in 1 .. Len(writes) :
         m # n => writes[m].rank # writes[n].rank /\ writes[m].id # writes[n].id
  BY <1>7, <1>9
<1>11. writes[i].id = x
  BY <1>5, <1>7, <1>9, <1>4
<1>12. ASSUME NEW n \in 1 .. Len(list), n <= k PROVE writes[n].id = list[n].id
  <2>1. n \in 1 .. (i - 1) /\ n \in 1 .. Len(w) /\ n \in 1 .. Len(s)
    BY <1>4, <1>5, <1>7, <1>12 DEF i, list
  <2> QED
    BY <1>4, <1>7, <1>9, <2>1
<1>13. ASSUME NEW n \in 1 .. Len(list), k < n PROVE writes[n + 1].id = list[n].id
  <2>1. n \in i .. Len(s) /\ n + 1 \in 1 .. Len(w) /\ n \in 1 .. Len(s)
    BY <1>4, <1>5, <1>7, <1>13 DEF i, list
  <2> QED
    BY <1>4, <1>7, <1>9, <2>1
<1> QED
  BY <1>4, <1>7, <1>9, <1>10, <1>11, <1>12, <1>13 DEF SpacedWith, list, i, x

LEMMA AttemptInOrder ==
  ASSUME IInv, OInv, NEW r \in Reqs, pc[r] = "begin", Kind(r) = "move",
         NEW p, p = Place(r), AttemptWrites(r, p)
  PROVE  /\ newRank'[r] \in StoredRanks
         /\ todo'[r] \in Seq([id : TaskIds, rank : StoredRanks])
         /\ HeldInTarget(r)' /\ TodoInTarget(r)' /\ MoveInOrder(r)'
<1> DEFINE rank == Between(p.lower, p.upper)
           list == Others(r)
           ids == Neighbours(r)
           rk == [t \in Neighbours(r) |-> table[t].rank]
           found == RankedRows(ids, rk)
           spaced == Spaced(SX!InsertAt(IdsOf(list), p.index + 1, Task(r)))
<1>0. PICK before, after : before = body[r].before /\ after = body[r].after
  OBVIOUS
<1>1. /\ HasRoom(p)
      /\ newRank'[r] = rank
      /\ todo'[r] = IF Len(rank) <= Threshold THEN <<>> ELSE spaced
      /\ held'[r] = Nothing
      /\ body' = body /\ table' = table /\ pc'[r] = "placing"
  <2>1. /\ DOMAIN newRank = Reqs /\ DOMAIN todo = Reqs /\ DOMAIN held = Reqs
        /\ pc \in [Reqs -> Stages]
    BY DEF IInv, TypeOK, OInv
  <2> QED
    BY <2>1 DEF AttemptWrites, Plan, Clear, Goto, store, request, Respacing
<1>2. /\ Task(r)' = Task(r) /\ Target(r)' = Target(r) /\ Task(r) \in TaskIds
      /\ Neighbours(r)' = Neighbours(r)
      /\ \A t \in ids : t \in TaskIds /\ t # Task(r) /\ t \in InColumn(table, Target(r))
  BY <1>1, Named DEF Task, Target, Neighbours, InColumn, IInv, TypeOK
<1>3. /\ rank \in StoredRanks /\ rank \in Ranks
      /\ Less(p.lower, rank) /\ Less(rank, p.upper)
      /\ p.index \in 0 .. Len(list) /\ Len(list) \in Nat
      /\ \A n \in 1 .. Len(list) :
           list[n].id = before => p.lower = list[n].rank /\ n <= p.index
      /\ \A n \in 1 .. Len(list) :
           list[n].id = after => p.upper = list[n].rank /\ p.index < n
  <2> HIDE DEF rank
  <2> QED
    BY <1>0, <1>1, PlaceIs DEF rank
<1>4. before = None /\ after = None => IsGap(list, p)
  BY <1>0, <1>1, PlaceIs
<1>5. /\ Sorted(list, found)
      /\ \A t \in ids : \E n \in 1 .. Len(list) : list[n].id = t /\ list[n].rank = table[t].rank
      /\ \A n \in 1 .. Len(list) : list[n].id \in ids
  <2>1. /\ SortedRows(list, ids, rk) /\ Sorted(list, found)
        /\ \A n \in 1 .. Len(list) : list[n].rank = table[list[n].id].rank
    BY OthersAre
  <2> HIDE DEF list, rk, found, ids
  <2>2. /\ \A n \in 1 .. Len(list) : list[n].id \in ids
        /\ \A t \in ids : \E n \in 1 .. Len(list) : list[n].id = t
    BY <2>1 DEF SortedRows
  <2> QED
    BY <2>1, <2>2
<1>6. HeldInTarget(r)'
  BY <1>1 DEF HeldInTarget, Nothing
<1> HIDE DEF rank, list, rk, found
<1>7. CASE Len(rank) <= Threshold
  <2>1. todo'[r] = <<>> /\ todo'[r] \in Seq([id : TaskIds, rank : StoredRanks])
    BY <1>1, <1>7
  <2>2. Len(todo'[r]) = 0 /\ 1 .. Len(todo'[r]) = {}
    BY <2>1
  <2>3. TodoInTarget(r)'
    BY <2>2 DEF TodoInTarget
  <2>4. /\ FinalRanks(r, Task(r))' = {rank}
        /\ \A t \in ids : FinalRanks(r, t)' = {table[t].rank}
    <3>1. \A t \in ids : Seen(r)'[t] = table[t]
      BY <1>1, <1>2 DEF Seen, Nothing
    <3> QED
      BY <1>1, <1>2, <2>2, <3>1 DEF FinalRanks
  <2>5. LandsRight(r)'
    <3>1. before \in ids => Less(table[before].rank, rank)
      BY <1>3, <1>5
    <3>2. after \in ids => Less(rank, table[after].rank)
      BY <1>3, <1>5
    <3> QED
      BY <1>0, <1>1, <1>2, <2>4, <3>1, <3>2 DEF LandsRight, AllLess
  <2>6. LandsAlone(r)'
    <3>1. CASE before # None \/ after # None
      BY <1>0, <1>1, <1>2, <2>1, <3>1 DEF LandsAlone, Nothing
    <3>2. CASE before = None /\ after = None
      <4>1. \A x \in found : x.rank # rank
        BY <1>3, <1>4, <1>5, <3>2, GapIsFree
      <4>2. \A n \in 1 .. Len(list) : list[n] \in found
        BY <1>5 DEF Sorted
      <4>3. \A t \in ids : table[t].rank # rank
        BY <1>5, <4>1, <4>2
      <4> QED
        BY <1>2, <2>4, <4>3 DEF LandsAlone
    <3> QED
      BY <3>1, <3>2
  <2> QED
    BY <1>1, <1>3, <1>6, <2>1, <2>3, <2>5, <2>6 DEF MoveInOrder
<1>8. CASE ~(Len(rank) <= Threshold)
  <2> DEFINE i == p.index + 1
  <2>0. PICK writes : writes = todo'[r]
    OBVIOUS
  <2>1. /\ writes \in Seq([id : TaskIds, rank : StoredRanks])
        /\ Len(writes) = Len(list) + 1
        /\ \A m, n \in 1 .. Len(writes) : m < n => Less(writes[m].rank, writes[n].rank)
        /\ \A m, n \in 1 .. Len(writes) :
             m # n => writes[m].rank # writes[n].rank /\ writes[m].id # writes[n].id
        /\ writes[i].id = Task(r)
        /\ \A n \in 1 .. Len(list) : n <= p.index => writes[n].id = list[n].id
        /\ \A n \in 1 .. Len(list) : p.index < n => writes[n + 1].id = list[n].id
    <3>1. writes = spaced
      BY <1>1, <1>8, <2>0
    <3>2. /\ writes \in Seq([id : TaskIds, rank : StoredRanks])
          /\ SpacedWith(writes, list, p.index, Task(r))
      BY <1>3, <3>1, RespacingIs DEF list
    <3> QED
      BY <3>2 DEF SpacedWith
  <2>2. /\ i \in 1 .. Len(writes)
        /\ \A n \in 1 .. Len(list) : n \in 1 .. Len(writes) /\ n + 1 \in 1 .. Len(writes)
        /\ \A n \in 1 .. Len(list) : n <= p.index => n < i
        /\ \A n \in 1 .. Len(list) : p.index < n => i < n + 1
    BY <1>3, <2>1
  <2> HIDE DEF i
  <2>3. ASSUME NEW t \in ids PROVE \E n \in 1 .. Len(writes) : writes[n].id = t
    <3>1. PICK n \in 1 .. Len(list) : list[n].id = t
      BY <1>5
    <3>2. CASE n <= p.index
      BY <2>1, <2>2, <3>1, <3>2
    <3>3. CASE p.index < n
      BY <2>1, <2>2, <3>1, <3>3
    <3> QED
      BY <1>3, <3>2, <3>3
  <2>4. ASSUME NEW t, NEW n \in 1 .. Len(writes), writes[n].id = t
        PROVE  FinalRanks(r, t)' = {writes[n].rank}
    <3> DEFINE planned == {m \in 1 .. Len(writes) : writes[m].id = t}
    <3>1. planned = {n}
      BY <2>1, <2>4
    <3>2. planned # {} => FinalRanks(r, t)' = {writes[m].rank : m \in planned}
      BY <2>0 DEF FinalRanks
    <3> HIDE DEF planned
    <3> QED
      BY <3>1, <3>2
  <2>5. FinalRanks(r, Task(r))' = {writes[i].rank}
    <3>1. PICK x : x = Task(r)
      OBVIOUS
    <3>2. FinalRanks(r, x)' = {writes[i].rank}
      BY <2>1, <2>2, <2>4, <3>1
    <3>3. x = Task(r)'
      BY <1>2, <3>1
    <3> QED
      BY <3>2, <3>3
  <2>6. TodoInTarget(r)'
    <3>1. ASSUME NEW n \in 1 .. Len(writes), n # i PROVE writes[n].id \in ids
      <4>1. CASE n <= p.index
        <5>1. n \in 1 .. Len(list)
          BY <1>3, <4>1
        <5> QED
          BY <1>5, <2>1, <4>1, <5>1
      <4>2. CASE ~(n <= p.index)
        <5>1. PICK m : m = n - 1
          OBVIOUS
        <5>2. m \in 1 .. Len(list) /\ p.index < m /\ m + 1 = n
          BY <1>3, <2>1, <3>1, <4>2, <5>1 DEF i
        <5> QED
          BY <1>5, <2>1, <5>2
      <4> QED
        BY <4>1, <4>2
    <3>2. \A n \in 1 .. Len(writes) :
            writes[n].id = Task(r) \/ writes[n].id \in InColumn(table, Target(r))
      BY <1>2, <2>1, <3>1
    <3>3. InColumn(table, Target(r))' = InColumn(table, Target(r))
      BY <1>1, <1>2 DEF InColumn
    <3> QED
      BY <1>2, <2>0, <3>2, <3>3 DEF TodoInTarget
  <2>7. LandsRight(r)'
    <3>1. ASSUME before \in ids
          PROVE  AllLess(FinalRanks(r, before)', FinalRanks(r, Task(r))')
      <4>1. PICK n \in 1 .. Len(list) : list[n].id = before
        BY <1>5, <3>1
      <4>2. n <= p.index
        BY <1>3, <4>1
      <4>3. n \in 1 .. Len(writes) /\ n < i /\ writes[n].id = before
        BY <2>1, <2>2, <4>1, <4>2
      <4>4. FinalRanks(r, before)' = {writes[n].rank}
        BY <2>4, <4>3
      <4> QED
        BY <2>1, <2>2, <2>5, <4>3, <4>4 DEF AllLess
    <3>2. ASSUME after \in ids
          PROVE  AllLess(FinalRanks(r, Task(r))', FinalRanks(r, after)')
      <4>1. PICK n \in 1 .. Len(list) : list[n].id = after
        BY <1>5, <3>2
      <4>2. p.index < n
        BY <1>3, <4>1
      <4>3. n + 1 \in 1 .. Len(writes) /\ i < n + 1 /\ writes[n + 1].id = after
        BY <2>1, <2>2, <4>1, <4>2
      <4>4. FinalRanks(r, after)' = {writes[n + 1].rank}
        BY <2>4, <4>3
      <4> QED
        BY <2>1, <2>2, <2>5, <4>3, <4>4 DEF AllLess
    <3>3. body'[r].before = before /\ body'[r].after = after
      BY <1>0, <1>1
    <3> QED
      BY <1>2, <3>1, <3>2, <3>3 DEF LandsRight, AllLess
  <2>8. LandsAlone(r)'
    <3>1. ASSUME NEW t \in ids PROVE FinalRanks(r, t)' \cap FinalRanks(r, Task(r))' = {}
      <4>1. PICK n \in 1 .. Len(writes) : writes[n].id = t
        BY <2>3
      <4>2. n # i
        BY <1>2, <2>1, <4>1
      <4>3. FinalRanks(r, t)' = {writes[n].rank}
        BY <2>4, <4>1
      <4> QED
        BY <2>1, <2>2, <2>5, <4>2, <4>3
    <3> QED
      BY <1>2, <3>1 DEF LandsAlone
  <2> QED
    BY <1>1, <1>3, <1>6, <2>1, <2>6, <2>7, <2>8, <2>0 DEF MoveInOrder
<1> QED
  BY <1>7, <1>8

-----------------------------------------------------------------------------
(* Every step. *)

\* What a request's own variables must satisfy.
OwnInOrder(r) ==
  /\ \A t \in TaskIds : held[r][t] # Untouched => held[r][t].rank \in StoredRanks
  /\ InTransaction(r) => newRank[r] \in StoredRanks
  /\ todo[r] \in Seq([id : TaskIds, rank : StoredRanks])
  /\ HeldInTarget(r) /\ TodoInTarget(r) /\ MoveInOrder(r)

LEMMA OutsideTransaction ==
  ASSUME OInv, NEW r \in Reqs,
         held'[r] = held[r] \/ held'[r] = Nothing, todo'[r] = todo[r] \/ todo'[r] = <<>>,
         pc'[r] \notin {"placing", "respacing"}
  PROVE  OwnInOrder(r)'
<1>1. ~InTransaction(r)' /\ ~Moving(r)'
  BY DEF Moving, InTransaction
<1>2. \A t \in TaskIds : held'[r][t] # Untouched => held'[r][t].rank \in StoredRanks
  BY DEF OInv, RanksStored, Nothing
<1>3. todo'[r] \in Seq([id : TaskIds, rank : StoredRanks])
  <2> DEFINE T == [id : TaskIds, rank : StoredRanks]
  <2>1. todo[r] \in Seq(T)
    BY DEF OInv, RanksStored
  <2> HIDE DEF T
  <2>2. <<>> \in Seq(T)
    OBVIOUS
  <2>3. todo'[r] \in Seq(T)
    BY <2>1, <2>2
  <2> QED
    BY <2>3 DEF T
<1> QED
  BY <1>1, <1>2, <1>3 DEF OwnInOrder, HeldInTarget, TodoInTarget, MoveInOrder

\* A list of rows that have ranks.
LEMMA ListHasRanks ==
  ASSUME NEW rows, NEW ids, ids \subseteq TaskIds, \A t \in ids : rows[t].rank \in StoredRanks,
         NEW list, list = OrderedRows(rows, ids)
  PROVE  /\ Len(list) \in Nat /\ \A n \in 1 .. Len(list) : list[n].rank \in StoredRanks
         /\ IdsOf(list) \in Seq(TaskIds)
<1> DEFINE rk == [t \in ids |-> rows[t].rank]
           found == RankedRows(ids, rk)
<1>1. ids \subseteq Nat /\ IsFiniteSet(ids) /\ \A t \in ids : rk[t] \in StoredRanks
  BY IdAssumption, FS_Subset
<1>2. list = Ordered(found)
  BY DEF OrderedRows
<1> HIDE DEF rk
<1>3. SortedRows(list, ids, rk)
  BY <1>1, <1>2, ListIs
<1>4. Sorted(list, found) /\ \A n \in 1 .. Len(list) : list[n].id \in TaskIds
  BY <1>3 DEF SortedRows
<1>5. /\ \A y \in found : \E n \in 1 .. Len(list) : list[n] = y
      /\ Len(list) \in Nat /\ \A n \in 1 .. Len(list) : list[n].rank \in StoredRanks
  BY <1>4 DEF Sorted
<1>6. \A y \in found : y.id \in TaskIds
  BY <1>4, <1>5
<1> HIDE DEF found
<1>7. IdsOf(list) \in Seq(TaskIds)
  BY <1>4, <1>6, SortedIds
<1> QED
  BY <1>5, <1>7

LEMMA CreateReadsInOrder ==
  ASSUME IInv, OInv, NEW r \in Reqs, CreateReads(r)
  PROVE  OwnInOrder(r)'
<1> DEFINE rows == OrderedRows(table, InColumn(table, Target(r)))
           top == RankAt(rows, Len(rows), First)
<1>1. /\ newRank'[r] = Between(top, Last) /\ todo'[r] = <<>> /\ held' = held /\ body' = body
      /\ Kind(r) = "create"
  BY DEF CreateReads, Plan, request, OInv
<1>2. Len(rows) \in Nat /\ \A n \in 1 .. Len(rows) : rows[n].rank \in StoredRanks
  <2>1. /\ InColumn(table, Target(r)) \subseteq TaskIds
        /\ \A t \in InColumn(table, Target(r)) : table[t].rank \in StoredRanks
    BY DEF InColumn, OInv, RanksStored
  <2> QED
    BY <2>1, ListHasRanks
<1> HIDE DEF rows
<1>3. top \in StoredRanks \cup {First}
  BY <1>2 DEF RankAt
<1> HIDE DEF top
<1>4. Less(top, Last)
  <2>1. Less(First, Last)
    BY BaseAssumption DEF Less, First, Last
  <2> QED
    BY <1>3, <2>1, StoredInside
<1>5. newRank'[r] \in StoredRanks
  BY <1>1, <1>3, <1>4, BetweenStored
<1>6. ~Moving(r)'
  BY <1>1 DEF Moving, Kind
<1>7. /\ \A t \in TaskIds : held'[r][t] # Untouched => held'[r][t].rank \in StoredRanks
      /\ todo'[r] \in Seq([id : TaskIds, rank : StoredRanks])
  BY <1>1 DEF OInv, RanksStored
<1> QED
  BY <1>5, <1>6, <1>7 DEF OwnInOrder, HeldInTarget, TodoInTarget, MoveInOrder

LEMMA InsertTaskInOrder ==
  ASSUME IInv, OInv, NEW r \in Reqs, InsertTask(r)
  PROVE  OwnInOrder(r)'
<1>1. /\ Kind(r) = "create" /\ newRank' = newRank /\ body' = body /\ pc[r] = "placing"
      /\ Task(r) \in TaskIds /\ DOMAIN held = Reqs /\ DOMAIN held[r] = TaskIds
      /\ DOMAIN table = TaskIds /\ DOMAIN todo = Reqs
  BY Named DEF InsertTask, request, IInv, TypeOK, OInv
<1>2. PICK y : y = [boardId |-> board[r], columnId |-> Target(r),
                    rank |-> newRank[r], version |-> 0]
  OBVIOUS
<1>3. newRank[r] \in StoredRanks /\ y.rank = newRank[r]
  BY <1>1, <1>2 DEF OInv, RanksStored, InTransaction
<1>4. held' = [held EXCEPT ![r][Task(r)] = y]
  BY <1>2 DEF InsertTask
<1>5. held'[r][Task(r)] = y /\ \A t \in TaskIds \ {Task(r)} : held'[r][t] = held[r][t]
  BY <1>1, <1>4
<1>6. PICK rows : rows = [table EXCEPT ![Task(r)] = y]
  OBVIOUS
<1> DEFINE ids == InColumn(rows, Target(r))
           list == OrderedRows(rows, ids)
<1>7. todo'[r] = Respacing(newRank[r], IdsOf(list))
  BY <1>1, <1>5, <1>6 DEF InsertTask
<1>8. ids \subseteq TaskIds /\ \A t \in ids : rows[t].rank \in StoredRanks
  <2>1. \A t \in TaskIds : rows[t] = IF t = Task(r) THEN y ELSE table[t]
    BY <1>1, <1>6
  <2> QED
    BY <1>3, <2>1 DEF InColumn, OInv, RanksStored
<1> HIDE DEF ids
<1>9. IdsOf(list) \in Seq(TaskIds)
  BY <1>8, ListHasRanks
<1> HIDE DEF list
<1>10. todo'[r] \in Seq([id : TaskIds, rank : StoredRanks])
  <2>1. Spaced(IdsOf(list)) \in Seq([id : TaskIds, rank : StoredRanks])
    BY <1>9, SpacedIs
  <2> QED
    BY <1>7, <2>1 DEF Respacing
<1>11. ~Moving(r)'
  BY <1>1 DEF Moving, Kind
<1>12. \A t \in TaskIds : held'[r][t] # Untouched => held'[r][t].rank \in StoredRanks
  BY <1>3, <1>5 DEF OInv, RanksStored
<1>13. newRank'[r] \in StoredRanks
  BY <1>1, <1>3
<1> QED
  BY <1>10, <1>11, <1>12, <1>13 DEF OwnInOrder, HeldInTarget, TodoInTarget, MoveInOrder

LEMMA RespaceRowOwn ==
  ASSUME IInv, RInv, OInv, NEW r \in Reqs, RespaceRow(r)
  PROVE  OwnInOrder(r)'
<1>1. /\ body' = body /\ newRank' = newRank /\ pc' = pc /\ pc[r] = "respacing"
  BY DEF RespaceRow, request
<1>2. \A t \in TaskIds : held'[r][t] # Untouched => held'[r][t].rank \in StoredRanks
  <2>1. /\ todo[r][1].rank \in StoredRanks
        /\ held'[r][todo[r][1].id].rank = todo[r][1].rank
        /\ \A t \in TaskIds \ {todo[r][1].id} : held'[r][t] = held[r][t]
    BY RespaceRowWrites
  <2> QED
    BY <2>1 DEF OInv, RanksStored
<1>3. todo'[r] \in Seq([id : TaskIds, rank : StoredRanks])
  BY RespaceRowWrites
<1>4. newRank'[r] \in StoredRanks
  BY <1>1 DEF OInv, RanksStored, InTransaction
<1>5. HeldInTarget(r)' /\ TodoInTarget(r)' /\ MoveInOrder(r)'
  <2>1. CASE Kind(r) = "move"
    BY <2>1, RespaceRowInOrder
  <2>2. CASE Kind(r) # "move"
    BY <1>1, <2>2 DEF Moving, Kind, HeldInTarget, TodoInTarget, MoveInOrder
  <2> QED
    BY <2>1, <2>2
<1> QED
  BY <1>2, <1>3, <1>4, <1>5 DEF OwnInOrder

LEMMA PlaceTaskOwn ==
  ASSUME IInv, RInv, OInv, NEW r \in Reqs, PlaceTask(r)
  PROVE  OwnInOrder(r)'
<1>1. /\ newRank' = newRank /\ todo' = todo /\ pc[r] = "placing"
  BY DEF PlaceTask
<1>2. newRank'[r] \in StoredRanks
  BY <1>1 DEF OInv, RanksStored, InTransaction
<1>3. todo'[r] \in Seq([id : TaskIds, rank : StoredRanks])
  BY <1>1 DEF OInv, RanksStored
<1>4. /\ held'[r][Task(r)].rank \in StoredRanks
      /\ \A t \in TaskIds : held'[r][t] = held[r][t] \/ t = Task(r)
      /\ HeldInTarget(r)' /\ TodoInTarget(r)' /\ MoveInOrder(r)'
  BY PlaceTaskInOrder
<1>5. \A t \in TaskIds : held'[r][t] # Untouched => held'[r][t].rank \in StoredRanks
  BY <1>4 DEF OInv, RanksStored
<1> QED
  BY <1>2, <1>3, <1>4, <1>5 DEF OwnInOrder

LEMMA AttemptOwn ==
  ASSUME IInv, OInv, NEW r \in Reqs, AttemptMove(r)
  PROVE  OwnInOrder(r)'
<1>1. /\ pc[r] = "begin" /\ Kind(r) = "move" /\ pc \in [Reqs -> Stages]
      /\ DOMAIN held = Reqs
  BY DEF AttemptMove, IInv, TypeOK
<1>2. PICK p \in {Place(r)} : AttemptThrows(r, p) \/ AttemptConflicts(r, p) \/ AttemptWrites(r, p)
  BY DEF AttemptMove
<1>3. CASE AttemptThrows(r, p) \/ AttemptConflicts(r, p)
  <2>1. pc'[r] = "done" /\ held' = held /\ todo' = todo
    BY <1>1, <1>3 DEF AttemptThrows, AttemptConflicts, Reply, Goto, transaction
  <2> QED
    BY <2>1, OutsideTransaction
<1>4. CASE AttemptWrites(r, p)
  <2>1. /\ newRank'[r] \in StoredRanks
        /\ todo'[r] \in Seq([id : TaskIds, rank : StoredRanks])
        /\ HeldInTarget(r)' /\ TodoInTarget(r)' /\ MoveInOrder(r)'
    BY <1>1, <1>2, <1>4, AttemptInOrder
  <2>2. held'[r] = Nothing
    BY <1>1, <1>4 DEF AttemptWrites, Clear
  <2> QED
    BY <2>1, <2>2 DEF OwnInOrder, Nothing
<1> QED
  BY <1>2, <1>3, <1>4

LEMMA OwnStep ==
  ASSUME IInv, RInv, OInv, NEW r \in Reqs, Authorize(r) \/ Handle(r)
  PROVE  OwnInOrder(r)'
<1> USE DEF store, request, transaction, Reply, Goto, Discard, Clear, Plan
<1>1. /\ pc \in [Reqs -> Stages] /\ DOMAIN held = Reqs /\ DOMAIN todo = Reqs
  BY DEF IInv, TypeOK, OInv
<1>2. CASE Authorize(r) \/ CheckTarget(r)
  BY <1>1, <1>2, OutsideTransaction DEF Authorize, CheckTarget
<1>3. CASE PlaceTaskFails(r) \/ InsertTaskFails(r) \/ RespaceRowFails(r)
  BY <1>1, <1>3, OutsideTransaction DEF PlaceTaskFails, InsertTaskFails, RespaceRowFails
<1>4. CASE Commit(r)
  BY <1>1, <1>4, OutsideTransaction DEF Commit
<1>5. CASE SerializationFailure(r)
  BY <1>1, <1>5, OutsideTransaction DEF SerializationFailure, Retry
<1>6. CASE GiveUp(r) \/ CreateVictim(r) \/ Broadcast(r)
  BY <1>1, <1>6, OutsideTransaction DEF GiveUp, CreateVictim, Broadcast
<1>7. CASE UpdateTask(r) \/ RemoveTask(r) \/ RemoveColumn(r) \/ StatementFails(r)
  BY <1>1, <1>7, OutsideTransaction
  DEF UpdateTask, RemoveTask, RemoveColumn, StatementFails, Statement
<1> QED
  BY <1>2, <1>3, <1>4, <1>5, <1>6, <1>7,
     AttemptOwn, PlaceTaskOwn, CreateReadsInOrder, InsertTaskInOrder, RespaceRowOwn DEF Handle

LEMMA TableKeepsRanks ==
  ASSUME IInv, OInv, NEW q \in Reqs, Authorize(q) \/ Handle(q),
         NEW t \in TaskIds, table'[t] # NoRow
  PROVE  table'[t].rank \in StoredRanks
<1>1. CASE Commit(q)
  BY <1>1 DEF Commit, Seen, OInv, RanksStored
<1>2. CASE RemoveTask(q)
  <2>1. DOMAIN table = TaskIds /\ table' = [table EXCEPT ![Task(q)] = NoRow]
    BY <1>2 DEF RemoveTask, IInv, TypeOK
  <2> QED
    BY <2>1 DEF OInv, RanksStored
<1>3. CASE RemoveColumn(q)
  BY <1>3 DEF RemoveColumn, OInv, RanksStored
<1> QED
  BY <1>1, <1>2, <1>3, TableChanges DEF OInv, RanksStored

\* The plans stay functions of the requests, and a move reads a column that it writes.
LEMMA RivalsStep ==
  ASSUME IInv, OInv, NEW q \in Reqs, Authorize(q) \/ Handle(q)
  PROVE  /\ DOMAIN newRank' = Reqs /\ DOMAIN todo' = Reqs /\ DOMAIN rivals' = Reqs
         /\ RivalsRead'
<1> USE DEF store, request, transaction, Reply, Goto, Discard, Clear, Plan
<1>1. /\ DOMAIN newRank = Reqs /\ DOMAIN todo = Reqs /\ DOMAIN rivals = Reqs
      /\ \A r \in Reqs : \A v \in rivals[r] : v.reads \in v.writes
  BY DEF OInv, RivalsRead
<1>2. CASE Authorize(q) \/ CheckTarget(q)
  BY <1>1, <1>2 DEF Authorize, CheckTarget, RivalsRead
<1>3. CASE AttemptMove(q)
  <2>1. PICK p \in {Place(q)} : AttemptThrows(q, p) \/ AttemptConflicts(q, p) \/ AttemptWrites(q, p)
    BY <1>3 DEF AttemptMove
  <2> QED
    BY <1>1, <2>1 DEF AttemptThrows, AttemptConflicts, AttemptWrites, RivalsRead
<1>4. CASE PlaceTask(q) \/ PlaceTaskFails(q) \/ CreateReads(q)
  BY <1>1, <1>4 DEF PlaceTask, PlaceTaskFails, CreateReads, RivalsRead
<1>5. CASE InsertTask(q) \/ InsertTaskFails(q)
  BY <1>1, <1>5 DEF InsertTask, InsertTaskFails, RivalsRead
<1>6. CASE RespaceRow(q) \/ RespaceRowFails(q)
  BY <1>1, <1>6 DEF RespaceRow, RespaceRowFails, RivalsRead
<1>7. CASE Commit(q)
  <2> DEFINE e == [reads |-> Target(q), writes |-> ColumnsWritten(q)]
  <2>1. e.reads \in e.writes
    BY DEF ColumnsWritten
  <2> HIDE DEF e
  <2>2. rivals' = [r \in Reqs |-> IF r = q THEN {}
                                  ELSE IF Moving(q) /\ Moving(r) THEN rivals[r] \cup {e}
                                  ELSE rivals[r]]
    BY <1>7 DEF Commit, e
  <2>3. DOMAIN newRank' = Reqs /\ DOMAIN todo' = Reqs
    BY <1>1, <1>7 DEF Commit
  <2> QED
    BY <1>1, <2>1, <2>2, <2>3 DEF RivalsRead
<1>8. CASE SerializationFailure(q) \/ GiveUp(q) \/ CreateVictim(q)
  BY <1>1, <1>8 DEF SerializationFailure, GiveUp, CreateVictim, Retry, RivalsRead
<1>9. CASE UpdateTask(q) \/ RemoveTask(q) \/ RemoveColumn(q) \/ StatementFails(q)
  BY <1>1, <1>9
  DEF UpdateTask, RemoveTask, RemoveColumn, StatementFails, Statement, MarkStale, RivalsRead
<1>10. CASE Broadcast(q)
  BY <1>1, <1>10 DEF Broadcast, RivalsRead
<1> QED
  BY <1>2, <1>3, <1>4, <1>5, <1>6, <1>7, <1>8, <1>9, <1>10 DEF Handle

LEMMA NextOInv == IInv /\ RInv /\ OInv /\ [Next]_vars => OInv'
<1> SUFFICES ASSUME IInv, RInv, OInv, [Next]_vars PROVE OInv'
  OBVIOUS
<1>1. ASSUME NEW q \in Reqs, Authorize(q) \/ Handle(q) PROVE OInv'
  <2>1. ASSUME NEW r \in Reqs \ {q} PROVE OwnInOrder(r)'
    <3>1. HeldInTarget(r)' /\ TodoInTarget(r)' /\ MoveInOrder(r)'
      BY <1>1, OthersInOrder
    <3>2. /\ pc'[r] = pc[r] /\ newRank'[r] = newRank[r]
          /\ todo'[r] = todo[r] /\ held'[r] = held[r]
      BY <1>1, Bystander
    <3> QED
      BY <3>1, <3>2 DEF OwnInOrder, OInv, RanksStored, InTransaction
  <2>2. \A r \in Reqs : OwnInOrder(r)'
    BY <1>1, <2>1, OwnStep
  <2>3. \A t \in TaskIds : table'[t] # NoRow => table'[t].rank \in StoredRanks
    BY <1>1, TableKeepsRanks
  <2>4. RanksStored'
    BY <2>2, <2>3 DEF RanksStored, OwnInOrder
  <2>5. /\ DOMAIN newRank' = Reqs /\ DOMAIN todo' = Reqs /\ DOMAIN rivals' = Reqs
        /\ RivalsRead'
    BY <1>1, RivalsStep
  <2> QED
    BY <2>2, <2>4, <2>5 DEF OInv, OwnInOrder
<1>2. ASSUME UNCHANGED vars PROVE OInv'
  <2>1. RanksStored' /\ RivalsRead'
    BY <1>2 DEF vars, OInv, RanksStored, RivalsRead, InTransaction
  <2>2. ASSUME NEW r \in Reqs PROVE HeldInTarget(r)' /\ TodoInTarget(r)'
    BY <1>2
    DEF vars, OInv, HeldInTarget, TodoInTarget, Moving, InTransaction, Kind, Task, Target, InColumn
  <2>3. ASSUME NEW r \in Reqs PROVE MoveInOrder(r)'
    <3>1. /\ Moving(r)' <=> Moving(r)
          /\ OnlyMovesAdd' <=> OnlyMovesAdd
          /\ Undisturbed(r)' <=> Undisturbed(r)
      BY <1>2 DEF vars, Moving, InTransaction, Kind, OnlyMovesAdd, Undisturbed, Target
    <3>2. /\ body' = body /\ todo' = todo /\ held' = held
          /\ Neighbours(r)' = Neighbours(r)
      BY <1>2 DEF vars, Neighbours, InColumn, Task, Target
    <3>3. ASSUME NEW t PROVE FinalRanks(r, t)' = FinalRanks(r, t)
      <4>1. Seen(r)' = Seen(r)
        BY <1>2 DEF vars, Seen
      <4> QED
        BY <1>2, <4>1 DEF vars, FinalRanks, Task
    <3>4. LandsRight(r) /\ LandsAlone(r) => LandsRight(r)' /\ LandsAlone(r)'
      BY <3>2, <3>3, OrderNarrows
    <3> QED
      BY <3>1, <3>4 DEF OInv, MoveInOrder
  <2> QED
    BY <1>2, <2>1, <2>2, <2>3 DEF vars, OInv
<1> QED
  BY <1>1, <1>2 DEF Next, Idle

LEMMA InitOInv == Init => OInv
<1> SUFFICES ASSUME Init PROVE OInv
  OBVIOUS
<1>1. \A r \in Reqs : pc[r] = "sent" /\ todo[r] = <<>> /\ held[r] = Nothing /\ rivals[r] = {}
  BY DEF Init
<1>2. \A r \in Reqs : ~InTransaction(r) /\ ~Moving(r)
  BY <1>1 DEF InTransaction, Moving
<1>3. \A t \in TaskIds : table[t] # NoRow => table[t].rank \in StoredRanks
  BY TableAssumption DEF Init
<1>4. <<>> \in Seq([id : TaskIds, rank : StoredRanks])
  OBVIOUS
<1>5. RanksStored
  BY <1>1, <1>2, <1>3, <1>4 DEF RanksStored, Nothing
<1> QED
  BY <1>1, <1>2, <1>5 DEF Init, OInv, RivalsRead, HeldInTarget, TodoInTarget, MoveInOrder

LEMMA OthersHold ==
  ASSUME IInv, OInv, NEW r \in Reqs, Kind(r) = "move", NEW t \in Neighbours(r)
  PROVE  \E n \in 1 .. Len(Others(r)) : Others(r)[n].id = t /\ Others(r)[n].rank = table[t].rank
<1> DEFINE rk == [u \in Neighbours(r) |-> table[u].rank]
           list == Others(r)
<1>1. /\ SortedRows(list, Neighbours(r), rk)
      /\ \A n \in 1 .. Len(list) : list[n].rank = table[list[n].id].rank
  BY OthersAre
<1> HIDE DEF list, rk
<1>2. \E n \in 1 .. Len(list) : list[n].id = t
  BY <1>1 DEF SortedRows
<1> QED
  BY <1>1, <1>2 DEF list

\* At the commit of a midpoint, what is left of its neighbours still bounds it.
LEMMA GapStillHolds ==
  ASSUME IInv, OInv, NEW r \in Reqs, Kind(r) = "move", LandsRight(r), pc[r] = "respacing",
         body[r].before # None \/ body[r].after # None,
         todo[r] = <<>>, \A u \in Neighbours(r) : held[r][u] = Untouched,
         NEW mid \in StoredRanks, FinalRanks(r, Task(r)) = {mid}
  PROVE  Less(Place(r).lower, mid) /\ Less(mid, Place(r).upper)
<1> DEFINE rk == [t \in Neighbours(r) |-> table[t].rank]
           list == Others(r)
           found == RankedRows(Neighbours(r), rk)
           p == Place(r)
<1>0. PICK before, after, position :
        before = body[r].before /\ after = body[r].after /\ position = body[r].position
  OBVIOUS
<1>1. /\ Sorted(list, found) /\ SortedRows(list, Neighbours(r), rk)
      /\ \A n \in 1 .. Len(list) : list[n].id # None
      /\ \A n \in 1 .. Len(list) : list[n].rank = table[list[n].id].rank
  BY OthersAre
<1>2. p = ResolveNeighborBounds(list, before, after, position)
  BY <1>0 DEF Place
<1>3. position \in Nat \cup {None}
  <2>1. body \in [Reqs -> Bodies]
    BY WorkloadAssumption DEF IInv, TypeOK
  <2> QED
    BY <1>0, <2>1 DEF Bodies
<1> HIDE DEF p, list, found, rk
<1>4. AtNeighbours(list, before, after, p)
  BY <1>0, <1>1, <1>2, <1>3, BoundsAre
<1>5. \A n \in 1 .. Len(list) : list[n].id \in Neighbours(r)
  BY <1>1 DEF SortedRows
<1>6. \A t \in Neighbours(r) : FinalRanks(r, t) = {table[t].rank}
  <2>1. \A t \in Neighbours(r) : t \in TaskIds
    BY DEF Neighbours, InColumn
  <2>2. \A t \in Neighbours(r) : Seen(r)[t] = table[t]
    BY <2>1 DEF Seen
  <2> QED
    BY <2>2 DEF FinalRanks
<1>7. /\ IndexOf(list, before) \in 0 .. Len(list)
      /\ IndexOf(list, before) > 0 => list[IndexOf(list, before)].id = before
      /\ IndexOf(list, after) \in 0 .. Len(list)
      /\ IndexOf(list, after) > 0 => list[IndexOf(list, after)].id = after
  BY <1>1, IndexOfIs
<1>8. Len(list) \in Nat
  BY <1>1 DEF Sorted
<1>9. Less(First, mid) /\ Less(mid, Last)
  BY StoredInside
<1>10. Less(p.lower, mid)
  <2> DEFINE b == IndexOf(list, before)
  <2>1. p.lower = RankAt(list, b, First)
    BY <1>4 DEF AtNeighbours
  <2> HIDE DEF b
  <2>2. CASE b > 0
    <3>1. b \in 1 .. Len(list) /\ list[b].id = before
      BY <1>7, <1>8, <2>2 DEF b
    <3>2. before \in Neighbours(r) /\ p.lower = table[before].rank
      BY <1>1, <1>5, <2>1, <3>1 DEF RankAt
    <3> QED
      BY <1>0, <1>6, <3>2 DEF LandsRight, AllLess
  <2>3. CASE ~(b > 0)
    <3>1. p.lower = First
      BY <1>7, <1>8, <2>1, <2>3 DEF RankAt, b
    <3> QED
      BY <1>9, <3>1
  <2> QED
    BY <2>2, <2>3
<1>11. Less(mid, p.upper)
  <2> DEFINE a == IndexOf(list, after)
  <2>1. p.upper = RankAt(list, a, Last)
    BY <1>4 DEF AtNeighbours
  <2> HIDE DEF a
  <2>2. CASE a > 0
    <3>1. a \in 1 .. Len(list) /\ list[a].id = after
      BY <1>7, <1>8, <2>2 DEF a
    <3>2. after \in Neighbours(r) /\ p.upper = table[after].rank
      BY <1>1, <1>5, <2>1, <3>1 DEF RankAt
    <3> QED
      BY <1>0, <1>6, <3>2 DEF LandsRight, AllLess
  <2>3. CASE ~(a > 0)
    <3>1. p.upper = Last
      BY <1>7, <1>8, <2>1, <2>3 DEF RankAt, a
    <3> QED
      BY <1>9, <3>1
  <2> QED
    BY <2>2, <2>3
<1> QED
  BY <1>10, <1>11 DEF p

-----------------------------------------------------------------------------

\* A move becomes a winner at its commit.
LEMMA WinsAtCommit ==
  ASSUME IInv, RInv, [Next]_vars, NEW r \in Reqs, ~Won(r), Won(r)'
  PROVE  Commit(r) /\ Kind(r) = "move"
<1>1. ASSUME NEW q \in Reqs, Authorize(q) \/ Handle(q), ~Broadcast(q)
      PROVE  Commit(r) /\ Kind(r) = "move"
  <2>1. /\ body' = body
        /\ Won(q)' => Commit(q)
        /\ \A p \in Reqs \ {q} : pc'[p] = pc[p] /\ reply'[p] = reply[p]
    BY <1>1, StepsAreSilent
  <2>2. Kind(r) = "move"
    BY <2>1 DEF Won, Kind
  <2>3. q = r
    <3> SUFFICES ASSUME q # r PROVE FALSE
      OBVIOUS
    <3>1. pc'[r] = pc[r] /\ reply'[r] = reply[r]
      BY <2>1
    <3> QED
      BY <2>2, <3>1 DEF Won
  <2> QED
    BY <2>1, <2>2, <2>3
<1>2. ASSUME NEW q \in Reqs, Broadcast(q) PROVE FALSE
  <2>1. pc \in [Reqs -> Stages]
    BY DEF IInv, TypeOK
  <2> QED
    BY <1>2, <2>1 DEF Broadcast, Goto, request, Won, Kind
<1>3. ~UNCHANGED vars
  BY DEF vars, Won, Kind
<1> QED
  BY <1>1, <1>2, <1>3 DEF Next, Idle

\* The column as a committing move leaves it.
LEMMA AtCommit ==
  ASSUME IInv, RInv, OInv, NEW r \in Reqs, Commit(r), Kind(r) = "move", OnlyMovesAdd
  PROVE  /\ LandsRight(r) /\ LandsAlone(r)
         /\ Task(r) \in TaskIds /\ body' = body
         /\ table'[Task(r)] # NoRow /\ table'[Task(r)].rank \in StoredRanks
         /\ FinalRanks(r, Task(r)) = {table'[Task(r)].rank}
         /\ \A t \in TaskIds \ {Task(r)} :
              table'[t] # NoRow /\ table'[t].columnId = Target(r) =>
                /\ t \in Neighbours(r)
                /\ FinalRanks(r, t) = {table'[t].rank}
                /\ held[r][t] = Untouched => table'[t] = table[t]
<1>1. /\ pc[r] = "respacing" /\ todo[r] = <<>> /\ table' = Seen(r) /\ body' = body
      /\ Task(r) \in TaskIds /\ ~Skewed(r) /\ Moving(r)
  BY Named DEF Commit, request, IInv, TypeOK, Moving, InTransaction
<1>2. Undisturbed(r)
  BY <1>1 DEF Skewed, ColumnsWritten, Undisturbed, OInv, RivalsRead
<1>3. LandsRight(r) /\ LandsAlone(r)
  BY <1>1, <1>2 DEF OInv, MoveInOrder
<1>4. \A t : FinalRanks(r, t) = {Seen(r)[t].rank}
  BY <1>1 DEF FinalRanks
<1>5. held[r][Task(r)] # Untouched
  BY <1>1 DEF IInv, PlacedVersions
<1>6. table'[Task(r)] = held[r][Task(r)] /\ IsRow(held[r][Task(r)])
  BY <1>1, <1>5 DEF Seen, IInv, TypeOK
<1>7. table'[Task(r)] # NoRow /\ table'[Task(r)].rank \in StoredRanks
  BY <1>1, <1>5, <1>6, RowsAreRows DEF OInv, RanksStored
<1>8. ASSUME NEW t \in TaskIds \ {Task(r)}, table'[t] # NoRow, table'[t].columnId = Target(r)
      PROVE  t \in Neighbours(r) /\ (held[r][t] = Untouched => table'[t] = table[t])
  <2>1. table'[t] = IF held[r][t] = Untouched THEN table[t] ELSE held[r][t]
    BY <1>1 DEF Seen
  <2>2. held[r][t] # Untouched => table[t] # NoRow /\ held[r][t].columnId = table[t].columnId
    BY DEF IInv, RespacedVersions, RInv, HeldCells
  <2> QED
    BY <1>8, <2>1, <2>2 DEF Neighbours, InColumn
<1> QED
  BY <1>1, <1>3, <1>4, <1>7, <1>8

\* SERIALIZABLE refuses the second of two midpoints of one neighbour pair: a move between
\* neighbours commits with a rank that no other task of the column has, through retries,
\* re-spacings and deletes (tasks.service.ts 173-174).
THEOREM MidpointsAreOwn == Spec => MidpointIsOwn
<1>1. ASSUME IInv, RInv, OInv, [Next]_vars, NEW r \in Reqs,
             OnlyMovesAdd, ~Won(r), Won(r)', Adjacent(r)
      PROVE  ~RankTaken(r)'
  <2>1. Commit(r) /\ Kind(r) = "move"
    BY <1>1, WinsAtCommit
  <2> DEFINE mid == table'[Task(r)].rank
  <2>2. /\ LandsRight(r) /\ LandsAlone(r)
        /\ Task(r) \in TaskIds /\ body' = body
        /\ mid \in StoredRanks
        /\ FinalRanks(r, Task(r)) = {mid}
    BY <1>1, <2>1, AtCommit
  <2>3. ASSUME NEW t \in InColumn(table', Target(r)) \ {Task(r)}, table'[t].rank = mid PROVE FALSE
    <3>1. t \in TaskIds \ {Task(r)} /\ table'[t] # NoRow /\ table'[t].columnId = Target(r)
      BY <2>3 DEF InColumn
    <3>2. /\ t \in Neighbours(r)
          /\ FinalRanks(r, t) = {table'[t].rank}
          /\ held[r][t] = Untouched => table'[t] = table[t]
      BY <1>1, <2>1, <3>1, AtCommit
    <3>3. ~(FinalRanks(r, t) \cap FinalRanks(r, Task(r)) = {})
      BY <2>2, <2>3, <3>2
    <3>4. /\ body[r].before # None \/ body[r].after # None
          /\ todo[r] = <<>>
          /\ \A u \in Neighbours(r) : held[r][u] = Untouched
      BY <2>2, <3>2, <3>3 DEF LandsAlone
    \* The neighbours that are left bound a gap that still holds the midpoint.
    <3>5. Less(Place(r).lower, mid) /\ Less(mid, Place(r).upper)
      <4>1. pc[r] = "respacing"
        BY <2>1 DEF Commit
      <4> QED
        BY <1>1, <2>1, <2>2, <3>4, <4>1, GapStillHolds
    <3>6. PICK n \in 1 .. Len(Others(r)) : Others(r)[n].rank = table[t].rank
      BY <1>1, <2>1, <3>2, OthersHold
    <3>7. Others(r)[n].rank = mid
      BY <2>3, <3>2, <3>4, <3>6
    <3> QED
      BY <1>1, <3>5, <3>7 DEF Adjacent
  <2>4. Task(r)' = Task(r) /\ Target(r)' = Target(r)
    BY <2>2 DEF Task, Target
  <2> QED
    BY <2>3, <2>4 DEF RankTaken, InColumn
<1>2. IInv /\ RInv /\ OInv /\ [Next]_vars =>
        [\A r \in Reqs : OnlyMovesAdd /\ ~Won(r) /\ Won(r)' /\ Adjacent(r) => ~RankTaken(r)']_vars
  BY <1>1
<1> QED
  BY <1>2, Invariant, InitRInv, NextMaps, InitOInv, NextOInv, PTL DEF Spec, MidpointIsOwn

\* A committed move stands after the `before' task and before the `after' task of its
\* request, wherever these have been moved or re-spaced since it read them, as long as they
\* are in the column (tasks.service.ts 186-234).
THEOREM MovesLandWhereAsked == Spec => MovesLandBetweenNeighbours
<1>1. ASSUME IInv, RInv, OInv, [Next]_vars, NEW r \in Reqs, OnlyMovesAdd, ~Won(r), Won(r)'
      PROVE  LandsBetween(r)
  <2>1. Commit(r) /\ Kind(r) = "move"
    BY <1>1, WinsAtCommit
  <2>2. /\ LandsRight(r)
        /\ FinalRanks(r, Task(r)) = {table'[Task(r)].rank}
        /\ \A t \in TaskIds \ {Task(r)} :
             table'[t] # NoRow /\ table'[t].columnId = Target(r) =>
               t \in Neighbours(r) /\ FinalRanks(r, t) = {table'[t].rank}
    BY <1>1, <2>1, AtCommit
  <2>3. /\ body[r].before \in TaskIds \cup {None}
        /\ body[r].after \in TaskIds \cup {None}
    <3>1. body \in [Reqs -> Bodies]
      BY <1>1, WorkloadAssumption DEF IInv, TypeOK
    <3> QED
      BY <3>1 DEF Bodies
  <2> QED
    BY <2>2, <2>3 DEF LandsBetween, LandsRight, AllLess
<1>2. IInv /\ RInv /\ OInv /\ [Next]_vars =>
        [\A r \in Reqs : OnlyMovesAdd /\ ~Won(r) /\ Won(r)' => LandsBetween(r)]_vars
  BY <1>1
<1> QED
  BY <1>2, Invariant, InitRInv, NextMaps, InitOInv, NextOInv, PTL
  DEF Spec, MovesLandBetweenNeighbours
=============================================================================
