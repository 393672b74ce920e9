------------------------------ MODULE TaskMove ------------------------------
(***************************************************************************)
(* The task rows of one database and the requests of TasksService          *)
(* (tasks/tasks.service.ts) and of ColumnsService.remove that write them,  *)
(* interleaved at every await.                                             *)
(*                                                                         *)
(* A move runs in a SERIALIZABLE transaction and is retried once; a create *)
(* runs in a READ COMMITTED one; an edit and the two deletes are single    *)
(* statements.  PostgreSQL is external: rows written by a transaction stay *)
(* locked and invisible until it commits, a SERIALIZABLE transaction fails *)
(* (P2034) when it writes a row committed since its snapshot, when it and  *)
(* another committed one each wrote what the other read, or when it is the *)
(* victim of a deadlock.                                                   *)
(***************************************************************************)
EXTENDS Rank, FiniteSets

SX == INSTANCE SequencesExt

CONSTANTS TaskIds,       \* numbers, so that rows of equal rank are ordered by id
          Columns, Boards,
          BoardOf,       \* the board of each column, which never changes
          Reqs,          \* HTTP requests, each handled once
          Workloads,     \* the assignments of a body to each request
          InitialTable,
          MaxAhead       \* how many unanswered moves of a task its client may have open

Kinds == {"move", "create", "update", "remove", "removeColumn"}

Bodies == [kind     : Kinds,
           task     : TaskIds \cup {None},
           column   : Columns \cup {None},
           before   : TaskIds \cup {None},
           after    : TaskIds \cup {None},
           position : Nat \cup {None}]

\* A row that does not exist, and one that a transaction has not written.
NoRow == [version |-> -1]
Untouched == [version |-> -2]

IsRow(x) ==
  /\ DOMAIN x = {"boardId", "columnId", "rank", "version"}
  /\ x = [boardId |-> x.boardId, columnId |-> x.columnId,
          rank |-> x.rank, version |-> x.version]
  /\ x.boardId \in Boards
  /\ x.columnId \in Columns
  /\ x.version \in Nat

\* A request names a task or a column as its route does; the id of a new task
\* is in no other row, and no other request creates it.
WellFormed(w) ==
  /\ \A r \in Reqs :
       /\ w[r].kind # "removeColumn" => w[r].task # None
       /\ w[r].kind \notin {"update", "remove"} => w[r].column # None
       /\ w[r].kind = "create" => InitialTable[w[r].task] = NoRow
  /\ \A r, q \in Reqs :
       w[r].kind = "create" /\ w[q].kind = "create" /\ w[r].task = w[q].task => r = q

ASSUME IdAssumption == IsFiniteSet(TaskIds) /\ TaskIds \subseteq Nat /\ None \notin TaskIds
ASSUME BoardAssumption == BoardOf \in [Columns -> Boards]
ASSUME AheadAssumption == MaxAhead \in Nat
ASSUME WorkloadAssumption ==
  Workloads \subseteq {w \in [Reqs -> Bodies] : WellFormed(w)}
ASSUME TableAssumption ==
  /\ DOMAIN InitialTable = TaskIds
  /\ InitialTable = [t \in TaskIds |-> InitialTable[t]]
  /\ \A t \in TaskIds :
       InitialTable[t] # NoRow => /\ IsRow(InitialTable[t])
                                  /\ InitialTable[t].rank \in StoredRanks
                                  /\ BoardOf[InitialTable[t].columnId] = InitialTable[t].boardId

VARIABLES
  table,      \* the committed row of each task id
  columns,    \* the columns that exist
  body,       \* what each request asks for
  expected,   \* the expectedVersion of each move
  board,      \* req.boardId, as BoardAccessGuard resolved it
  pc,         \* where each handler stands
  retried,    \* whether a move is in its second attempt
  newRank,    \* the rank computed for the task of a create or a move
  todo,       \* the rank updates a re-spacing transaction still has to make
  held,       \* the uncommitted row a transaction has written for each task id
  stale,      \* tasks and columns changed by others since a move's snapshot
  rivals,     \* the columns read and written by moves committed since then
  reply,      \* the answer of each request
  wire        \* the events broadcast to the board's room, in order

vars == <<table, columns, body, expected, board, pc, retried, newRank, todo,
          held, stale, rivals, reply, wire>>
-----------------------------------------------------------------------------
Kind(r) == body[r].kind
Task(r) == body[r].task
Target(r) == body[r].column

NoReply == [status |-> "none", row |-> NoRow]
Nothing == [t \in TaskIds |-> Untouched]

Init ==
  /\ table = InitialTable
  /\ columns = Columns
  /\ body \in Workloads
  /\ expected = [r \in Reqs |-> 0]
  /\ board = [r \in Reqs |-> None]
  /\ pc = [r \in Reqs |-> "sent"]
  /\ retried = [r \in Reqs |-> FALSE]
  /\ newRank = [r \in Reqs |-> First]
  /\ todo = [r \in Reqs |-> <<>>]
  /\ held = [r \in Reqs |-> Nothing]
  /\ stale = [r \in Reqs |-> {}]
  /\ rivals = [r \in Reqs |-> {}]
  /\ reply = [r \in Reqs |-> NoReply]
  /\ wire = <<>>
-----------------------------------------------------------------------------
(* Rows as a query returns them. *)

InColumn(rows, c) == {t \in TaskIds : rows[t] # NoRow /\ rows[t].columnId = c}

OrderedRows(rows, ids) == Ordered(RankedRows(ids, [t \in ids |-> rows[t].rank]))

\* Whether another transaction holds the lock of a row.
LockedByOther(r, t) == \E q \in Reqs \ {r} : held[q][t] # Untouched

\* A transaction sees its own uncommitted rows over the committed ones.
Seen(r) == [t \in TaskIds |-> IF held[r][t] = Untouched THEN table[t] ELSE held[r][t]]

InTransaction(r) == pc[r] \in {"placing", "respacing"}
Moving(r) == InTransaction(r) /\ Kind(r) = "move"

\* Every other move in flight learns which rows r's commit has changed.
MarkStale(r, changed) ==
  stale' = [q \in Reqs |-> IF q # r /\ Moving(q) THEN stale[q] \cup changed ELSE {}]

\* A transaction starts with no writes; one that fails leaves none behind.
Clear(r) ==
  /\ held' = [held EXCEPT ![r] = Nothing]
  /\ stale' = [stale EXCEPT ![r] = {}]
  /\ rivals' = [rivals EXCEPT ![r] = {}]

Plan(r, rank, updates) ==
  /\ newRank' = [newRank EXCEPT ![r] = rank]
  /\ todo' = [todo EXCEPT ![r] = updates]

Discard(r) == Clear(r) /\ Plan(r, First, <<>>)

Goto(r, stage) == pc' = [pc EXCEPT ![r] = stage]

Reply(r, status, row) ==
  /\ reply' = [reply EXCEPT ![r] = [status |-> status, row |-> row]]
  /\ Goto(r, "done")

store == <<table, columns>>
request == <<body, expected, board>>
transaction == <<newRank, todo, held, stale, rivals>>
-----------------------------------------------------------------------------
(* The guard, common to every route: 403 when the named task or column does *)
(* not exist.  A move's expectedVersion is what its client last saw, and    *)
(* one more for each of its own moves that has not been answered yet.       *)
Authorize(r) ==
  /\ pc[r] = "sent"
  /\ LET byColumn == Kind(r) \in {"create", "removeColumn"}
         found    == IF byColumn THEN Target(r) \in columns ELSE table[Task(r)] # NoRow
         versions == IF Kind(r) = "move" THEN 0 .. (table[Task(r)].version + MaxAhead) ELSE {0}
     IN  \/ /\ found
            /\ board' = [board EXCEPT ![r] = IF byColumn THEN BoardOf[Target(r)]
                                             ELSE table[Task(r)].boardId]
            /\ \E v \in versions : expected' = [expected EXCEPT ![r] = v]
            /\ Goto(r, "accepted")
            /\ UNCHANGED reply
         \/ /\ ~found
            /\ Reply(r, "forbidden", NoRow)
            /\ UNCHANGED <<expected, board>>
  /\ UNCHANGED <<store, body, retried, transaction, wire>>

\* Mutation: the target column only has to exist.
IsColumn(r) == Target(r) \in columns

TargetOnBoard(r) == Target(r) \in columns /\ BoardOf[Target(r)] = board[r]

\* move: the target column must be on the task's board, checked before any
\* transaction starts.
CheckTarget(r) ==
  /\ pc[r] = "accepted"
  /\ Kind(r) = "move"
  /\ \/ TargetOnBoard(r) /\ Goto(r, "begin") /\ UNCHANGED reply
     \/ ~TargetOnBoard(r) /\ Reply(r, "badTarget", NoRow)
  /\ UNCHANGED <<store, request, retried, transaction, wire>>
-----------------------------------------------------------------------------
(* attemptMove.  Its snapshot is taken by the first query, so what the rest *)
(* of it reads, and whether the conditional update matches, is decided here. *)

Others(r) == OrderedRows(table, InColumn(table, Target(r)) \ {Task(r)})

Place(r) ==
  ResolveNeighborBounds(Others(r), body[r].before, body[r].after, body[r].position)

HasRoom(p) == Less(p.lower, p.upper)

\* One update per row, when the rank just written is too long.
Respacing(rank, ids) == IF Len(rank) <= Threshold THEN <<>> ELSE Spaced(ids)

\* Mutation: the update is not conditional on the version.
RowExists(r) == table[Task(r)] # NoRow

VersionMatches(r) == table[Task(r)] # NoRow /\ table[Task(r)].version = expected[r]

\* between() throws: its bounds are equal or the wrong way round.
AttemptThrows(r, p) ==
  /\ ~HasRoom(p)
  /\ Reply(r, "error", NoRow)
  /\ UNCHANGED <<store, request, retried, transaction, wire>>

\* No row matched: 409 with the current row, or an error when it is gone.
AttemptConflicts(r, p) ==
  /\ HasRoom(p)
  /\ ~VersionMatches(r)
  /\ Reply(r, IF table[Task(r)] = NoRow THEN "error" ELSE "conflict", table[Task(r)])
  /\ UNCHANGED <<store, request, retried, transaction, wire>>

\* Mutation: the re-spaced column has the moved row in front.
AttemptWritesInFront(r, p) ==
  /\ HasRoom(p)
  /\ VersionMatches(r)
  /\ \E rank \in {Between(p.lower, p.upper)} :
       Plan(r, rank, Respacing(rank, SX!InsertAt(IdsOf(Others(r)), 1, Task(r))))
  /\ Clear(r)
  /\ Goto(r, "placing")
  /\ UNCHANGED <<store, request, retried, reply, wire>>

\* The row matches: the moved row gets a rank between its new neighbours and,
\* when that is too long, the whole column is re-spaced with it spliced in.
AttemptWrites(r, p) ==
  /\ HasRoom(p)
  /\ VersionMatches(r)
  /\ \E rank \in {Between(p.lower, p.upper)} :
       Plan(r, rank, Respacing(rank, SX!InsertAt(IdsOf(Others(r)), p.index + 1, Task(r))))
  /\ Clear(r)
  /\ Goto(r, "placing")
  /\ UNCHANGED <<store, request, retried, reply, wire>>

AttemptMove(r) ==
  /\ pc[r] = "begin"
  /\ Kind(r) = "move"
  /\ \E p \in {Place(r)} :
       AttemptThrows(r, p) \/ AttemptConflicts(r, p) \/ AttemptWrites(r, p)

\* Mutation: the move is announced inside its transaction.
PlaceTaskAndAnnounce(r) ==
  /\ pc[r] = "placing"
  /\ Kind(r) = "move"
  /\ ~LockedByOther(r, Task(r))
  /\ Task(r) \notin stale[r]
  /\ Target(r) \in columns
  /\ held' = [held EXCEPT ![r][Task(r)] =
                [table[Task(r)] EXCEPT !.rank = newRank[r], !.columnId = Target(r),
                                       !.version = @ + 1]]
  /\ wire' = Append(wire, [event |-> "move", id |-> Task(r), row |-> held'[r][Task(r)]])
  /\ Goto(r, "respacing")
  /\ UNCHANGED <<store, request, retried, newRank, todo, stale, rivals, reply>>

\* updateMany: the row's lock is free and nobody has changed the row, or
\* removed the target column, since the snapshot.
PlaceTask(r) ==
  /\ pc[r] = "placing"
  /\ Kind(r) = "move"
  /\ ~LockedByOther(r, Task(r))
  /\ Task(r) \notin stale[r]
  /\ Target(r) \in columns
  /\ held' = [held EXCEPT ![r][Task(r)] =
                [table[Task(r)] EXCEPT !.rank = newRank[r], !.columnId = Target(r),
                                       !.version = @ + 1]]
  /\ Goto(r, "respacing")
  /\ UNCHANGED <<store, request, retried, newRank, todo, stale, rivals, reply, wire>>

\* The foreign key fails: the column was removed before the snapshot.
PlaceTaskFails(r) ==
  /\ pc[r] = "placing"
  /\ Kind(r) = "move"
  /\ Target(r) \notin columns \cup stale[r]
  /\ Discard(r)
  /\ Reply(r, "error", NoRow)
  /\ UNCHANGED <<store, request, retried, wire>>
-----------------------------------------------------------------------------
(* create. *)

\* The rank after the last one, which is never as high as the sentinel.
CreateReads(r) ==
  /\ pc[r] = "accepted"
  /\ Kind(r) = "create"
  /\ LET rows == OrderedRows(table, InColumn(table, Target(r)))
     IN  Plan(r, Between(RankAt(rows, Len(rows), First), Last), <<>>)
  /\ Goto(r, "placing")
  /\ UNCHANGED <<store, request, retried, held, stale, rivals, reply, wire>>

\* The insert and, when the rank is too long, the read of the column after it.
InsertTask(r) ==
  /\ pc[r] = "placing"
  /\ Kind(r) = "create"
  /\ Target(r) \in columns
  /\ held' = [held EXCEPT ![r][Task(r)] =
                [boardId |-> board[r], columnId |-> Target(r),
                 rank |-> newRank[r], version |-> 0]]
  /\ LET rows == [table EXCEPT ![Task(r)] = held'[r][Task(r)]]
     IN  todo' = [todo EXCEPT ![r] =
                    Respacing(newRank[r], IdsOf(OrderedRows(rows, InColumn(rows, Target(r)))))]
  /\ Goto(r, "respacing")
  /\ UNCHANGED <<store, request, retried, newRank, stale, rivals, reply, wire>>

\* The foreign key fails: the column has been removed.
InsertTaskFails(r) ==
  /\ pc[r] = "placing"
  /\ Kind(r) = "create"
  /\ Target(r) \notin columns
  /\ Discard(r)
  /\ Reply(r, "error", NoRow)
  /\ UNCHANGED <<store, request, retried, wire>>
-----------------------------------------------------------------------------
(* The rest of a transaction, of a move or a create. *)

\* Mutation: the update creates the row when it has been deleted.
RespaceDeletedRow(r) ==
  /\ pc[r] = "respacing"
  /\ todo[r] # <<>>
  /\ LET w == Head(todo[r])
     IN  /\ ~LockedByOther(r, w.id)
         /\ w.id \notin stale[r]
         /\ held' = [held EXCEPT ![r][w.id] = [version |-> Seen(r)[w.id].version, rank |-> w.rank]]
  /\ todo' = [todo EXCEPT ![r] = Tail(@)]
  /\ UNCHANGED <<store, request, pc, retried, newRank, stale, rivals, reply, wire>>

\* Mutation: the update bumps the version, as the moved row's does.
RespaceRowAsMove(r) ==
  /\ pc[r] = "respacing"
  /\ todo[r] # <<>>
  /\ LET w == Head(todo[r])
     IN  /\ ~LockedByOther(r, w.id)
         /\ w.id \notin stale[r]
         /\ Seen(r)[w.id] # NoRow
         /\ held' = [held EXCEPT ![r][w.id] =
                       [Seen(r)[w.id] EXCEPT !.rank = w.rank, !.version = @ + 1]]
  /\ todo' = [todo EXCEPT ![r] = Tail(@)]
  /\ UNCHANGED <<store, request, pc, retried, newRank, stale, rivals, reply, wire>>

\* One `update by id' of a re-spacing, which sets the rank and nothing else.
RespaceRow(r) ==
  /\ pc[r] = "respacing"
  /\ todo[r] # <<>>
  /\ LET w == Head(todo[r])
     IN  /\ ~LockedByOther(r, w.id)
         /\ w.id \notin stale[r]
         /\ Seen(r)[w.id] # NoRow
         /\ held' = [held EXCEPT ![r][w.id] = [Seen(r)[w.id] EXCEPT !.rank = w.rank]]
  /\ todo' = [todo EXCEPT ![r] = Tail(@)]
  /\ UNCHANGED <<store, request, pc, retried, newRank, stale, rivals, reply, wire>>

\* A create finds that a row it meant to update has been deleted.
RespaceRowFails(r) ==
  /\ pc[r] = "respacing"
  /\ Kind(r) = "create"
  /\ todo[r] # <<>>
  /\ Seen(r)[Head(todo[r]).id] = NoRow
  /\ Discard(r)
  /\ Reply(r, "error", NoRow)
  /\ UNCHANGED <<store, request, retried, wire>>

\* The columns whose contents a move changes.
ColumnsWritten(r) == {Target(r), table[Task(r)].columnId}

\* Mutation: the transaction runs at READ COMMITTED.
NeverSkewed(r) == FALSE

\* r and a move committed since its snapshot each changed what the other read.
Skewed(r) ==
  \E v \in rivals[r] : v.reads \in ColumnsWritten(r) /\ Target(r) \in v.writes

Commit(r) ==
  /\ pc[r] = "respacing"
  /\ todo[r] = <<>>
  /\ ~Skewed(r)
  /\ table' = Seen(r)
  /\ MarkStale(r, {t \in TaskIds : held[r][t] # Untouched})
  /\ rivals' = [q \in Reqs |->
                  IF q = r THEN {}
                  ELSE IF Moving(r) /\ Moving(q)
                  THEN rivals[q] \cup {[reads |-> Target(r), writes |-> ColumnsWritten(r)]}
                  ELSE rivals[q]]
  /\ held' = [held EXCEPT ![r] = Nothing]
  /\ Plan(r, First, <<>>)
  /\ reply' = [reply EXCEPT ![r] = [status |-> "ok", row |-> held[r][Task(r)]]]
  /\ Goto(r, "committed")
  /\ UNCHANGED <<columns, request, retried, wire>>

\* The row whose lock a transaction needs next, and who makes it wait.
Needs(r) == IF pc[r] = "placing" THEN IF Kind(r) = "move" THEN {Task(r)} ELSE {}
            ELSE IF pc[r] = "respacing" /\ todo[r] # <<>> THEN {Head(todo[r]).id} ELSE {}

WaitsFor(r, q) == q # r /\ \E t \in Needs(r) : held[q][t] # Untouched

\* PostgreSQL looks for a cycle of waiting transactions and fails one of them.
InDeadlock(r) ==
  \E S \in SUBSET Reqs :
    /\ r \in S
    /\ \A q \in S : \E p \in S : WaitsFor(q, p)
    /\ \A q \in S : \E p \in S : WaitsFor(p, q)

\* PostgreSQL has a reason to fail this move with P2034: a row it needs changed
\* since its snapshot, a deadlock, or a SERIALIZABLE transaction beside it, which
\* it may hold against either of them.
MayFail(r) ==
  \/ (Needs(r) \cup {Target(r)}) \cap stale[r] # {}
  \/ InDeadlock(r)
  \/ rivals[r] # {}
  \/ \E q \in Reqs \ {r} : Moving(q)

\* Mutation: the retry is not counted.
RetryForever(r) == Goto(r, "begin") /\ UNCHANGED retried

\* One retry against fresh state, then give up.
Retry(r) ==
  /\ retried' = [retried EXCEPT ![r] = TRUE]
  /\ Goto(r, IF retried[r] THEN "givingUp" ELSE "begin")

SerializationFailure(r) ==
  /\ Moving(r)
  /\ MayFail(r)
  /\ Discard(r)
  /\ Retry(r)
  /\ UNCHANGED <<store, request, reply, wire>>

\* The second failure: 409 with the row as it is now.
GiveUp(r) ==
  /\ pc[r] = "givingUp"
  /\ Reply(r, IF table[Task(r)] = NoRow THEN "error" ELSE "conflict", table[Task(r)])
  /\ UNCHANGED <<store, request, retried, transaction, wire>>

\* A create that is a deadlock's victim is not retried.
CreateVictim(r) ==
  /\ InTransaction(r)
  /\ Kind(r) = "create"
  /\ InDeadlock(r)
  /\ Discard(r)
  /\ Reply(r, "error", NoRow)
  /\ UNCHANGED <<store, request, retried, wire>>
-----------------------------------------------------------------------------
(* update, remove and ColumnsService.remove: one statement each, which waits *)
(* for the locks it needs.                                                   *)

Statement(r, kind) ==
  /\ pc[r] = "accepted"
  /\ Kind(r) = kind
  /\ UNCHANGED <<request, retried, newRank, todo, held, rivals, wire>>

\* Title and description only: the position and the version stay as they are.
UpdateTask(r) ==
  /\ Statement(r, "update")
  /\ table[Task(r)] # NoRow
  /\ ~LockedByOther(r, Task(r))
  /\ MarkStale(r, {Task(r)})
  /\ reply' = [reply EXCEPT ![r] = [status |-> "ok", row |-> table[Task(r)]]]
  /\ Goto(r, "committed")
  /\ UNCHANGED store

RemoveTask(r) ==
  /\ Statement(r, "remove")
  /\ table[Task(r)] # NoRow
  /\ ~LockedByOther(r, Task(r))
  /\ table' = [table EXCEPT ![Task(r)] = NoRow]
  /\ MarkStale(r, {Task(r)})
  /\ reply' = [reply EXCEPT ![r] = [status |-> "ok", row |-> table[Task(r)]]]
  /\ Goto(r, "committed")
  /\ UNCHANGED columns

\* The tasks go with the column (onDelete: Cascade).  A transaction that has put
\* a row into the column keeps it from being removed.
RemoveColumn(r) ==
  /\ Statement(r, "removeColumn")
  /\ Target(r) \in columns
  /\ \A q \in Reqs \ {r}, t \in TaskIds :
       held[q][t] # Untouched =>
         /\ held[q][t].columnId # Target(r)
         /\ t \notin InColumn(table, Target(r))
  /\ columns' = columns \ {Target(r)}
  /\ table' = [t \in TaskIds |-> IF t \in InColumn(table, Target(r)) THEN NoRow ELSE table[t]]
  /\ MarkStale(r, {Target(r)} \cup InColumn(table, Target(r)))
  /\ reply' = [reply EXCEPT ![r] = [status |-> "ok", row |-> NoRow]]
  /\ Goto(r, "committed")

\* What the statement names has been deleted since the guard looked it up.
StatementFails(r) ==
  /\ \/ Statement(r, "update") /\ table[Task(r)] = NoRow
     \/ Statement(r, "remove") /\ table[Task(r)] = NoRow
     \/ Statement(r, "removeColumn") /\ Target(r) \notin columns
  /\ Reply(r, "error", NoRow)
  /\ UNCHANGED <<store, stale>>

\* gateway.emit, after the commit; the answer is sent with it.
Broadcast(r) ==
  /\ pc[r] = "committed"
  /\ wire' = Append(wire, [event |-> Kind(r), id |-> Task(r), row |-> reply[r].row])
  /\ Goto(r, "done")
  /\ UNCHANGED <<store, request, retried, transaction, reply>>
-----------------------------------------------------------------------------
Handle(r) ==
  \/ CheckTarget(r)
  \/ AttemptMove(r)
  \/ PlaceTask(r) \/ PlaceTaskFails(r)
  \/ CreateReads(r) \/ InsertTask(r) \/ InsertTaskFails(r)
  \/ RespaceRow(r) \/ RespaceRowFails(r) \/ Commit(r)
  \/ SerializationFailure(r) \/ GiveUp(r) \/ CreateVictim(r)
  \/ UpdateTask(r) \/ RemoveTask(r) \/ RemoveColumn(r) \/ StatementFails(r)
  \/ Broadcast(r)

\* Every request has been answered.
Idle == (\A r \in Reqs : pc[r] = "done") /\ UNCHANGED vars

Next == (\E r \in Reqs : Authorize(r) \/ Handle(r)) \/ Idle

\* A handler waits for nothing but a row's lock, until its holder commits or a
\* deadlock is found; the client alone decides when to send.
Waiting(r) ==
  \/ \E q \in Reqs : WaitsFor(r, q)
  \/ pc[r] = "accepted" /\ Kind(r) \in {"update", "remove"} /\ LockedByOther(r, Task(r))
  \/ pc[r] = "accepted" /\ Kind(r) = "removeColumn" /\ \E q \in Reqs : InTransaction(q)

Ready(r) == pc[r] \notin {"sent", "done"} /\ (Waiting(r) => InDeadlock(r))

\* The event loop and the database run every handler that is ready: weak fairness
\* of Handle(r), with what enables it written out.
Fairness ==
  \A r \in Reqs : []<>~Ready(r) \/ []<><<Handle(r)>>_vars

Spec == Init /\ [][Next]_vars /\ Fairness
-----------------------------------------------------------------------------
Statuses == {"none", "ok", "forbidden", "badTarget", "conflict", "error"}
Stages == {"sent", "accepted", "begin", "placing", "respacing", "givingUp",
           "committed", "done"}

TypeOK ==
  /\ DOMAIN table = TaskIds
  /\ \A t \in TaskIds : table[t] = NoRow \/ IsRow(table[t])
  /\ columns \subseteq Columns
  /\ body \in Workloads
  /\ expected \in [Reqs -> Nat]
  /\ board \in [Reqs -> Boards \cup {None}]
  /\ pc \in [Reqs -> Stages]
  /\ \A r \in Reqs : InTransaction(r) => Kind(r) \in {"move", "create"}
  /\ retried \in [Reqs -> BOOLEAN]
  /\ DOMAIN held = Reqs
  /\ \A r \in Reqs : /\ DOMAIN held[r] = TaskIds
                     /\ \A t \in TaskIds : held[r][t] = Untouched \/ IsRow(held[r][t])
  /\ stale \in [Reqs -> SUBSET (TaskIds \cup Columns)]
  /\ DOMAIN reply = Reqs
  /\ \A r \in Reqs : reply[r].status \in Statuses

\* A move whose transaction has committed.
Won(r) == Kind(r) = "move" /\ pc[r] \in {"committed", "done"} /\ reply[r].status = "ok"

\* Of the moves of a task that carry the same expectedVersion, one at most is
\* accepted: the others are the stale drags that must not overwrite it
\* (tasks.service.ts 195-212).
OneWinnerPerVersion ==
  \A r, q \in Reqs :
    Won(r) /\ Won(q) /\ Task(r) = Task(q) /\ expected[r] = expected[q] => r = q

\* The version of a task counts the accepted moves: none is lost or undone, by
\* another move's re-spacing or a create's, and nothing else bumps it.
VersionCountsMoves ==
  \A t \in TaskIds :
    table[t] # NoRow =>
      table[t].version =
        (IF InitialTable[t] = NoRow THEN 0 ELSE InitialTable[t].version)
          + Cardinality({r \in Reqs : Won(r) /\ Task(r) = t})

\* A task is on the board of its column, though a move writes columnId alone: the
\* check before the transaction still holds when the transaction commits
\* (tasks.service.ts 123-129).
TaskStaysOnBoard ==
  \A t \in TaskIds :
    table[t] # NoRow =>
      /\ table[t].columnId \in columns
      /\ BoardOf[table[t].columnId] = table[t].boardId

\* A moved task is announced at a version the database has reached, once, also
\* when the transaction fails and is tried again (tasks.service.ts 156-161).
AnnouncedOnceCommitted ==
  \A i \in 1 .. Len(wire) :
    wire[i].event = "move" =>
      /\ table[wire[i].id] # NoRow => wire[i].row.version <= table[wire[i].id].version
      /\ \A j \in 1 .. Len(wire) :
           wire[j].event = "move" /\ wire[j].id = wire[i].id
             /\ wire[j].row.version = wire[i].row.version => i = j

(* What makes these invariants inductive. *)

InProgress(r) == pc[r] \notin {"sent", "done"}

\* A create whose row has not been committed.
Creating(r) == Kind(r) = "create" /\ pc[r] \in {"sent", "accepted", "placing", "respacing"}

\* Rows are written after the first update only, and by one transaction at a time.
LocksAreExclusive ==
  \A r \in Reqs, t \in TaskIds :
    held[r][t] # Untouched => pc[r] = "respacing" /\ ~LockedByOther(r, t)

\* The id of a row to be created is unknown to every move.
CreatesAreNew ==
  \A r \in Reqs :
    Creating(r) =>
      /\ table[Task(r)] = NoRow
      /\ \A q \in Reqs \ {r} :
           /\ held[q][Task(r)] = Untouched
           /\ Kind(q) = "move" /\ Task(q) = Task(r) =>
                pc[q] = "sent" \/ (pc[q] = "done" /\ reply[q].status = "forbidden")

\* The version a move has matched stays the committed one until it commits: what
\* changes the row is in `stale', and nothing does once the row is locked.
MatchedVersionsHold ==
  \A r \in Reqs :
    Moving(r) /\ (pc[r] = "respacing" \/ Task(r) \notin stale[r]) => VersionMatches(r)

PlacedVersions ==
  \A r \in Reqs :
    Moving(r) /\ pc[r] = "respacing" =>
      held[r][Task(r)] # Untouched /\ held[r][Task(r)].version = expected[r] + 1

\* A re-spacing keeps the versions of the rows it re-ranks.
RespacedVersions ==
  \A r \in Reqs, t \in TaskIds :
    held[r][t] # Untouched /\ t # Task(r) =>
      table[t] # NoRow /\ held[r][t].version = table[t].version

\* An accepted move has left its expectedVersion behind.
WinnersAreBehind ==
  \A r \in Reqs :
    Won(r) /\ table[Task(r)] # NoRow => expected[r] < table[Task(r)].version

\* What the guard resolved, and the check of the target column, stay true.
BoardsStayResolved ==
  \A r \in Reqs :
    InProgress(r) =>
      /\ board[r] \in Boards
      /\ Kind(r) = "create" => BoardOf[Target(r)] = board[r]
      /\ Kind(r) = "move" =>
           /\ table[Task(r)] # NoRow => table[Task(r)].boardId = board[r]
           /\ pc[r] # "accepted" => BoardOf[Target(r)] = board[r]

HeldOnBoard ==
  \A r \in Reqs, t \in TaskIds :
    held[r][t] # Untouched =>
      /\ held[r][t].columnId \in columns
      /\ BoardOf[held[r][t].columnId] = held[r][t].boardId
      /\ table[t] # NoRow => held[r][t].boardId = table[t].boardId

\* The inductive invariant behind the theorems of TaskMove_proofs: the version a move
\* has matched holds until it commits (tasks.service.ts 195-204), and with it what the
\* guard and the check of the target column found out before the transaction.
IInv ==
  /\ TypeOK
  /\ LocksAreExclusive
  /\ CreatesAreNew
  /\ MatchedVersionsHold
  /\ PlacedVersions
  /\ RespacedVersions
  /\ WinnersAreBehind
  /\ OneWinnerPerVersion
  /\ BoardsStayResolved
  /\ HeldOnBoard
  /\ TaskStaysOnBoard
-----------------------------------------------------------------------------
(* The order of a column after a move has committed.  A create's READ       *)
(* COMMITTED transaction, which may be under way beside the move and which  *)
(* SERIALIZABLE does not guard against, voids both properties.              *)

OnlyMovesAdd ==
  \A r \in Reqs : Kind(r) = "create" => pc[r] \notin {"committed", "done"}

\* The bounds of a move are next to each other in its column.
Adjacent(r) ==
  \A i \in 1 .. Len(Others(r)) :
    ~(Less(Place(r).lower, Others(r)[i].rank) /\ Less(Others(r)[i].rank, Place(r).upper))

RankTaken(r) ==
  \E t \in InColumn(table, Target(r)) \ {Task(r)} : table[t].rank = table[Task(r)].rank

\* SERIALIZABLE refuses the second of two midpoints of one neighbour pair
\* (tasks.service.ts 173-174): a move between neighbours commits with a rank that
\* no other task of the column has.
MidpointIsOwn ==
  [][\A r \in Reqs :
       OnlyMovesAdd /\ ~Won(r) /\ Won(r)' /\ Adjacent(r) => ~RankTaken(r)']_vars

\* A committed move stands after the `before' task and before the `after' task of
\* its request, wherever these have been moved or re-spaced since it read them, as
\* long as they are in the column.
LandsBetween(r) ==
  LET row == table'[Task(r)]
      InTarget(t) == t # None /\ t # Task(r) /\ table'[t] # NoRow
                       /\ table'[t].columnId = Target(r)
  IN  /\ InTarget(body[r].before) => Less(table'[body[r].before].rank, row.rank)
      /\ InTarget(body[r].after) => Less(row.rank, table'[body[r].after].rank)

MovesLandBetweenNeighbours ==
  [][\A r \in Reqs : OnlyMovesAdd /\ ~Won(r) /\ Won(r)' => LandsBetween(r)]_vars

\* Every request the server accepts is answered, through lock waits, deadlocks,
\* serialization failures and the one retry.
EveryRequestAnswered == \A r \in Reqs : pc[r] = "accepted" ~> pc[r] = "done"

(* The abstract specification, and how a state of this module maps to it. *)

\* A row without its rank.
Cell(row) ==
  IF row = NoRow THEN NoRow
  ELSE [boardId |-> row.boardId, columnId |-> row.columnId, version |-> row.version]

Outcome(r) ==
  IF pc[r] = "sent" THEN "unsent"
  ELSE IF reply[r].status = "none" THEN "pending"
  ELSE IF reply[r].status = "ok" THEN "applied" ELSE "refused"

Register ==
  INSTANCE TaskRegister WITH
    cell <- [t \in TaskIds |-> Cell(table[t])],
    open <- columns,
    outcome <- [r \in Reqs |-> Outcome(r)],
    InitialCells <- [t \in TaskIds |-> Cell(InitialTable[t])],
    Bodies <- Workloads

(* What the mapping needs beside IInv. *)

AnswersFit ==
  \A r \in Reqs :
    /\ reply[r].status = "none" <=> pc[r] \notin {"committed", "done"}
    /\ pc[r] = "committed" => reply[r].status = "ok"

\* The row a transaction is about is written as its request says, any other one with
\* a new rank only.
HeldCells ==
  \A r \in Reqs, t \in TaskIds :
    held[r][t] # Untouched =>
      IF t = Task(r)
      THEN held[r][t].columnId = Target(r) /\ (Kind(r) = "create" => held[r][t].version = 0)
      ELSE held[r][t].columnId = table[t].columnId /\ held[r][t].boardId = table[t].boardId

CreatesInsert ==
  \A r \in Reqs :
    Kind(r) = "create" /\ pc[r] = "respacing" => held[r][Task(r)] # Untouched

RInv == AnswersFit /\ HeldCells /\ CreatesInsert

\* With all its statements, locks, failures and retries, the service is a set of
\* registers that moves compare and set: each accepted request takes effect at its
\* commit, each refused one not at all, and re-spacings change no register
\* (tasks.service.ts 112-238).
ImplementsRegister == Register!Spec

\* PLAN_EN.md 266: if two ranks ever did collide, nothing user-visible breaks.
CollisionIsHarmless ==
  [][\A r \in Reqs :
       pc[r] = "begin" /\ Place(r).lower = Place(r).upper => reply'[r].status # "error"]_vars

\* tasks.service.ts 171: two concurrent moves can never deadlock each other.
MovesNeverDeadlock == \A r \in Reqs : Kind(r) = "move" => ~InDeadlock(r)
=============================================================================
