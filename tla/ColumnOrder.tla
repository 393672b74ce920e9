----------------------------- MODULE ColumnOrder -----------------------------
(***************************************************************************)
(* The columns of one board and the requests of ColumnsService             *)
(* (columns/columns.service.ts) that write them, interleaved at every      *)
(* await.                                                                  *)
(*                                                                         *)
(* create and move run in READ COMMITTED transactions, with no version and *)
(* no retry; rename and remove are single statements.  PostgreSQL is       *)
(* external: a row that a transaction has written is locked, and shows the *)
(* others its old rank, until the commit; a deadlock has a victim.         *)
(***************************************************************************)
EXTENDS Rank, FiniteSets

SX == INSTANCE SequencesExt

CONSTANTS ColumnIds,   \* numbers, so that columns of equal rank are ordered by id
          Reqs,        \* HTTP requests, each handled once
          Untouched,   \* a row that a transaction has not written
          Gone         \* a row that does not exist

ASSUME ColumnAssumption == IsFiniteSet(ColumnIds) /\ ColumnIds \subseteq Nat
ASSUME RowAssumption == Gone \notin Ranks /\ Untouched \notin Ranks

VARIABLES
  cols,      \* the committed rank of each column
  ask,       \* what each request asks for
  pc,        \* where its handler stands
  todo,      \* the writes its transaction still has to make
  held,      \* those it has made
  result,    \* the rank it returns and announces
  wire,      \* the events on their way to the board's room
  gap,       \* ghost: the interval whose ranks each request writes
  fresh,     \* ghost: those whose interval nobody else has entered since they read it
  muddled    \* ghost: whether one has committed that was not

server == <<cols, ask, pc, todo, held, result, wire, gap, fresh, muddled>>
-----------------------------------------------------------------------------
Present(rows) == {i \in ColumnIds : rows[i] # Gone}
Listed(rows, ids) == Ordered(RankedRows(ids, rows))
OrderOf(rows) == IdsOf(Listed(rows, Present(rows)))

LockedByOther(r, i) == \E q \in Reqs \ {r} : held[q][i] # Untouched

\* A transaction sees its own rows over the committed ones.
Seen(r) == [i \in ColumnIds |-> IF held[r][i] = Untouched THEN cols[i] ELSE held[r][i]]

Nothing == [i \in ColumnIds |-> Untouched]

Everywhere == [lower |-> First, upper |-> Last]

Within(rank, g) == Less(g.lower, rank) /\ Less(rank, g.upper)

\* A request enters the interval of another one when it puts a column there, one that the
\* other does not write itself.
LeavesAlone(q, i) == held[q][i] = Untouched /\ \A n \in 1 .. Len(todo[q]) : todo[q][n].id # i

Entered(q, rows) ==
  \E i \in Present(rows) : LeavesAlone(q, i) /\ rows[i] # cols[i] /\ Within(rows[i], gap[q])

Fail(r) ==
  /\ pc' = [pc EXCEPT ![r] = "failed"]
  /\ todo' = [todo EXCEPT ![r] = <<>>]
  /\ held' = [held EXCEPT ![r] = Nothing]
  /\ fresh' = fresh \ {r}
  /\ gap' = [gap EXCEPT ![r] = Everywhere]
  /\ UNCHANGED <<cols, ask, result, wire, muddled>>

Begin(r, writes, interval, isFresh) ==
  /\ pc' = [pc EXCEPT ![r] = "writing"]
  /\ todo' = [todo EXCEPT ![r] = writes]
  /\ gap' = [gap EXCEPT ![r] = interval]
  /\ fresh' = IF isFresh THEN fresh \cup {r} ELSE fresh
  /\ UNCHANGED <<cols, ask, held, result, wire, muddled>>

\* Mutation: the moved column goes behind the two neighbours when the board is re-spaced.
MoveWritesBehind(r, others, bounds) ==
  LET rank == Between(bounds.lower, bounds.upper)
  IN  IF Len(rank) <= Threshold THEN <<[id |-> ask[r].column, rank |-> rank]>>
      ELSE Spaced(Append(IdsOf(others), ask[r].column))

\* One rank, or every column's when that one is too long.  The updates are issued together;
\* the transaction's connection runs them one after the other, in this order.
MoveWrites(r, others, bounds) ==
  LET rank == Between(bounds.lower, bounds.upper)
  IN  IF Len(rank) <= Threshold THEN <<[id |-> ask[r].column, rank |-> rank]>>
      ELSE Spaced(SX!InsertAt(IdsOf(others), bounds.index + 1, ask[r].column))

IntervalOf(bounds) ==
  IF Len(Between(bounds.lower, bounds.upper)) <= Threshold THEN bounds ELSE Everywhere

\* The neighbours of the request stand side by side, or at that end of the list, or it has
\* a position instead, or neither.
Adjacent(others, before, after) ==
  LET b == IndexOf(others, before)
      a == IndexOf(others, after)
  IN  before # None \/ after # None =>
        /\ before # None => b > 0
        /\ after # None => a > 0
        /\ (IF before = None THEN 0 ELSE b) + 1 = (IF after = None THEN Len(others) + 1 ELSE a)

ReadForMove(r) ==
  /\ pc[r] = "sent" /\ ask[r].kind = "move"
  /\ LET others == Listed(cols, Present(cols) \ {ask[r].column})
         bounds == ResolveNeighborBounds(others, ask[r].before, ask[r].after, ask[r].position)
     IN  IF Less(bounds.lower, bounds.upper)
         THEN Begin(r, MoveWrites(r, others, bounds), IntervalOf(bounds),
                    Adjacent(others, ask[r].before, ask[r].after))
         ELSE Fail(r)

\* Mutation: the columns are read in ascending order.
LowestRank == IF Present(cols) = {} THEN First
              ELSE Listed(cols, Present(cols))[1].rank

LastRank == IF Present(cols) = {} THEN First
            ELSE LET list == Listed(cols, Present(cols)) IN list[Len(list)].rank

ReadForCreate(r) ==
  /\ pc[r] = "sent" /\ ask[r].kind = "create"
  /\ Begin(r, <<[id |-> ask[r].column, rank |-> Between(LastRank, Last)]>>,
           [lower |-> LastRank, upper |-> Last], TRUE)

Inserts(r) == ask[r].kind = "create" /\ pc[r] = "writing"

\* The next UPDATE, or the INSERT; it waits for the lock of the row.
Write(r) ==
  /\ pc[r] \in {"writing", "respacing"} /\ todo[r] # <<>>
  /\ LET next == Head(todo[r])
     IN  /\ ~LockedByOther(r, next.id)
         /\ IF Seen(r)[next.id] = Gone /\ ~Inserts(r)
            THEN Fail(r)
            ELSE /\ held' = [held EXCEPT ![r][next.id] = next.rank]
                 /\ todo' = [todo EXCEPT ![r] = Tail(@)]
                 /\ UNCHANGED <<cols, ask, pc, result, wire, gap, fresh, muddled>>

TooLong(r) == Len(held[r][ask[r].column]) > Threshold

\* A created column whose rank is too long: the columns are read again and re-spaced.
Relist(r) ==
  /\ Inserts(r) /\ todo[r] = <<>> /\ TooLong(r)
  /\ pc' = [pc EXCEPT ![r] = "respacing"]
  /\ todo' = [todo EXCEPT ![r] = Spaced(OrderOf(Seen(r)))]
  /\ gap' = [gap EXCEPT ![r] = Everywhere]
  /\ fresh' = fresh \cup {r}
  /\ UNCHANGED <<cols, ask, held, result, wire, muddled>>

Committed(r, rows) ==
  /\ cols' = rows
  /\ pc' = [pc EXCEPT ![r] = "committed"]
  /\ gap' = [gap EXCEPT ![r] = Everywhere]
  /\ fresh' = {q \in fresh \ {r} : ~Entered(q, rows)}
  /\ UNCHANGED <<ask, todo, wire>>

Commit(r) ==
  /\ pc[r] \in {"writing", "respacing"} /\ todo[r] = <<>>
  /\ ~(Inserts(r) /\ TooLong(r))
  /\ Committed(r, Seen(r))
  /\ result' = [result EXCEPT ![r] = held[r][ask[r].column]]
  /\ held' = [held EXCEPT ![r] = Nothing]
  /\ muddled' = (muddled \/ r \notin fresh)

\* rename and remove.
Statement(r) ==
  /\ pc[r] = "sent" /\ ask[r].kind \in {"rename", "remove"}
  /\ ~LockedByOther(r, ask[r].column)
  /\ IF cols[ask[r].column] = Gone THEN Fail(r)
     ELSE /\ Committed(r, IF ask[r].kind = "rename" THEN cols
                          ELSE [cols EXCEPT ![ask[r].column] = Gone])
          /\ result' = [result EXCEPT ![r] = cols[ask[r].column]]
          /\ UNCHANGED <<held, muddled>>

\* After the commit: the event, then the answer.
Announce(r) ==
  /\ pc[r] = "committed"
  /\ pc' = [pc EXCEPT ![r] = "ok"]
  /\ wire' = Append(wire, [kind |-> ask[r].kind, column |-> ask[r].column, rank |-> result[r]])
  /\ UNCHANGED <<cols, ask, todo, held, result, gap, fresh, muddled>>

WaitsFor(r, q) == todo[r] # <<>> /\ q # r /\ held[q][Head(todo[r]).id] # Untouched

\* One of the transactions that wait for each other in a circle fails.
DeadlockVictim(r) ==
  /\ \E circle \in SUBSET Reqs :
       /\ r \in circle
       /\ \A q \in circle : /\ \E p \in circle : WaitsFor(q, p)
                           /\ \E p \in circle : WaitsFor(p, q)
  /\ Fail(r)

Handle(r) ==
  \/ ReadForMove(r) \/ ReadForCreate(r) \/ Relist(r) \/ Write(r) \/ Commit(r)
  \/ Statement(r) \/ Announce(r) \/ DeadlockVictim(r)
-----------------------------------------------------------------------------
Distinct(rows) == \A i, j \in Present(rows) : rows[i] = rows[j] => i = j

\* Two columns have one rank only after another request has put a column between the ranks
\* that one had read and was to write between, or one had been asked to put its column
\* between neighbours that had come apart: any other requests may overlap, re-spacings,
\* creations and removals included (columns.service.ts 98-140: no isolation level, no
\* version).
DistinctRanks ==
  ~muddled => Distinct(cols)
=============================================================================
