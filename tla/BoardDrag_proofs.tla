-------------------------- MODULE BoardDrag_proofs --------------------------
(***************************************************************************)
(* Proofs for any number of columns, cards and moves.                      *)
(*                                                                         *)
(* PreviewEnds: a preview that the pointer has let go of waits for a move  *)
(* of its hook that is still open, the latest one, whose answer resets it; *)
(* only an Undo takes the callback away.                                   *)
(*                                                                         *)
(* DistinctRanks: RInv adds what each open request still has to write.  A  *)
(* re-spacing gives the whole list ascending ranks, each on its own row; a *)
(* fresh request writes ranks of an interval in which no row of the list   *)
(* it read had one, and into which nobody has put a row since, so a row    *)
(* that another commit has changed lies outside.  The commit of a request  *)
(* that is not fresh counts as muddled.                                    *)
(*                                                                         *)
(* DroppedWhereShown: DInv says of a drop's request, while it is on its    *)
(* way, that it asks for the planned order, and of its transaction that    *)
(* what it still has to write turns the rows it sees into that order.      *)
(*                                                                         *)
(* DropsAreSent: TInv says that the preview of a drag is where the pointer *)
(* has taken it until an answer wipes it, and that the page's lists are    *)
(* lists, so that no preview is taken for null.                            *)
(***************************************************************************)
EXTENDS BoardDrag, Rank_proofs, FiniteSetTheorems

\* The column's preview waits for a request that is with the server.
ColumnAwaited ==
  columnOrder # None /\ grabbed \notin ColumnIds =>
    columnReset \in Own /\ pc[columnReset] \notin {"idle", "done"}

\* The card's preview waits for an open move, unless an Undo came between.
CardAwaited ==
  dragOrder # None /\ grabbed \notin Cards /\ ~undercut =>
    cardReset \in CardCalls /\ call[cardReset].stage = "open"

PInv ==
  /\ DOMAIN pc = Reqs /\ DOMAIN call = CardCalls
  /\ ColumnAwaited
  /\ CardAwaited

\* What the two conjuncts depend on.
waiting == <<pc, drag, grabbed, call, columnReset, cardReset, undercut>>

LEMMA InitPInv == Init => PInv
BY DEF Init, PInv, ColumnAwaited, CardAwaited

\* Without a change of what is waited for, nothing is to be shown.
LEMMA StillPInv == PInv /\ UNCHANGED waiting => PInv'
BY DEF PInv, ColumnAwaited, CardAwaited, waiting, drag

LEMMA PickUpColumnPInv ==
  ASSUME PInv, NEW i \in ColumnIds, PickUpColumn(i)
  PROVE  PInv'
BY IdAssumption DEF PInv, ColumnAwaited, CardAwaited, PickUpColumn, server, calls

LEMMA PickUpCardPInv ==
  ASSUME PInv, NEW k \in Cards, PickUpCard(k)
  PROVE  PInv'
BY IdAssumption DEF PInv, ColumnAwaited, CardAwaited, PickUpCard, server, calls

LEMMA DragOverPInv ==
  ASSUME PInv, NEW over, DragOver(over)
  PROVE  PInv'
BY IdAssumption DEF PInv, ColumnAwaited, CardAwaited, DragOver, server, calls

\* A drop without a move ends the preview; another hands it to the move it makes.
LEMMA DropColumnPInv ==
  ASSUME PInv, NEW over, DropColumn(over)
  PROVE  PInv'
<1> DEFINE final == MoveOnto(columnOrder, grabbed, over)
<1>1. grabbed \in ColumnIds /\ grabbed \notin Cards /\ grabbed' = None /\ undercut' = undercut
  BY IdAssumption DEF DropColumn, LetGo
<1>2. CASE Reset /\ UNCHANGED <<server, cache, calls, plan>>
  BY <1>2 DEF PInv, ColumnAwaited, CardAwaited, Reset, server, calls
<1>3. CASE /\ UNCHANGED <<dragOrder, start, columnStart>>
           /\ \E r \in Own : pc[r] = "idle" /\ MoveColumn(r, grabbed, final)
  <2>1. PICK r \in Own : pc' = [pc EXCEPT ![r] = "sent"] /\ columnReset' = r
    BY <1>3 DEF MoveColumn
  <2>2. UNCHANGED <<dragOrder, call, cardReset>>
    BY <1>3 DEF MoveColumn
  <2>3. DOMAIN pc' = Reqs /\ DOMAIN call' = CardCalls /\ pc'[r] = "sent"
    BY <2>1, <2>2, OwnAssumption DEF PInv
  <2> QED
    BY <1>1, <2>1, <2>2, <2>3 DEF PInv, ColumnAwaited, CardAwaited
<1> QED
  BY <1>2, <1>3 DEF DropColumn

LEMMA DropCardPInv ==
  ASSUME PInv, NEW over, DropCard(over)
  PROVE  PInv'
<1> DEFINE drop == Dropped(dragOrder, grabbed, over)
<1>1. grabbed \in Cards /\ grabbed \notin ColumnIds /\ grabbed' = None /\ undercut' = undercut
  BY IdAssumption DEF DropCard, LetGo
<1>2. CASE Reset /\ UNCHANGED <<server, cache, calls>>
  BY <1>2 DEF PInv, ColumnAwaited, CardAwaited, Reset, server, calls
<1>3. CASE /\ UNCHANGED <<start, columnOrder, columnStart>>
           /\ \E m \in CardCalls : /\ call[m].stage = "idle"
                                   /\ MoveTask(m, grabbed, drop.place, start)
                                   /\ cardReset' = m
  <2>1. PICK m \in CardCalls : MoveTask(m, grabbed, drop.place, start) /\ cardReset' = m
    BY <1>3
  <2>2. UNCHANGED <<columnOrder, pc, columnReset>>
    BY <1>3, <2>1 DEF MoveTask, server
  <2>3. DOMAIN call' = CardCalls /\ call'[m].stage = "open"
    BY <2>1 DEF PInv, MoveTask
  <2> QED
    BY <1>1, <2>1, <2>2, <2>3 DEF PInv, ColumnAwaited, CardAwaited
<1> QED
  BY <1>2, <1>3 DEF DropCard

LEMMA DragCancelPInv ==
  ASSUME PInv, DragCancel
  PROVE  PInv'
BY DEF PInv, ColumnAwaited, CardAwaited, DragCancel, Reset, server, calls

\* An Undo takes the callback from the move that was open, and is recorded.
LEMMA UndoPInv ==
  ASSUME PInv, NEW m \in CardCalls, Undo(m)
  PROVE  PInv'
<1>1. UNCHANGED <<pc, columnReset, columnOrder, dragOrder, grabbed>>
  BY DEF Undo, server, drag
<1>2. DOMAIN call' = CardCalls
  BY DEF Undo, PInv
<1>3. undercut' = (undercut \/ cardReset \in {q \in CardCalls : call[q].stage = "open"})
  BY DEF Undo
<1> QED
  BY <1>1, <1>2, <1>3 DEF PInv, ColumnAwaited, CardAwaited

\* The answer that is waited for ends both previews; any other leaves its request open.
LEMMA AnswerColumnPInv ==
  ASSUME PInv, NEW r \in Reqs, AnswerColumn(r)
  PROVE  PInv'
<1>1. /\ pc' = [pc EXCEPT ![r] = "done"]
      /\ UNCHANGED <<grabbed, call, columnReset, cardReset, undercut>>
  BY DEF AnswerColumn
<1>2. CASE columnReset = r
  BY <1>1, <1>2 DEF PInv, ColumnAwaited, CardAwaited, AnswerColumn, Settled, Reset
<1>3. CASE columnReset # r
  <2>1. UNCHANGED drag
    BY <1>3 DEF AnswerColumn, Settled
  <2> QED
    BY <1>1, <1>3, <2>1 DEF PInv, ColumnAwaited, CardAwaited, drag
<1> QED
  BY <1>2, <1>3

LEMMA AnswerCardPInv ==
  ASSUME PInv, NEW m \in CardCalls, NEW ok \in BOOLEAN, AnswerCard(m, ok)
  PROVE  PInv'
<1>1. UNCHANGED <<pc, grabbed, columnReset, cardReset, undercut>>
  BY DEF AnswerCard, server
<1>2. /\ DOMAIN call' = CardCalls
      /\ \A n \in CardCalls \ {m} : call'[n] = call[n]
  BY DEF AnswerCard, PInv
<1>3. CASE cardReset = m
  BY <1>1, <1>2, <1>3 DEF PInv, ColumnAwaited, CardAwaited, AnswerCard, Settled, Reset
<1>4. CASE cardReset # m
  <2>1. UNCHANGED drag
    BY <1>4 DEF AnswerCard, Settled
  <2> QED
    BY <1>1, <1>2, <1>4, <2>1 DEF PInv, ColumnAwaited, CardAwaited, drag
<1> QED
  BY <1>3, <1>4

\* No handler ends a request before it has been answered.
LEMMA HandleKeepsOpen ==
  ASSUME NEW r \in Reqs, DOMAIN pc = Reqs, Handle(r)
  PROVE  /\ DOMAIN pc' = Reqs
         /\ \A q \in Reqs : pc[q] \notin {"idle", "done"} => pc'[q] \notin {"idle", "done"}
<1>1. \/ pc' = pc
      \/ \E stage \in {"writing", "failed", "respacing", "committed", "ok"} :
           pc' = [pc EXCEPT ![r] = stage]
  <2>1. ASSUME NEW writes, NEW interval, NEW isFresh, Begin(r, writes, interval, isFresh)
        PROVE  pc' = [pc EXCEPT ![r] = "writing"]
    BY <2>1 DEF Begin
  <2>2. Fail(r) => pc' = [pc EXCEPT ![r] = "failed"]
    BY DEF Fail
  <2>3. ASSUME NEW newRows, Committed(r, newRows)
        PROVE  pc' = [pc EXCEPT ![r] = "committed"]
    BY <2>3 DEF Committed
  <2>4. CASE ReadForMove(r)
    BY <2>1, <2>2, <2>4 DEF ReadForMove
  <2>5. CASE ReadForCreate(r)
    BY <2>1, <2>5 DEF ReadForCreate
  <2>6. CASE Relist(r)
    BY <2>6 DEF Relist
  <2>7. CASE Write(r)
    BY <2>2, <2>7 DEF Write
  <2>8. CASE Commit(r)
    BY <2>3, <2>8 DEF Commit
  <2>9. CASE Statement(r)
    BY <2>2, <2>3, <2>9 DEF Statement
  <2>10. CASE Announce(r)
    BY <2>10 DEF Announce
  <2>11. CASE DeadlockVictim(r)
    BY <2>2, <2>11 DEF DeadlockVictim
  <2> QED
    BY <2>4, <2>5, <2>6, <2>7, <2>8, <2>9, <2>10, <2>11 DEF Handle
<1> QED
  BY <1>1

LEMMA ServePInv ==
  ASSUME PInv, NEW r \in Reqs, Serve(r)
  PROVE  PInv'
<1>1. UNCHANGED <<drag, grabbed, call, columnReset, cardReset, undercut>>
  BY DEF Serve, calls
<1>2. /\ DOMAIN pc' = Reqs
      /\ \A q \in Reqs : pc[q] \notin {"idle", "done"} => pc'[q] \notin {"idle", "done"}
  BY HandleKeepsOpen DEF Serve, PInv
<1> QED
  BY <1>1, <1>2, OwnAssumption DEF PInv, ColumnAwaited, CardAwaited, drag

LEMMA NextPInv == PInv /\ [Next]_vars => PInv'
<1> SUFFICES ASSUME PInv, [Next]_vars PROVE PInv'
  OBVIOUS
<1>1. ASSUME NEW i \in ColumnIds, PickUpColumn(i) PROVE PInv'
  BY <1>1, PickUpColumnPInv
<1>2. ASSUME NEW i \in ColumnIds, DropColumn(i) PROVE PInv'
  BY <1>2, DropColumnPInv
<1>3. ASSUME NEW k \in Cards, PickUpCard(k) PROVE PInv'
  BY <1>3, PickUpCardPInv
<1>4. ASSUME NEW k \in Cards, RemoteCard(k) PROVE PInv'
  BY <1>4, StillPInv DEF RemoteCard, waiting, server, calls
<1>5. ASSUME NEW over \in Cards \cup ColumnIds, DragOver(over) PROVE PInv'
  BY <1>5, DragOverPInv
<1>6. ASSUME NEW over \in Cards \cup ColumnIds, DropCard(over) PROVE PInv'
  BY <1>6, DropCardPInv
<1>7. CASE DragCancel
  BY <1>7, DragCancelPInv
<1>8. ASSUME NEW m \in CardCalls, Undo(m) PROVE PInv'
  BY <1>8, UndoPInv
<1>9. ASSUME NEW m \in CardCalls, NEW ok \in BOOLEAN, AnswerCard(m, ok) PROVE PInv'
  BY <1>9, AnswerCardPInv
<1>10. ASSUME NEW r \in Reqs, Serve(r) PROVE PInv'
  BY <1>10, ServePInv
<1>11. ASSUME NEW r \in Reqs, AnswerColumn(r) PROVE PInv'
  BY <1>11, AnswerColumnPInv
<1>12. CASE Deliver
  BY <1>12, StillPInv DEF Deliver, waiting, calls
<1>13. CASE Done
  BY <1>13, StillPInv DEF Done, vars, waiting, server, page, calls
<1>14. CASE UNCHANGED vars
  BY <1>14, StillPInv DEF vars, waiting, server, page, calls
<1> QED
  BY <1>1, <1>2, <1>3, <1>4, <1>5, <1>6, <1>7, <1>8, <1>9, <1>10, <1>11, <1>12, <1>13, <1>14
  DEF Next

\* At rest no move is open, so that no preview can be waiting for one.
LEMMA PInvImpliesPreviewEnds == PInv => PreviewEnds
BY IdAssumption, OwnAssumption DEF PInv, ColumnAwaited, CardAwaited, PreviewEnds, AtRest

\* Once nothing is under way, the page shows the cache and not the preview of a drag, unless
\* an Undo was made while another drop was open (useBoardDnd.ts 252-259, 297-310, 379-388).
THEOREM PreviewsEnd == Spec => []PreviewEnds
<1>1. Init => PInv
  BY InitPInv
<1>2. PInv /\ [Next]_vars => PInv'
  BY NextPInv
<1>3. PInv => PreviewEnds
  BY PInvImpliesPreviewEnds
<1> QED
  BY <1>1, <1>2, <1>3, PTL DEF Spec

-----------------------------------------------------------------------------
(* What a handler is about to write. *)

\* The writes of one transaction: rows with ranks that can be stored.
Writes == Seq([id : ColumnIds, rank : StoredRanks])

Table == [ColumnIds -> StoredRanks \cup {Gone}]

\* The present rows that no write changes.
Kept(writes, table) ==
  {i \in Present(table) : \A n \in 1 .. Len(writes) : writes[n].id # i}

\* The writes, made on the table, leave no two columns with one rank.
Consistent(writes, table) ==
  /\ \A m, n \in 1 .. Len(writes) :
       m # n => writes[m].id # writes[n].id /\ writes[m].rank # writes[n].rank
  /\ \A i \in Kept(writes, table), n \in 1 .. Len(writes) : table[i] # writes[n].rank
  /\ \A i, j \in Kept(writes, table) : table[i] = table[j] => i = j

Covers(ids, table) ==
  /\ ids \in Seq(ColumnIds)
  /\ \A m, n \in 1 .. Len(ids) : m # n => ids[m] # ids[n]
  /\ \A i \in Present(table) : \E n \in 1 .. Len(ids) : ids[n] = i

\* Re-spacing every present column is always consistent.
LEMMA SpacedConsistent ==
  ASSUME NEW table, NEW ids, Covers(ids, table)
  PROVE  Spaced(ids) \in Writes /\ Consistent(Spaced(ids), table)
<1> DEFINE writes == Spaced(ids)
<1>1. /\ ids \in Seq(ColumnIds)
      /\ \A m, n \in 1 .. Len(ids) : m # n => ids[m] # ids[n]
      /\ \A i \in Present(table) : \E n \in 1 .. Len(ids) : ids[n] = i
  BY DEF Covers
<1>2. /\ writes \in Seq([id : ColumnIds, rank : StoredRanks])
      /\ Len(writes) = Len(ids)
      /\ \A n \in 1 .. Len(ids) : writes[n].id = ids[n]
      /\ \A m, n \in 1 .. Len(ids) : m # n => writes[m].rank # writes[n].rank
  BY <1>1, SpacedIs
<1> HIDE DEF writes
<1>3. Kept(writes, table) = {}
  BY <1>1, <1>2 DEF Kept
<1>4. \A m, n \in 1 .. Len(writes) :
        m # n => writes[m].id # writes[n].id /\ writes[m].rank # writes[n].rank
  BY <1>1, <1>2
<1> QED
  BY <1>2, <1>3, <1>4 DEF Consistent, Writes, writes

\* The sorted list of some present rows.
LEMMA TableListed ==
  ASSUME NEW table \in Table, NEW ids, ids \subseteq Present(table),
         NEW list, list = Listed(table, ids)
  PROVE  /\ SortedRows(list, ids, table)
         /\ Sorted(list, RankedRows(ids, table))
         /\ \A n \in 1 .. Len(list) : list[n].id \in ColumnIds /\ list[n].rank \in StoredRanks
<1>1. \A i \in ids : i \in ColumnIds /\ i \in Nat /\ table[i] \in StoredRanks
  BY ColumnAssumption DEF Table, Present
<1>2. IsFiniteSet(ids) /\ ids \subseteq Nat /\ \A i \in ids : table[i] \in StoredRanks
  BY <1>1, ColumnAssumption, FS_Subset
<1>3. list = Ordered(RankedRows(ids, table))
  BY DEF Listed
<1>4. SortedRows(list, ids, table)
  BY <1>2, <1>3, ListIs
<1> QED
  BY <1>1, <1>4 DEF SortedRows

-----------------------------------------------------------------------------
(* move. *)

LEMMA IdsAre ==
  ASSUME NEW table \in Table, NEW ids, ids \subseteq Present(table)
  PROVE  LET list == Listed(table, ids)
             s    == IdsOf(list)
         IN  /\ s \in Seq(ColumnIds) /\ Len(s) = Len(list) /\ Len(s) \in Nat
             /\ \A n \in 1 .. Len(s) : s[n] \in ids
             /\ \A m, n \in 1 .. Len(s) : m # n => s[m] # s[n]
             /\ \A i \in ids : \E n \in 1 .. Len(s) : s[n] = i
<1> DEFINE list == Listed(table, ids)
           found == RankedRows(ids, table)
           s == IdsOf(list)
<1>1. /\ Sorted(list, found)
      /\ \A n \in 1 .. Len(list) : list[n].id \in ids
      /\ \A i \in ids : \E n \in 1 .. Len(list) : list[n].id = i
  <2>1. SortedRows(list, ids, table)
    BY TableListed
  <2> HIDE DEF list
  <2> QED
    BY <2>1 DEF SortedRows
<1>2. \A x \in found : x.id \in ColumnIds
  BY DEF Present, RankedRows
<1> HIDE DEF list, found
<1>4. /\ s \in Seq(ColumnIds) /\ Len(s) = Len(list) /\ Len(s) \in Nat
      /\ \A n \in 1 .. Len(s) : s[n] = list[n].id
      /\ \A m, n \in 1 .. Len(s) : m # n => s[m] # s[n]
  BY <1>1, <1>2, SortedIds
<1> HIDE DEF s
<1> QED
  BY <1>1, <1>4 DEF s, list

LEMMA OrderCovers ==
  ASSUME NEW table \in Table
  PROVE  Covers(OrderOf(table), table)
BY IdsAre DEF OrderOf, Covers

LEMMA InsertCovers ==
  ASSUME NEW table \in Table, NEW x \in ColumnIds,
         NEW k \in 0 .. Len(Listed(table, Present(table) \ {x}))
  PROVE  Covers(SX!InsertAt(IdsOf(Listed(table, Present(table) \ {x})), k + 1, x), table)
<1> DEFINE ids == Present(table) \ {x}
           s == IdsOf(Listed(table, ids))
           i == k + 1
           w == SX!InsertAt(s, i, x)
<1>1. /\ s \in Seq(ColumnIds) /\ Len(s) = Len(Listed(table, ids)) /\ Len(s) \in Nat
      /\ \A n \in 1 .. Len(s) : s[n] \in ids
      /\ \A m, n \in 1 .. Len(s) : m # n => s[m] # s[n]
      /\ \A j \in ids : \E n \in 1 .. Len(s) : s[n] = j
  BY IdsAre
<1> HIDE DEF s
<1>2. i \in 1 .. (Len(s) + 1)
  BY <1>1
<1>0. \A n \in 1 .. Len(s) : s[n] # x
  BY <1>1
<1> HIDE DEF i, ids
<1>3. w = Splice(s, i, x)
  BY DEF SX!InsertAt, Splice
<1> HIDE DEF w
<1>4. /\ w \in Seq(ColumnIds) /\ Len(w) = Len(s) + 1
      /\ w[i] = x
      /\ \A n \in 1 .. (i - 1) : w[n] = s[n]
      /\ \A n \in i .. Len(s) : w[n + 1] = s[n]
      /\ \A m, n \in 1 .. Len(w) : m # n => w[m] # w[n]
  BY <1>0, <1>1, <1>2, <1>3, Spliced
<1>5. \A j \in Present(table) : \E n \in 1 .. Len(w) : w[n] = j
  <2> SUFFICES ASSUME NEW j \in Present(table) PROVE \E n \in 1 .. Len(w) : w[n] = j
    OBVIOUS
  <2>1. CASE j = x
    BY <1>1, <1>2, <1>4, <2>1
  <2>2. CASE j # x
    <3>1. PICK n \in 1 .. Len(s) : s[n] = j
      BY <1>1, <2>2 DEF ids
    <3>2. CASE n < i
      <4>1. n \in 1 .. (i - 1) /\ n \in 1 .. Len(w)
        BY <1>1, <1>2, <1>4, <3>2
      <4> QED
        BY <1>4, <3>1, <4>1
    <3>3. CASE n >= i
      <4>1. n \in i .. Len(s) /\ n + 1 \in 1 .. Len(w)
        BY <1>1, <1>2, <1>4, <3>3
      <4> QED
        BY <1>4, <3>1, <4>1
    <3> QED
      BY <1>1, <1>2, <3>2, <3>3
  <2> QED
    BY <2>1, <2>2
<1> QED
  BY <1>4, <1>5 DEF Covers, w, s, i, ids

\* Neighbours that stand side by side are the ends of one gap in the list.
LEMMA AdjacentGap ==
  ASSUME NEW list, NEW found, Sorted(list, found),
         \A n \in 1 .. Len(list) : list[n].id # None,
         NEW before, NEW after, NEW position \in Nat \cup {None},
         NEW bounds, bounds = ResolveNeighborBounds(list, before, after, position),
         Adjacent(list, before, after)
  PROVE  IsGap(list, bounds)
<1> DEFINE b == IndexOf(list, before)
           a == IndexOf(list, after)
<1>1. b \in 0 .. Len(list) /\ a \in 0 .. Len(list) /\ Len(list) \in Nat
  BY IndexOfIs DEF Sorted
<1>2. IndexOf(list, None) = 0
  BY DEF IndexOf
<1>3. before # None \/ after # None =>
        /\ before # None => b > 0
        /\ after # None => a > 0
        /\ (IF before = None THEN 0 ELSE b) + 1 = (IF after = None THEN Len(list) + 1 ELSE a)
  BY DEF Adjacent
<1>4. /\ before # None \/ after # None =>
           /\ bounds.lower = RankAt(list, b, First)
           /\ bounds.upper = RankAt(list, a, Last)
      /\ before = None /\ after = None => IsGap(list, bounds)
  <2>1. /\ before # None \/ after # None => AtNeighbours(list, before, after, bounds)
        /\ before = None /\ after = None => IsGap(list, bounds)
    BY BoundsAre
  <2> QED
    BY <2>1 DEF AtNeighbours
<1>5. before = None => b = 0
  BY <1>2
<1>6. RankAt(list, Len(list) + 1, Last) = Last /\ RankAt(list, 0, Last) = Last
  BY <1>1 DEF RankAt
<1>7. after = None => a = 0
  BY <1>2
<1> HIDE DEF a, b
<1>8. CASE after = None /\ before # None
  BY <1>1, <1>3, <1>4, <1>6, <1>7, <1>8 DEF IsGap
<1>9. CASE after # None
  BY <1>1, <1>3, <1>4, <1>5, <1>9 DEF IsGap
<1>10. CASE after = None /\ before = None
  BY <1>4, <1>10
<1> QED
  BY <1>8, <1>9, <1>10

\* A rank inside a gap of the list is no column's yet.
LEMMA ColumnGapIsFree ==
  ASSUME NEW table \in Table, NEW ids, ids \subseteq Present(table),
         NEW list, list = Listed(table, ids),
         NEW ends, IsGap(list, ends), NEW rank \in Ranks,
         Less(ends.lower, rank), Less(rank, ends.upper)
  PROVE  \A i \in ids : table[i] # rank
<1>2. Sorted(list, RankedRows(ids, table))
  BY TableListed
<1>3. \A x \in RankedRows(ids, table) : x.rank # rank
  BY <1>2, GapIsFree
<1>4. ASSUME NEW i \in ids PROVE table[i] # rank
  <2> DEFINE x == [id |-> i, rank |-> table[i]]
  <2>1. x \in RankedRows(ids, table) /\ x.rank = table[i]
    BY DEF RankedRows
  <2> QED
    BY <1>3, <2>1
<1> QED
  BY <1>4

\* One write of a rank that no other column has is consistent.
LEMMA OneWrite ==
  ASSUME NEW table \in Table, Distinct(table), NEW x \in ColumnIds, NEW rank \in StoredRanks,
         \A i \in Present(table) \ {x} : table[i] # rank
  PROVE  Consistent(<<[id |-> x, rank |-> rank]>>, table)
<1> DEFINE w == <<[id |-> x, rank |-> rank]>>
<1>1. Len(w) = 1 /\ w[1].id = x /\ w[1].rank = rank /\ 1 .. 1 = {1}
  OBVIOUS
<1> HIDE DEF w
<1>2. Kept(w, table) = Present(table) \ {x}
  BY <1>1 DEF Kept
<1>3. \A i, j \in Present(table) : table[i] = table[j] => i = j
  BY DEF Distinct
<1> QED
  BY <1>1, <1>2, <1>3 DEF Consistent, w

LEMMA OneWriteTyped ==
  ASSUME NEW x \in ColumnIds, NEW rank \in StoredRanks
  PROVE  <<[id |-> x, rank |-> rank]>> \in Writes
BY DEF Writes

\* What can be stored lies between the two sentinels.
LEMMA InsideEverywhere ==
  ASSUME NEW writes \in Writes
  PROVE  \A n \in 1 .. Len(writes) : Within(writes[n].rank, Everywhere)
<1> SUFFICES ASSUME NEW n \in 1 .. Len(writes) PROVE Within(writes[n].rank, Everywhere)
  OBVIOUS
<1>1. writes[n].rank \in StoredRanks
  <2> DEFINE T == [id : ColumnIds, rank : StoredRanks]
  <2>1. writes \in Seq(T)
    BY DEF Writes
  <2> HIDE DEF T
  <2>2. writes[n] \in T
    BY <2>1
  <2> QED
    BY <2>2 DEF T
<1>2. Less(First, writes[n].rank) /\ Less(writes[n].rank, Last)
  BY <1>1, StoredInside
<1> QED
  BY <1>2 DEF Within, Everywhere

Positioned(r) == ask[r].position \in Nat \cup {None}

LEMMA MoveConsistent ==
  ASSUME NEW r, cols \in Table, ask[r].column \in ColumnIds, Positioned(r),
         NEW others, others = Listed(cols, Present(cols) \ {ask[r].column}),
         NEW bounds, bounds = ResolveNeighborBounds(others, ask[r].before, ask[r].after, ask[r].position),
         Less(bounds.lower, bounds.upper)
  PROVE  /\ MoveWrites(r, others, bounds) \in Writes
         /\ \A n \in 1 .. Len(MoveWrites(r, others, bounds)) :
              Within(MoveWrites(r, others, bounds)[n].rank, IntervalOf(bounds))
         /\ Distinct(cols) /\ Adjacent(others, ask[r].before, ask[r].after)
              => Consistent(MoveWrites(r, others, bounds), cols)
<1> DEFINE x == ask[r].column
           ids == Present(cols) \ {x}
           rank == Between(bounds.lower, bounds.upper)
<1>0. x \in ColumnIds /\ ids \subseteq Present(cols) /\ others = Listed(cols, ids)
  OBVIOUS
<1> DEFINE found == RankedRows(ids, cols)
<1>1. Sorted(others, found) /\ \A n \in 1 .. Len(others) : others[n].id \in ColumnIds
  <2> HIDE DEF ids
  <2> QED
    BY <1>0, TableListed
<1>2. /\ Sorted(others, found)
      /\ \A n \in 1 .. Len(others) : others[n].id # None
  BY <1>1, IdAssumption
<1> HIDE DEF found
<1>3. /\ bounds.lower \in StoredRanks \cup {First}
      /\ bounds.upper \in StoredRanks \cup {Last}
      /\ bounds.index \in 0 .. Len(others)
      /\ Adjacent(others, ask[r].before, ask[r].after) => IsGap(others, bounds)
  BY <1>2, BoundsAre, AdjacentGap DEF Positioned
<1>4. /\ rank \in StoredRanks /\ rank \in Ranks
      /\ Less(bounds.lower, rank) /\ Less(rank, bounds.upper)
  BY <1>3, BetweenStored
<1> HIDE DEF rank
<1>5. CASE Len(rank) <= Threshold
  <2>1. MoveWrites(r, others, bounds) = <<[id |-> x, rank |-> rank]>>
    BY <1>5 DEF MoveWrites, rank
  <2>2. MoveWrites(r, others, bounds) \in Writes
    <3> HIDE DEF x
    <3> QED
      BY <1>0, <1>4, <2>1, OneWriteTyped
  <2>3. ASSUME Distinct(cols), Adjacent(others, ask[r].before, ask[r].after)
        PROVE  Consistent(MoveWrites(r, others, bounds), cols)
    <3>1. IsGap(others, bounds)
      BY <1>3, <2>3
    <3>2. \A i \in ids : cols[i] # rank
      <4> HIDE DEF ids
      <4> QED
        BY <1>0, <1>4, <3>1, ColumnGapIsFree
    <3> HIDE DEF x
    <3> QED
      BY <1>0, <1>4, <2>1, <2>3, <3>2, OneWrite
  <2>4. \A n \in 1 .. Len(MoveWrites(r, others, bounds)) :
          Within(MoveWrites(r, others, bounds)[n].rank, IntervalOf(bounds))
    <3>1. Within(rank, IntervalOf(bounds))
      BY <1>4, <1>5 DEF IntervalOf, Within, rank
    <3> HIDE DEF x
    <3> QED
      BY <2>1, <3>1
  <2> QED
    BY <2>2, <2>3, <2>4
<1>6. CASE ~(Len(rank) <= Threshold)
  <2> DEFINE k == bounds.index
             w == SX!InsertAt(IdsOf(others), k + 1, x)
  <2>1. MoveWrites(r, others, bounds) = Spaced(w)
    BY <1>6 DEF MoveWrites, rank
  <2>2. Covers(w, cols)
    <3> HIDE DEF k, x
    <3> QED
      BY <1>0, <1>3, InsertCovers DEF k
  <2> HIDE DEF w
  <2>3. MoveWrites(r, others, bounds) \in Writes /\ Consistent(MoveWrites(r, others, bounds), cols)
    BY <2>1, <2>2, SpacedConsistent
  <2>4. IntervalOf(bounds) = Everywhere
    BY <1>6 DEF IntervalOf, rank
  <2> QED
    BY <2>3, <2>4, InsideEverywhere
<1> QED
  BY <1>5, <1>6

\* create: a rank behind the last column's.
LEMMA CreateConsistent ==
  ASSUME NEW x \in ColumnIds, cols \in Table
  PROVE  LET writes == <<[id |-> x, rank |-> Between(LastRank, Last)]>>
         IN  /\ writes \in Writes
             /\ \A n \in 1 .. Len(writes) :
                  Within(writes[n].rank, [lower |-> LastRank, upper |-> Last])
             /\ Distinct(cols) => Consistent(writes, cols)
<1> DEFINE ids == Present(cols)
           list == Listed(cols, ids)
           rank == Between(LastRank, Last)
<1>1. SortedRows(list, ids, cols) /\ \A n \in 1 .. Len(list) : list[n].rank \in StoredRanks
  BY TableListed
<1>2. LastRank = RankAt(list, Len(list), First) /\ Last = RankAt(list, Len(list) + 1, Last)
      /\ LastRank \in StoredRanks \cup {First} /\ Len(list) \in Nat
  <2>1. /\ Len(list) \in Nat
        /\ \A n \in 1 .. Len(list) : list[n].rank \in StoredRanks /\ list[n].id \in ids
        /\ \A i \in ids : \E n \in 1 .. Len(list) : list[n].id = i
    <3> HIDE DEF list, ids
    <3> QED
      BY <1>1 DEF SortedRows
  <2>2. LastRank = IF ids = {} THEN First ELSE list[Len(list)].rank
    BY DEF LastRank
  <2> HIDE DEF list, ids
  <2>3. ids = {} <=> Len(list) = 0
    BY <2>1
  <2> QED
    BY <2>1, <2>2, <2>3 DEF RankAt
<1>3. Less(LastRank, Last)
  <2>1. Less(First, Last)
    BY BaseAssumption DEF Less, First, Last
  <2> QED
    BY <1>2, <2>1, StoredInside
<1>4. /\ rank \in StoredRanks /\ rank \in Ranks
      /\ Less(LastRank, rank) /\ Less(rank, Last)
  BY <1>2, <1>3, BetweenStored
<1> HIDE DEF rank
<1>5. \A i \in ids : cols[i] # rank
  <2> DEFINE ends == [lower |-> LastRank, upper |-> Last]
  <2>1. /\ ids \subseteq Present(cols) /\ list = Listed(cols, ids)
        /\ ends.lower = LastRank /\ ends.upper = Last
    OBVIOUS
  <2> HIDE DEF ends, ids, list
  <2>2. IsGap(list, ends)
    BY <1>2, <2>1 DEF IsGap
  <2> QED
    BY <1>4, <2>1, <2>2, ColumnGapIsFree
<1>6. <<[id |-> x, rank |-> rank]>> \in Writes
  BY <1>4, OneWriteTyped
<1>7. Distinct(cols) => Consistent(<<[id |-> x, rank |-> rank]>>, cols)
  BY <1>4, <1>5, OneWrite
<1>8. Within(rank, [lower |-> LastRank, upper |-> Last])
  BY <1>4 DEF Within
<1> QED
  BY <1>6, <1>7, <1>8 DEF rank

\* A write that is made leaves the rest consistent.
LEMMA WriteConsistent ==
  ASSUME NEW writes \in Writes, writes # <<>>, NEW table \in Table, Consistent(writes, table),
         NEW after, after = [table EXCEPT ![Head(writes).id] = Head(writes).rank]
  PROVE  Consistent(Tail(writes), after)
<1> DEFINE rest == Tail(writes)
           x == writes[1].id
           rank == writes[1].rank
<1>1. /\ Len(writes) \in Nat /\ 1 \in 1 .. Len(writes)
      /\ Len(rest) = Len(writes) - 1
      /\ \A n \in 1 .. Len(rest) : rest[n] = writes[n + 1] /\ n + 1 \in 1 .. Len(writes)
      /\ writes[1] \in [id : ColumnIds, rank : StoredRanks]
      /\ Head(writes) = writes[1]
  <2> DEFINE T == [id : ColumnIds, rank : StoredRanks]
  <2>1. writes \in Seq(T)
    BY DEF Writes
  <2> HIDE DEF T
  <2>2. /\ Len(writes) \in Nat /\ 1 \in 1 .. Len(writes)
        /\ Len(rest) = Len(writes) - 1
        /\ \A n \in 1 .. Len(rest) : rest[n] = writes[n + 1] /\ n + 1 \in 1 .. Len(writes)
        /\ writes[1] \in T
        /\ Head(writes) = writes[1]
    BY <2>1
  <2> QED
    BY <2>2 DEF T
<1>2. /\ x \in ColumnIds /\ rank \in StoredRanks /\ rank # Gone
  BY <1>1, RowAssumption DEF StoredRanks
<1>3. after = [table EXCEPT ![x] = rank]
  BY <1>1
<1> HIDE DEF rest, x, rank
<1>4. /\ after[x] = rank
      /\ \A i \in ColumnIds : i # x => after[i] = table[i]
  BY <1>2, <1>3 DEF Table
<1>5. \A n \in 1 .. Len(rest) : rest[n].id # x /\ rest[n].rank # rank
  <2> SUFFICES ASSUME NEW n \in 1 .. Len(rest) PROVE rest[n].id # x /\ rest[n].rank # rank
    OBVIOUS
  <2>1. n + 1 # 1 /\ n + 1 \in 1 .. Len(writes) /\ rest[n] = writes[n + 1]
    BY <1>1
  <2> QED
    BY <1>1, <2>1 DEF Consistent, x, rank
<1>6. \A i \in Kept(rest, after) : i # x => i \in Kept(writes, table)
  <2> SUFFICES ASSUME NEW i \in Kept(rest, after), i # x PROVE i \in Kept(writes, table)
    OBVIOUS
  <2>1. i \in ColumnIds /\ after[i] # Gone /\ \A n \in 1 .. Len(rest) : rest[n].id # i
    BY DEF Kept, Present
  <2>2. \A n \in 1 .. Len(writes) : writes[n].id # i
    <3> SUFFICES ASSUME NEW n \in 1 .. Len(writes), writes[n].id = i PROVE FALSE
      OBVIOUS
    <3>1. n # 1
      BY DEF x
    <3>2. n - 1 \in 1 .. Len(rest) /\ n - 1 + 1 = n
      BY <1>1, <3>1
    <3>3. rest[n - 1] = writes[n]
      BY <1>1, <3>2
    <3> QED
      BY <2>1, <3>2, <3>3
  <2> QED
    BY <1>4, <2>1, <2>2 DEF Kept, Present
<1>7. \A m, n \in 1 .. Len(rest) : m # n => rest[m].id # rest[n].id /\ rest[m].rank # rest[n].rank
  <2> SUFFICES ASSUME NEW m \in 1 .. Len(rest), NEW n \in 1 .. Len(rest), m # n
               PROVE  rest[m].id # rest[n].id /\ rest[m].rank # rest[n].rank
    OBVIOUS
  <2>1. /\ m + 1 # n + 1 /\ m + 1 \in 1 .. Len(writes) /\ n + 1 \in 1 .. Len(writes)
        /\ rest[m] = writes[m + 1] /\ rest[n] = writes[n + 1]
    BY <1>1
  <2> QED
    BY <2>1 DEF Consistent
<1>8. \A i \in Kept(rest, after), n \in 1 .. Len(rest) : after[i] # rest[n].rank
  <2> SUFFICES ASSUME NEW i \in Kept(rest, after), NEW n \in 1 .. Len(rest)
               PROVE  after[i] # rest[n].rank
    OBVIOUS
  <2>1. CASE i = x
    BY <1>4, <1>5, <2>1
  <2>2. CASE i # x
    <3>1. i \in Kept(writes, table) /\ after[i] = table[i]
      BY <1>4, <1>6, <2>2 DEF Kept, Present
    <3>2. n + 1 \in 1 .. Len(writes) /\ rest[n] = writes[n + 1]
      BY <1>1
    <3> QED
      BY <3>1, <3>2 DEF Consistent
  <2> QED
    BY <2>1, <2>2
<1>9. \A i, j \in Kept(rest, after) : after[i] = after[j] => i = j
  <2> SUFFICES ASSUME NEW i \in Kept(rest, after), NEW j \in Kept(rest, after), i # j
               PROVE  after[i] # after[j]
    OBVIOUS
  <2>1. \A l \in Kept(rest, after) : l # x => l \in Kept(writes, table) /\ after[l] = table[l]
    BY <1>4, <1>6 DEF Kept, Present
  <2>2. \A l \in Kept(writes, table) : table[l] # rank
    BY <1>1 DEF Consistent, rank
  <2>3. CASE i # x /\ j # x
    BY <2>1, <2>3 DEF Consistent
  <2>4. CASE i = x \/ j = x
    BY <1>4, <2>1, <2>2, <2>4
  <2> QED
    BY <2>3, <2>4
<1> QED
  BY <1>7, <1>8, <1>9 DEF Consistent, rest
-----------------------------------------------------------------------------
(* The columns of a board keep distinct ranks. *)

\* All that a request writes lies in its interval.
InGap(r) ==
  /\ \A n \in 1 .. Len(todo[r]) : Within(todo[r][n].rank, gap[r])
  /\ \A i \in ColumnIds : held[r][i] # Untouched => Within(held[r][i], gap[r])

\* While nobody has entered its interval, what a handler is about to write fits the rows.
Fits(r) ==
  r \in fresh /\ pc[r] \in {"writing", "respacing"} =>
    InGap(r) /\ (~muddled => Consistent(todo[r], Seen(r)))

ServerTyped ==
  /\ DOMAIN ask = Reqs /\ DOMAIN pc = Reqs /\ DOMAIN gap = Reqs
  /\ cols \in Table
  /\ \A r \in Reqs : Positioned(r)
  /\ todo \in [Reqs -> Writes]
  /\ held \in [Reqs -> [ColumnIds -> StoredRanks \cup {Untouched}]]
  /\ \A r \in Reqs : pc[r] \notin {"idle", "done"} => ask[r].column \in ColumnIds
  /\ \A r \in Reqs : pc[r] \notin {"writing", "respacing"} => todo[r] = <<>> /\ held[r] = Nothing
  /\ \A r \in Reqs : pc[r] \in {"idle", "sent"} => r \notin fresh

RInv ==
  /\ ServerTyped
  /\ DistinctRanks
  /\ \A r \in Reqs : Fits(r)

LEMMA InitRInv == Init => RInv
<1> SUFFICES ASSUME Init PROVE RInv
  OBVIOUS
<1>1. PICK w \in Workloads :
        /\ cols = w.cols
        /\ ask = [r \in Reqs |-> IF r \in Own THEN NoAsk ELSE w.ask]
        /\ pc = [r \in Reqs |-> IF r \in w.moves THEN "idle"
                               ELSE IF r \in Own \/ w.ask = NoAsk THEN "done" ELSE "sent"]
  BY DEF Init
<1>2. /\ cols \in Table /\ Distinct(cols)
      /\ w.ask # NoAsk => w.ask.column \in ColumnIds
      /\ w.ask.position \in Nat \cup {None}
  BY <1>1, WorkloadAssumption DEF Table
<1>3. /\ todo = [r \in Reqs |-> <<>>] /\ held = [r \in Reqs |-> Nothing] /\ fresh = {}
      /\ DOMAIN gap = Reqs
  BY DEF Init
<1>4. Nothing \in [ColumnIds -> StoredRanks \cup {Untouched}] /\ <<>> \in Writes
  BY DEF Nothing, Writes
<1>5. \A r \in Reqs : pc[r] \notin {"idle", "done"} => ask[r].column \in ColumnIds
  BY <1>1, <1>2
<1>6. todo \in [Reqs -> Writes] /\ held \in [Reqs -> [ColumnIds -> StoredRanks \cup {Untouched}]]
  BY <1>3, <1>4
<1>7. DOMAIN ask = Reqs /\ DOMAIN pc = Reqs
  BY <1>1
<1>8. \A r \in Reqs : Positioned(r)
  BY <1>1, <1>2 DEF Positioned, NoAsk
<1> QED
  BY <1>2, <1>3, <1>5, <1>6, <1>7, <1>8 DEF RInv, ServerTyped, DistinctRanks, Fits

LEMMA SeenIs ==
  ASSUME ServerTyped, NEW r \in Reqs
  PROVE  /\ Seen(r) \in Table
         /\ held[r] = Nothing => Seen(r) = cols
<1>1. held[r] \in [ColumnIds -> StoredRanks \cup {Untouched}] /\ cols \in Table
  BY DEF ServerTyped
<1>2. \A i \in ColumnIds : Seen(r)[i] \in StoredRanks \cup {Gone}
  BY <1>1 DEF Seen, Table
<1>3. Seen(r) \in Table
  BY <1>2 DEF Seen, Table
<1>4. ASSUME held[r] = Nothing PROVE Seen(r) = cols
  <2>1. \A i \in ColumnIds : held[r][i] = Untouched
    BY <1>4 DEF Nothing
  <2>2. Seen(r) = [i \in ColumnIds |-> cols[i]]
    BY <2>1 DEF Seen
  <2> QED
    BY <1>1, <2>2 DEF Table
<1> QED
  BY <1>3, <1>4

\* A step that leaves the rows and another's transaction alone leaves what that one writes
\* as fitting as it was.
LEMMA OthersFit ==
  ASSUME RInv, NEW q \in Reqs, cols' = cols,
         pc'[q] = pc[q], todo'[q] = todo[q], held'[q] = held[q], gap'[q] = gap[q],
         q \in fresh' => q \in fresh, ~muddled' => ~muddled
  PROVE  Fits(q)'
<1>1. Seen(q)' = Seen(q)
  BY DEF Seen
<1>2. Fits(q)
  BY DEF RInv
<1>3. InGap(q)' <=> InGap(q)
  BY DEF InGap, Within, Less
<1> QED
  BY <1>1, <1>2, <1>3 DEF Fits

\* A step of one request that commits nothing.
LEMMA StepRInv ==
  ASSUME RInv, NEW r \in Reqs, cols' = cols,
         DOMAIN ask' = Reqs, DOMAIN pc' = Reqs, DOMAIN gap' = Reqs,
         todo' \in [Reqs -> Writes],
         held' \in [Reqs -> [ColumnIds -> StoredRanks \cup {Untouched}]],
         \A q \in Reqs \ {r} : /\ pc'[q] = pc[q] /\ ask'[q] = ask[q]
                               /\ todo'[q] = todo[q] /\ held'[q] = held[q]
                               /\ gap'[q] = gap[q]
                               /\ q \in fresh' => q \in fresh,
         ~muddled' => ~muddled, Positioned(r)',
         pc'[r] \notin {"idle", "done"} => ask'[r].column \in ColumnIds,
         pc'[r] \notin {"writing", "respacing"} => todo'[r] = <<>> /\ held'[r] = Nothing,
         pc'[r] \in {"idle", "sent"} => r \notin fresh',
         Fits(r)'
  PROVE  RInv'
<1>1. ServerTyped'
  <2>1. cols' \in Table
    BY DEF RInv, ServerTyped
  <2>2. \A q \in Reqs : pc'[q] \notin {"idle", "done"} => ask'[q].column \in ColumnIds
    BY DEF RInv, ServerTyped
  <2>3. \A q \in Reqs : pc'[q] \notin {"writing", "respacing"} => todo'[q] = <<>> /\ held'[q] = Nothing
    BY DEF RInv, ServerTyped
  <2>4. \A q \in Reqs : pc'[q] \in {"idle", "sent"} => q \notin fresh'
    BY DEF RInv, ServerTyped
  <2>5. \A q \in Reqs : Positioned(q)'
    BY DEF RInv, ServerTyped, Positioned
  <2> QED
    BY <2>1, <2>2, <2>3, <2>4, <2>5 DEF ServerTyped, Nothing
<1>2. DistinctRanks'
  BY DEF RInv, DistinctRanks, Distinct, Present
<1>3. \A q \in Reqs \ {r} : Fits(q)'
  BY OthersFit
<1> QED
  BY <1>1, <1>2, <1>3 DEF RInv

\* Nothing that the invariant speaks of changes.
LEMMA StillRInv ==
  ASSUME RInv, UNCHANGED <<cols, ask, pc, todo, held, gap, fresh, muddled>>
  PROVE  RInv'
BY DEF RInv, ServerTyped, DistinctRanks, Distinct, Present, Fits, InGap, Within, Less, Consistent,
       Kept, Seen, Nothing, Positioned

LEMMA FailRInv ==
  ASSUME RInv, NEW r \in Reqs, pc[r] \notin {"idle", "done"}, Fail(r)
  PROVE  RInv'
<1>1. /\ pc' = [pc EXCEPT ![r] = "failed"] /\ todo' = [todo EXCEPT ![r] = <<>>]
      /\ held' = [held EXCEPT ![r] = Nothing] /\ fresh' = fresh \ {r}
      /\ gap' = [gap EXCEPT ![r] = Everywhere]
      /\ cols' = cols /\ ask' = ask /\ muddled' = muddled
  BY DEF Fail
<1>2. Nothing \in [ColumnIds -> StoredRanks \cup {Untouched}] /\ <<>> \in Writes
  BY DEF Nothing, Writes
<1>3. /\ DOMAIN ask = Reqs /\ DOMAIN pc = Reqs /\ ask[r].column \in ColumnIds
      /\ DOMAIN gap = Reqs /\ Positioned(r)
      /\ todo \in [Reqs -> Writes]
      /\ held \in [Reqs -> [ColumnIds -> StoredRanks \cup {Untouched}]]
  BY DEF RInv, ServerTyped
<1>4. /\ todo' \in [Reqs -> Writes] /\ todo'[r] = <<>>
      /\ held' \in [Reqs -> [ColumnIds -> StoredRanks \cup {Untouched}]] /\ held'[r] = Nothing
      /\ pc'[r] = "failed" /\ DOMAIN pc' = Reqs
  BY <1>1, <1>2, <1>3
<1>5. \A q \in Reqs \ {r} : /\ pc'[q] = pc[q] /\ ask'[q] = ask[q]
                            /\ todo'[q] = todo[q] /\ held'[q] = held[q]
                            /\ gap'[q] = gap[q]
                            /\ q \in fresh' => q \in fresh
  BY <1>1, <1>3
<1>6. Fits(r)' /\ Positioned(r)' /\ DOMAIN gap' = Reqs
  BY <1>1, <1>3, <1>4 DEF Fits, Positioned
<1> QED
  BY <1>1, <1>3, <1>4, <1>5, <1>6, StepRInv

LEMMA InGapThen ==
  ASSUME NEW r, \A n \in 1 .. Len(todo'[r]) : Within(todo'[r][n].rank, gap'[r]),
         \A i \in ColumnIds : held'[r][i] # Untouched => Within(held'[r][i], gap'[r])
  PROVE  InGap(r)'
BY DEF InGap, Within, Less

\* A transaction begins with the writes it has computed.
LEMMA BeginRInv ==
  ASSUME RInv, NEW r \in Reqs, pc[r] = "sent", NEW writes \in Writes, NEW interval, NEW isFresh \in BOOLEAN,
         Begin(r, writes, interval, isFresh),
         \A n \in 1 .. Len(writes) : Within(writes[n].rank, interval),
         isFresh /\ Distinct(cols) => Consistent(writes, cols)
  PROVE  RInv'
<1>1. /\ pc' = [pc EXCEPT ![r] = "writing"] /\ todo' = [todo EXCEPT ![r] = writes]
      /\ gap' = [gap EXCEPT ![r] = interval]
      /\ fresh' = IF isFresh THEN fresh \cup {r} ELSE fresh
      /\ held' = held /\ cols' = cols /\ ask' = ask /\ muddled' = muddled
  BY DEF Begin
<1>2. /\ DOMAIN ask = Reqs /\ DOMAIN pc = Reqs /\ ask[r].column \in ColumnIds
      /\ DOMAIN gap = Reqs /\ Positioned(r)
      /\ todo \in [Reqs -> Writes] /\ held[r] = Nothing /\ r \notin fresh
      /\ held \in [Reqs -> [ColumnIds -> StoredRanks \cup {Untouched}]]
  BY DEF RInv, ServerTyped
<1>3. /\ todo' \in [Reqs -> Writes] /\ todo'[r] = writes
      /\ pc'[r] = "writing" /\ DOMAIN pc' = Reqs
  BY <1>1, <1>2
<1>4. \A q \in Reqs \ {r} : /\ pc'[q] = pc[q] /\ ask'[q] = ask[q]
                            /\ todo'[q] = todo[q] /\ held'[q] = held[q]
                            /\ gap'[q] = gap[q]
                            /\ q \in fresh' => q \in fresh
  BY <1>1, <1>2
<1>5. ASSUME r \in fresh', ~muddled' PROVE Consistent(todo[r], Seen(r))'
  <2>1. r \in fresh' /\ ~muddled'
    BY <1>5
  <2>2. isFresh /\ Distinct(cols)
    BY <1>1, <1>2, <2>1 DEF RInv, DistinctRanks
  <2>3. Seen(r) = cols
    BY <1>2, SeenIs DEF RInv
  <2>4. Seen(r)' = Seen(r)
    BY <1>1 DEF Seen
  <2>5. Consistent(writes, cols)
    BY <2>2
  <2>6. Consistent(todo'[r], Seen(r)')
    BY <1>3, <2>3, <2>4, <2>5
  <2> QED
    BY <2>6 DEF Consistent, Kept, Present
<1>6. InGap(r)'
  <2>1. \A i \in ColumnIds : held'[r][i] = Untouched
    BY <1>1, <1>2 DEF Nothing
  <2>2. gap'[r] = interval
    BY <1>1, <1>2
  <2> QED
    BY <1>3, <2>1, <2>2, InGapThen
<1>7. Fits(r)'
  BY <1>5, <1>6 DEF Fits
<1>8. Positioned(r)' /\ DOMAIN gap' = Reqs
  BY <1>1, <1>2 DEF Positioned
<1> QED
  BY <1>1, <1>2, <1>3, <1>4, <1>7, <1>8, StepRInv

LEMMA ReadForMoveRInv ==
  ASSUME RInv, NEW r \in Reqs, ReadForMove(r)
  PROVE  RInv'
<1> DEFINE others == Listed(cols, Present(cols) \ {ask[r].column})
           bounds == ResolveNeighborBounds(others, ask[r].before, ask[r].after, ask[r].position)
           writes == MoveWrites(r, others, bounds)
           interval == IntervalOf(bounds)
           isFresh == Adjacent(others, ask[r].before, ask[r].after)
<1>1. pc[r] = "sent" /\ cols \in Table /\ ask[r].column \in ColumnIds /\ Positioned(r)
  BY DEF ReadForMove, RInv, ServerTyped
<1>2. CASE Less(bounds.lower, bounds.upper)
  <2>1. Begin(r, writes, interval, isFresh)
    BY <1>2 DEF ReadForMove
  <2>2. /\ writes \in Writes
        /\ \A n \in 1 .. Len(writes) : Within(writes[n].rank, interval)
        /\ Distinct(cols) /\ isFresh => Consistent(writes, cols)
    <3> HIDE DEF others, bounds
    <3>1. /\ others = Listed(cols, Present(cols) \ {ask[r].column})
          /\ bounds = ResolveNeighborBounds(others, ask[r].before, ask[r].after, ask[r].position)
      BY DEF others, bounds
    <3> QED
      BY <1>1, <1>2, <3>1, MoveConsistent
  <2>3. isFresh \in BOOLEAN
    BY DEF Adjacent
  <2> HIDE DEF writes, interval, isFresh
  <2> QED
    BY <1>1, <2>1, <2>2, <2>3, BeginRInv
<1>3. CASE ~Less(bounds.lower, bounds.upper)
  <2>1. Fail(r)
    BY <1>3 DEF ReadForMove
  <2> QED
    BY <1>1, <2>1, FailRInv
<1> QED
  BY <1>2, <1>3

LEMMA ReadForCreateRInv ==
  ASSUME RInv, NEW r \in Reqs, ReadForCreate(r)
  PROVE  RInv'
<1> DEFINE writes == <<[id |-> ask[r].column, rank |-> Between(LastRank, Last)]>>
           interval == [lower |-> LastRank, upper |-> Last]
<1>1. /\ pc[r] = "sent" /\ cols \in Table /\ ask[r].column \in ColumnIds
      /\ Begin(r, writes, interval, TRUE)
  BY DEF ReadForCreate, RInv, ServerTyped
<1>2. /\ writes \in Writes
      /\ \A n \in 1 .. Len(writes) : Within(writes[n].rank, interval)
      /\ Distinct(cols) => Consistent(writes, cols)
  BY <1>1, CreateConsistent
<1> HIDE DEF writes, interval
<1> QED
  BY <1>1, <1>2, BeginRInv

LEMMA RelistRInv ==
  ASSUME RInv, NEW r \in Reqs, Relist(r)
  PROVE  RInv'
<1> DEFINE writes == Spaced(OrderOf(Seen(r)))
<1>1. /\ pc[r] = "writing"
      /\ pc' = [pc EXCEPT ![r] = "respacing"] /\ todo' = [todo EXCEPT ![r] = writes]
      /\ gap' = [gap EXCEPT ![r] = Everywhere] /\ fresh' = fresh \cup {r}
      /\ UNCHANGED <<cols, ask, held, muddled>>
  BY DEF Relist, Inserts
<1>2. writes \in Writes /\ Consistent(writes, Seen(r))
  BY SeenIs, OrderCovers, SpacedConsistent DEF RInv
<1> HIDE DEF writes
<1>3. /\ DOMAIN ask = Reqs /\ DOMAIN pc = Reqs /\ ask[r].column \in ColumnIds
      /\ DOMAIN gap = Reqs /\ Positioned(r)
      /\ todo \in [Reqs -> Writes]
      /\ held \in [Reqs -> [ColumnIds -> StoredRanks \cup {Untouched}]]
  BY <1>1 DEF RInv, ServerTyped
<1>4. /\ todo' \in [Reqs -> Writes] /\ todo'[r] = writes
      /\ pc'[r] = "respacing" /\ DOMAIN pc' = Reqs
  BY <1>1, <1>2, <1>3
<1>5. \A q \in Reqs \ {r} : /\ pc'[q] = pc[q] /\ ask'[q] = ask[q]
                            /\ todo'[q] = todo[q] /\ held'[q] = held[q]
                            /\ gap'[q] = gap[q]
                            /\ q \in fresh' => q \in fresh
  BY <1>1, <1>3
<1>6. Fits(r)'
  <2>1. Seen(r)' = Seen(r)
    BY <1>1 DEF Seen
  <2>2. \A n \in 1 .. Len(writes) : Within(writes[n].rank, Everywhere)
    BY <1>2, InsideEverywhere
  <2>3. \A i \in ColumnIds : held[r][i] # Untouched => Within(held[r][i], Everywhere)
    BY <1>3, StoredInside DEF Within, Everywhere
  <2>4. gap'[r] = Everywhere /\ held' = held
    BY <1>1, <1>3
  <2>5. InGap(r)'
    BY <1>4, <2>2, <2>3, <2>4, InGapThen
  <2> QED
    BY <1>2, <1>4, <2>1, <2>5 DEF Fits
<1>7. Positioned(r)' /\ DOMAIN gap' = Reqs
  BY <1>1, <1>3 DEF Positioned
<1> QED
  BY <1>1, <1>3, <1>4, <1>5, <1>6, <1>7, StepRInv

\* The rows that a transaction sees once it has made its next write.
LEMMA WriteIsSeen ==
  ASSUME RInv, NEW r \in Reqs, todo[r] # <<>>, cols' = cols,
         held' = [held EXCEPT ![r][Head(todo[r]).id] = Head(todo[r]).rank]
  PROVE  /\ todo[r] \in Writes /\ Tail(todo[r]) \in Writes
         /\ held' \in [Reqs -> [ColumnIds -> StoredRanks \cup {Untouched}]]
         /\ \A q \in Reqs \ {r} : held'[q] = held[q]
         /\ Seen(r)' = [Seen(r) EXCEPT ![Head(todo[r]).id] = Head(todo[r]).rank]
<1> DEFINE next == Head(todo[r])
<1>1. /\ todo[r] \in Writes
      /\ held \in [Reqs -> [ColumnIds -> StoredRanks \cup {Untouched}]]
  BY DEF RInv, ServerTyped
<1>2. next \in [id : ColumnIds, rank : StoredRanks] /\ Tail(todo[r]) \in Writes
  <2> DEFINE T == [id : ColumnIds, rank : StoredRanks]
  <2>1. todo[r] \in Seq(T)
    BY <1>1 DEF Writes
  <2> HIDE DEF T
  <2>2. next \in T /\ Tail(todo[r]) \in Seq(T)
    BY <2>1
  <2> QED
    BY <2>2 DEF T, Writes
<1>3. held' = [held EXCEPT ![r][next.id] = next.rank]
  OBVIOUS
<1> HIDE DEF next
<1>4. next.id \in ColumnIds /\ next.rank \in StoredRanks /\ next.rank # Untouched
  BY <1>2, RowAssumption DEF StoredRanks
<1>5. /\ held' \in [Reqs -> [ColumnIds -> StoredRanks \cup {Untouched}]]
      /\ held'[r] = [held[r] EXCEPT ![next.id] = next.rank]
      /\ \A q \in Reqs \ {r} : held'[q] = held[q]
  <2> DEFINE row == [held[r] EXCEPT ![next.id] = next.rank]
  <2>1. held' = [held EXCEPT ![r] = row]
    BY <1>3
  <2>2. row \in [ColumnIds -> StoredRanks \cup {Untouched}]
    BY <1>1, <1>4
  <2> HIDE DEF row
  <2>3. /\ held' \in [Reqs -> [ColumnIds -> StoredRanks \cup {Untouched}]]
        /\ held'[r] = row
        /\ \A q \in Reqs \ {r} : held'[q] = held[q]
    BY <1>1, <2>1, <2>2
  <2> QED
    BY <2>3 DEF row
<1>6. Seen(r)' = [Seen(r) EXCEPT ![next.id] = next.rank]
  <2>1. held[r] \in [ColumnIds -> StoredRanks \cup {Untouched}]
    BY <1>1
  <2>2. \A i \in ColumnIds : Seen(r)'[i] = IF i = next.id THEN next.rank ELSE Seen(r)[i]
    BY <1>4, <1>5, <2>1 DEF Seen
  <2>3. DOMAIN Seen(r) = ColumnIds /\ DOMAIN (Seen(r)') = ColumnIds
        /\ Seen(r)' = [i \in ColumnIds |-> Seen(r)'[i]]
    BY DEF Seen
  <2> QED
    BY <2>2, <2>3
<1> QED
  BY <1>1, <1>2, <1>5, <1>6 DEF next

\* A rank that is written was in the interval before.
LEMMA WriteInGap ==
  ASSUME RInv, NEW r \in Reqs, todo[r] # <<>>, InGap(r), gap' = gap,
         todo'[r] = Tail(todo[r]),
         held' = [held EXCEPT ![r][Head(todo[r]).id] = Head(todo[r]).rank]
  PROVE  InGap(r)'
<1> DEFINE writes == todo[r]
           row == held[r]
<1>1. /\ writes \in Writes /\ row \in [ColumnIds -> StoredRanks \cup {Untouched}]
      /\ held \in [Reqs -> [ColumnIds -> StoredRanks \cup {Untouched}]]
  BY DEF RInv, ServerTyped
<1>2. /\ \A n \in 1 .. Len(writes) : Within(writes[n].rank, gap[r])
      /\ \A i \in ColumnIds : row[i] # Untouched => Within(row[i], gap[r])
  BY DEF InGap
<1>3. held'[r] = [row EXCEPT ![Head(writes).id] = Head(writes).rank] /\ writes # <<>>
  BY <1>1
<1> HIDE DEF writes, row
<1>4. /\ Head(writes) = writes[1] /\ 1 \in 1 .. Len(writes)
      /\ \A n \in 1 .. Len(Tail(writes)) : Tail(writes)[n] = writes[n + 1] /\ n + 1 \in 1 .. Len(writes)
  BY <1>1, <1>3 DEF Writes
<1>5. \A n \in 1 .. Len(Tail(writes)) : Within(Tail(writes)[n].rank, gap[r])
  BY <1>2, <1>4
<1>6. \A i \in ColumnIds : held'[r][i] # Untouched => Within(held'[r][i], gap[r])
  BY <1>1, <1>2, <1>3, <1>4
<1>7. todo'[r] = Tail(writes) /\ gap'[r] = gap[r]
  BY DEF writes
<1> QED
  BY <1>5, <1>6, <1>7, InGapThen

LEMMA WriteRInv ==
  ASSUME RInv, NEW r \in Reqs, Write(r)
  PROVE  RInv'
<1> DEFINE next == Head(todo[r])
<1>1. pc[r] \in {"writing", "respacing"} /\ todo[r] # <<>>
  BY DEF Write
<1>2. CASE Fail(r)
  BY <1>1, <1>2, FailRInv
<1>3. CASE /\ held' = [held EXCEPT ![r][next.id] = next.rank]
           /\ todo' = [todo EXCEPT ![r] = Tail(@)]
           /\ UNCHANGED <<cols, ask, pc, result, wire, gap, fresh, muddled>>
  <2>1. /\ DOMAIN ask = Reqs /\ DOMAIN pc = Reqs /\ ask[r].column \in ColumnIds
        /\ DOMAIN gap = Reqs /\ Positioned(r)
        /\ todo \in [Reqs -> Writes]
    BY <1>1 DEF RInv, ServerTyped
  <2>2. /\ todo[r] \in Writes /\ Tail(todo[r]) \in Writes
        /\ held' \in [Reqs -> [ColumnIds -> StoredRanks \cup {Untouched}]]
        /\ \A q \in Reqs \ {r} : held'[q] = held[q]
        /\ Seen(r)' = [Seen(r) EXCEPT ![Head(todo[r]).id] = Head(todo[r]).rank]
    BY <1>1, <1>3, WriteIsSeen
  <2> HIDE DEF next
  <2>3. /\ todo' \in [Reqs -> Writes] /\ todo'[r] = Tail(todo[r])
        /\ \A q \in Reqs \ {r} : todo'[q] = todo[q]
    BY <1>3, <2>1, <2>2
  <2>4. Seen(r) \in Table
    BY SeenIs DEF RInv
  <2>5. ASSUME r \in fresh', ~muddled' PROVE Consistent(todo'[r], Seen(r)')
    <3>1. r \in fresh' /\ ~muddled'
      BY <2>5
    <3>2. Consistent(todo[r], Seen(r))
      BY <1>1, <1>3, <3>1 DEF RInv, Fits
    <3> DEFINE writes == todo[r]
               table  == Seen(r)
               after  == Seen(r)'
    <3>3. /\ writes \in Writes /\ writes # <<>> /\ table \in Table /\ Consistent(writes, table)
          /\ after = [table EXCEPT ![Head(writes).id] = Head(writes).rank]
      BY <1>1, <2>2, <2>4, <3>2
    <3> HIDE DEF writes, table, after
    <3>4. Consistent(Tail(writes), after)
      BY <3>3, WriteConsistent
    <3> QED
      BY <2>3, <3>4 DEF writes, after
  <2>6. ASSUME r \in fresh' PROVE InGap(r)'
    <3>1. InGap(r)
      BY <1>1, <1>3, <2>6 DEF RInv, Fits
    <3>2. /\ RInv /\ r \in Reqs /\ todo[r] # <<>> /\ gap' = gap /\ todo'[r] = Tail(todo[r])
          /\ held' = [held EXCEPT ![r][Head(todo[r]).id] = Head(todo[r]).rank]
      BY <1>1, <1>3, <2>3 DEF next
    <3> QED
      BY <3>1, <3>2, WriteInGap
  <2>7. Fits(r)'
    BY <2>5, <2>6 DEF Fits
  <2>8. Positioned(r)' /\ DOMAIN gap' = Reqs
    BY <1>3, <2>1 DEF Positioned
  <2> QED
    BY <1>1, <1>3, <2>1, <2>2, <2>3, <2>7, <2>8, StepRInv
<1> QED
  BY <1>2, <1>3 DEF Write

\* A commit that does not enter a request's interval leaves what that one writes as fitting
\* as it was: a row it sees has its rank of before, or one outside the interval.
LEMMA NotEntered ==
  ASSUME ServerTyped, NEW q \in Reqs, InGap(q), Consistent(todo[q], Seen(q)),
         NEW table \in Table, Distinct(table), ~Entered(q, table),
         NEW after, after = [i \in ColumnIds |-> IF held[q][i] = Untouched THEN table[i]
                                                 ELSE held[q][i]]
  PROVE  Consistent(todo[q], after)
<1> DEFINE writes == todo[q]
           row    == held[q]
           before == Seen(q)
<1>1. /\ writes \in Writes /\ row \in [ColumnIds -> StoredRanks \cup {Untouched}]
      /\ before = [i \in ColumnIds |-> IF row[i] = Untouched THEN cols[i] ELSE row[i]]
      /\ Consistent(writes, before)
  BY DEF ServerTyped, Seen
<1>2. /\ \A n \in 1 .. Len(writes) : Within(writes[n].rank, gap[q])
      /\ \A i \in ColumnIds : row[i] # Untouched => Within(row[i], gap[q])
  BY DEF InGap
<1>3. \A i \in Present(table) : row[i] = Untouched /\ (\A n \in 1 .. Len(writes) : writes[n].id # i)
                                  => table[i] = cols[i] \/ ~Within(table[i], gap[q])
  BY DEF Entered, LeavesAlone
<1>4. after = [i \in ColumnIds |-> IF row[i] = Untouched THEN table[i] ELSE row[i]]
  OBVIOUS
<1> HIDE DEF writes, row, before
<1>5. \A i \in Kept(writes, after) :
        /\ i \in ColumnIds /\ after[i] # Gone
        /\ \/ row[i] = Untouched /\ after[i] = table[i] /\ i \in Present(table)
           \/ row[i] # Untouched /\ after[i] = row[i] /\ Within(after[i], gap[q])
        /\ \/ i \in Kept(writes, before) /\ before[i] = after[i]
           \/ row[i] = Untouched /\ ~Within(after[i], gap[q])
  BY <1>1, <1>2, <1>3, <1>4 DEF Kept, Present
<1>6. \A i \in Kept(writes, after), n \in 1 .. Len(writes) : after[i] # writes[n].rank
  BY <1>1, <1>2, <1>5 DEF Consistent
<1>7. \A i, j \in Kept(writes, after) : after[i] = after[j] => i = j
  <2> SUFFICES ASSUME NEW i \in Kept(writes, after), NEW j \in Kept(writes, after),
                      after[i] = after[j]
               PROVE  i = j
    OBVIOUS
  <2>1. CASE row[i] = Untouched /\ row[j] = Untouched
    BY <1>5, <2>1 DEF Distinct
  <2>2. CASE row[i] # Untouched \/ row[j] # Untouched
    <3>1. Within(after[i], gap[q]) /\ Within(after[j], gap[q])
      BY <1>5, <2>2
    <3>2. /\ i \in Kept(writes, before) /\ before[i] = after[i]
          /\ j \in Kept(writes, before) /\ before[j] = after[j]
      BY <1>5, <3>1
    <3> QED
      BY <1>1, <3>2 DEF Consistent
  <2> QED
    BY <2>1, <2>2
<1>8. \A m, n \in 1 .. Len(writes) :
        m # n => writes[m].id # writes[n].id /\ writes[m].rank # writes[n].rank
  BY <1>1 DEF Consistent
<1>9. Consistent(writes, after)
  BY <1>6, <1>7, <1>8 DEF Consistent
<1> QED
  BY <1>9 DEF writes

\* After a commit, what those whose interval it has not entered write still fits.
LEMMA CommittedRInv ==
  ASSUME RInv, NEW r \in Reqs, pc[r] \notin {"idle", "done"}, todo[r] = <<>>,
         NEW table \in Table, Committed(r, table),
         held' = [held EXCEPT ![r] = Nothing],
         ~muddled' => ~muddled /\ Distinct(table)
  PROVE  RInv'
<1>1. /\ cols' = table /\ pc' = [pc EXCEPT ![r] = "committed"]
      /\ fresh' = {q \in fresh \ {r} : ~Entered(q, table)}
      /\ gap' = [gap EXCEPT ![r] = Everywhere]
      /\ ask' = ask /\ todo' = todo
  BY DEF Committed
<1>2. /\ DOMAIN ask = Reqs /\ DOMAIN pc = Reqs /\ DOMAIN gap = Reqs
      /\ ask[r].column \in ColumnIds
      /\ todo \in [Reqs -> Writes]
      /\ held \in [Reqs -> [ColumnIds -> StoredRanks \cup {Untouched}]]
  BY DEF RInv, ServerTyped
<1>3. Nothing \in [ColumnIds -> StoredRanks \cup {Untouched}]
  BY DEF Nothing
<1>4. /\ held' \in [Reqs -> [ColumnIds -> StoredRanks \cup {Untouched}]] /\ held'[r] = Nothing
      /\ \A q \in Reqs \ {r} : held'[q] = held[q] /\ gap'[q] = gap[q]
      /\ pc'[r] = "committed" /\ DOMAIN pc' = Reqs /\ DOMAIN gap' = Reqs
      /\ \A q \in Reqs \ {r} : pc'[q] = pc[q]
  BY <1>1, <1>2, <1>3
<1>5. Fits(r)'
  BY <1>4 DEF Fits
<1>6. ASSUME NEW q \in Reqs \ {r} PROVE Fits(q)'
  <2> SUFFICES ASSUME q \in fresh', pc'[q] \in {"writing", "respacing"}
               PROVE  InGap(q)' /\ (~muddled' => Consistent(todo[q], Seen(q))')
    BY DEF Fits
  <2>1. q \in fresh /\ ~Entered(q, table) /\ pc[q] \in {"writing", "respacing"}
    BY <1>1, <1>4
  <2>2. InGap(q) /\ (~muddled => Consistent(todo[q], Seen(q)))
    BY <2>1 DEF RInv, Fits
  <2>3. InGap(q)'
    BY <1>1, <1>4, <2>2 DEF InGap, Within, Less
  <2>4. ASSUME ~muddled' PROVE Consistent(todo'[q], Seen(q)')
    <3> DEFINE after == [i \in ColumnIds |-> IF held[q][i] = Untouched THEN table[i]
                                             ELSE held[q][i]]
    <3>1. Seen(q)' = after
      BY <1>1, <1>4 DEF Seen
    <3>2. ServerTyped /\ Distinct(table) /\ Consistent(todo[q], Seen(q))
      BY <2>2, <2>4 DEF RInv
    <3>3. Consistent(todo[q], after)
      BY <2>1, <2>2, <3>2, NotEntered
    <3> HIDE DEF after
    <3> QED
      BY <1>1, <3>1, <3>3
  <2> QED
    BY <2>3, <2>4 DEF Consistent, Kept, Present
<1>7. ServerTyped'
  <2>1. \A q \in Reqs : pc'[q] \notin {"idle", "done"} => ask'[q].column \in ColumnIds
    BY <1>1, <1>2, <1>4 DEF RInv, ServerTyped
  <2>2. \A q \in Reqs : pc'[q] \notin {"writing", "respacing"} => todo'[q] = <<>> /\ held'[q] = Nothing
    BY <1>1, <1>4 DEF RInv, ServerTyped
  <2>3. \A q \in Reqs : pc'[q] \in {"idle", "sent"} => q \notin fresh'
    BY <1>1, <1>4 DEF RInv, ServerTyped
  <2>4. \A q \in Reqs : Positioned(q)'
    BY <1>1 DEF RInv, ServerTyped, Positioned
  <2> QED
    BY <1>1, <1>2, <1>4, <2>1, <2>2, <2>3, <2>4 DEF ServerTyped, Nothing
<1>8. DistinctRanks'
  BY <1>1 DEF DistinctRanks, Distinct, Present
<1> QED
  BY <1>5, <1>6, <1>7, <1>8 DEF RInv

\* Once all writes are made, the rows a transaction sees are those it commits.
LEMMA CommitRInv ==
  ASSUME RInv, NEW r \in Reqs, Commit(r)
  PROVE  RInv'
<1> DEFINE table == Seen(r)
<1>1. /\ pc[r] \in {"writing", "respacing"} /\ todo[r] = <<>>
      /\ Committed(r, table) /\ held' = [held EXCEPT ![r] = Nothing]
      /\ muddled' = (muddled \/ r \notin fresh)
  BY DEF Commit
<1>2. table \in Table
  BY SeenIs DEF RInv
<1>3. ~muddled' => ~muddled /\ Distinct(table)
  <2>1. SUFFICES ASSUME ~muddled' PROVE ~muddled /\ Distinct(table)
    OBVIOUS
  <2>2. ~muddled /\ r \in fresh
    BY <1>1, <2>1
  <2>3. Consistent(<<>>, table)
    BY <1>1, <2>2 DEF RInv, Fits
  <2> HIDE DEF table
  <2>4. Kept(<<>>, table) = Present(table)
    BY DEF Kept
  <2> QED
    BY <2>2, <2>3, <2>4 DEF Consistent, Distinct
<1> HIDE DEF table
<1> QED
  BY <1>1, <1>2, <1>3, CommittedRInv

\* A rename leaves the rows as they are, a remove takes one away.
LEMMA StatementRInv ==
  ASSUME RInv, NEW r \in Reqs, Statement(r)
  PROVE  RInv'
<1>1. pc[r] = "sent" /\ todo[r] = <<>> /\ held[r] = Nothing /\ cols \in Table
      /\ held \in [Reqs -> [ColumnIds -> StoredRanks \cup {Untouched}]]
  BY DEF Statement, RInv, ServerTyped
<1>2. CASE Fail(r)
  BY <1>1, <1>2, FailRInv
<1>3. CASE /\ Committed(r, IF ask[r].kind = "rename" THEN cols
                           ELSE [cols EXCEPT ![ask[r].column] = Gone])
           /\ UNCHANGED <<held, muddled>>
  <2> DEFINE table == IF ask[r].kind = "rename" THEN cols
                      ELSE [cols EXCEPT ![ask[r].column] = Gone]
  <2>1. table \in Table /\ \A i \in Present(table) : i \in Present(cols) /\ table[i] = cols[i]
    BY <1>1 DEF Table, Present
  <2>2. Committed(r, table)
    BY <1>3
  <2> HIDE DEF table
  <2>3. Distinct(cols) => Distinct(table)
    BY <2>1 DEF Distinct
  <2>4. ~muddled' => ~muddled /\ Distinct(table)
    BY <1>3, <2>3 DEF RInv, DistinctRanks
  <2>5. held' = [held EXCEPT ![r] = Nothing]
    BY <1>1, <1>3
  <2> QED
    BY <1>1, <2>1, <2>2, <2>4, <2>5, CommittedRInv
<1> QED
  BY <1>2, <1>3 DEF Statement

\* A step that changes no transaction, and of the requests only one.
LEMMA QuietRInv ==
  ASSUME RInv, NEW r \in Reqs, NEW stage,
         UNCHANGED <<cols, todo, held, gap, fresh, muddled>>, pc' = [pc EXCEPT ![r] = stage],
         DOMAIN ask' = Reqs, \A q \in Reqs \ {r} : ask'[q] = ask[q], Positioned(r)',
         pc[r] \notin {"writing", "respacing"}, stage \notin {"idle", "writing", "respacing"},
         stage # "done" => ask'[r].column \in ColumnIds,
         stage = "sent" => pc[r] = "idle"
  PROVE  RInv'
<1>1. /\ DOMAIN pc = Reqs /\ DOMAIN gap = Reqs /\ todo[r] = <<>> /\ held[r] = Nothing
      /\ todo \in [Reqs -> Writes]
      /\ held \in [Reqs -> [ColumnIds -> StoredRanks \cup {Untouched}]]
      /\ pc[r] = "idle" => r \notin fresh
  BY DEF RInv, ServerTyped
<1>2. /\ DOMAIN pc' = Reqs /\ pc'[r] = stage
      /\ \A q \in Reqs \ {r} : /\ pc'[q] = pc[q] /\ ask'[q] = ask[q]
                               /\ todo'[q] = todo[q] /\ held'[q] = held[q]
                               /\ gap'[q] = gap[q]
                               /\ q \in fresh' => q \in fresh
  BY <1>1
<1>3. Fits(r)'
  BY <1>2 DEF Fits
<1> QED
  BY <1>1, <1>2, <1>3, StepRInv

LEMMA AnnounceRInv ==
  ASSUME RInv, NEW r \in Reqs, Announce(r)
  PROVE  RInv'
<1>1. /\ pc[r] = "committed" /\ pc' = [pc EXCEPT ![r] = "ok"]
      /\ UNCHANGED <<cols, ask, todo, held, gap, fresh, muddled>>
  BY DEF Announce
<1>2. DOMAIN ask = Reqs /\ ask[r].column \in ColumnIds /\ Positioned(r)'
  BY <1>1 DEF RInv, ServerTyped, Positioned
<1> QED
  BY <1>1, <1>2, QuietRInv

LEMMA HandleRInv ==
  ASSUME RInv, NEW r \in Reqs, Handle(r)
  PROVE  RInv'
<1>1. CASE DeadlockVictim(r)
  <2>1. Fail(r) /\ \E q \in Reqs : WaitsFor(r, q)
    BY <1>1 DEF DeadlockVictim
  <2>2. pc[r] \in {"writing", "respacing"}
    BY <2>1 DEF WaitsFor, RInv, ServerTyped
  <2> QED
    BY <2>1, <2>2, FailRInv
<1> QED
  BY <1>1, ReadForMoveRInv, ReadForCreateRInv, RelistRInv, WriteRInv, CommitRInv, StatementRInv,
     AnnounceRInv DEF Handle

\* What the page does to the requests: it sends one, or takes its answer.
LEMMA DropColumnRInv ==
  ASSUME RInv, NEW over, DropColumn(over)
  PROVE  RInv'
<1> DEFINE final == MoveOnto(columnOrder, grabbed, over)
<1>1. CASE UNCHANGED server
  BY <1>1, StillRInv DEF server
<1>2. CASE \E r \in Own : pc[r] = "idle" /\ MoveColumn(r, grabbed, final)
  <2>1. PICK r \in Own : pc[r] = "idle" /\ MoveColumn(r, grabbed, final)
    BY <1>2
  <2>2. /\ r \in Reqs /\ grabbed \in ColumnIds /\ DOMAIN ask = Reqs
    BY OwnAssumption DEF DropColumn, RInv, ServerTyped
  <2>3. /\ pc' = [pc EXCEPT ![r] = "sent"]
        /\ ask' = [ask EXCEPT ![r] = [kind |-> "move", column |-> grabbed,
                                      before |-> NeighborsOf(final, grabbed).before,
                                      after  |-> NeighborsOf(final, grabbed).after,
                                      position |-> None]]
        /\ UNCHANGED <<cols, todo, held, gap, fresh, muddled>>
    BY <2>1 DEF MoveColumn
  <2> HIDE DEF final
  <2>4. /\ DOMAIN ask' = Reqs /\ ask'[r].column = grabbed /\ Positioned(r)'
        /\ \A q \in Reqs \ {r} : ask'[q] = ask[q]
    BY <2>2, <2>3 DEF Positioned
  <2> QED
    BY <2>1, <2>2, <2>3, <2>4, QuietRInv
<1> QED
  BY <1>1, <1>2 DEF DropColumn

LEMMA AnswerColumnRInv ==
  ASSUME RInv, NEW r \in Reqs, AnswerColumn(r)
  PROVE  RInv'
<1>1. /\ pc[r] \in {"ok", "failed"} /\ pc' = [pc EXCEPT ![r] = "done"]
      /\ UNCHANGED <<cols, ask, todo, held, gap, fresh, muddled>>
  BY DEF AnswerColumn
<1>2. DOMAIN ask = Reqs /\ Positioned(r)'
  BY <1>1, OwnAssumption DEF RInv, ServerTyped, Positioned
<1> QED
  BY <1>1, <1>2, QuietRInv

LEMMA NextRInv == RInv /\ [Next]_vars => RInv'
<1> SUFFICES ASSUME RInv, [Next]_vars PROVE RInv'
  OBVIOUS
<1>1. CASE \E r \in Reqs : Serve(r) \/ AnswerColumn(r)
  BY <1>1, HandleRInv, AnswerColumnRInv DEF Serve
<1>2. CASE \E i \in ColumnIds : PickUpColumn(i) \/ DropColumn(i)
  BY <1>2, DropColumnRInv, StillRInv DEF PickUpColumn, server
<1>3. CASE \E k \in Cards : PickUpCard(k) \/ RemoteCard(k)
  BY <1>3, StillRInv DEF PickUpCard, RemoteCard, server
<1>4. CASE \E over \in Cards \cup ColumnIds : DragOver(over) \/ DropCard(over)
  BY <1>4, StillRInv DEF DragOver, DropCard, MoveTask, server
<1>5. CASE DragCancel
  BY <1>5, StillRInv DEF DragCancel, server
<1>6. CASE \E m \in CardCalls : Undo(m) \/ (\E ok \in BOOLEAN : AnswerCard(m, ok))
  BY <1>6, StillRInv DEF Undo, AnswerCard, server
<1>7. CASE Deliver
  BY <1>7, StillRInv DEF Deliver
<1>8. CASE Done \/ UNCHANGED vars
  BY <1>8, StillRInv DEF Done, vars, server
<1> QED
  BY <1>1, <1>2, <1>3, <1>4, <1>5, <1>6, <1>7, <1>8 DEF Next

\* For any board, any number of columns and requests, and every alphabet: while no request
\* commits ranks of an interval that another has entered since it read, or for neighbours
\* that had come apart, no two columns have one rank, however the requests overlap:
\* re-spacings, creations, removals and failed requests included.
THEOREM RanksStayDistinct == Spec => []DistinctRanks
<1>1. RInv => DistinctRanks
  BY DEF RInv
<1> QED
  BY <1>1, InitRInv, NextRInv, PTL DEF Spec

-----------------------------------------------------------------------------
(* The order of the columns. *)

Entry(i, k) == [id |-> i, rank |-> k]

\* Columns that stand in the order of their rows.
Ascending(s, table) ==
  \A m, n \in 1 .. Len(s) :
    m < n => Before(Entry(s[m], table[s[m]]), Entry(s[n], table[s[n]]))

\* A list of columns in that order is the one a query returns.
LEMMA ListingIs ==
  ASSUME NEW table \in Table, NEW ids, ids \subseteq Present(table),
         NEW s \in Seq(ids), \A i \in ids : \E n \in 1 .. Len(s) : s[n] = i,
         Ascending(s, table)
  PROVE  IdsOf(Listed(table, ids)) = s
<1> DEFINE found == RankedRows(ids, table)
           N == Len(s)
           list == [n \in 1 .. N |-> Entry(s[n], table[s[n]])]
           listed == Ordered(found)
<1>1. \A i \in ids : i \in ColumnIds /\ i \in Nat /\ table[i] \in StoredRanks
  BY ColumnAssumption DEF Table, Present
<1>2. IsFiniteSet(ids) /\ ids \subseteq Nat
  BY <1>1, ColumnAssumption, FS_Subset
<1>3. Rows(found)
  BY <1>1, <1>2, RankedRowsAre
<1>4. N \in Nat /\ \A n \in 1 .. N : s[n] \in ids
  OBVIOUS
<1>5. found = {Entry(i, table[i]) : i \in ids}
  BY DEF RankedRows, Entry
<1> HIDE DEF found, N
<1>6. list \in [1 .. N -> found]
  BY <1>4, <1>5
<1>7. \A y \in found : \E n \in 1 .. N : list[n] = y
  BY <1>4, <1>5 DEF N
<1>8. \A m, n \in 1 .. N : m < n => Before(list[m], list[n])
  BY DEF Ascending, N
<1>9. \A n \in 1 .. N : list[n].id = s[n]
  BY DEF Entry
<1> HIDE DEF list
<1>10. Len(listed) = N /\ \A n \in 1 .. N : listed[n] = list[n]
  BY <1>3, <1>4, <1>6, <1>7, <1>8, OrderedIs
<1> HIDE DEF listed
<1>11. IdsOf(listed) = [n \in 1 .. N |-> s[n]]
  BY <1>9, <1>10 DEF IdsOf
<1>12. s = [n \in 1 .. N |-> s[n]]
  BY DEF N
<1> QED
  BY <1>11, <1>12 DEF Listed, listed, found

LEMMA ListingAscends ==
  ASSUME NEW table \in Table, NEW ids, ids \subseteq Present(table),
         NEW s, s = IdsOf(Listed(table, ids))
  PROVE  Ascending(s, table)
<1> DEFINE found == RankedRows(ids, table)
           list == Listed(table, ids)
<1>1. \A i \in ids : i \in ColumnIds /\ i \in Nat /\ table[i] \in StoredRanks
  BY ColumnAssumption DEF Table, Present
<1>2. IsFiniteSet(ids) /\ ids \subseteq Nat
  BY <1>1, ColumnAssumption, FS_Subset
<1>3. Rows(found)
  BY <1>1, <1>2, RankedRowsAre
<1>4. list = Ordered(found)
  BY DEF Listed
<1>5. \A y \in found : y = Entry(y.id, table[y.id])
  BY DEF RankedRows, Entry
<1> HIDE DEF found, list
<1>6. /\ Len(list) \in Nat
      /\ \A n \in 1 .. Len(list) : list[n] \in found
      /\ \A m, n \in 1 .. Len(list) : m < n => Before(list[m], list[n])
  BY <1>3, <1>4, OrderedPlaces
<1>7. Len(s) = Len(list) /\ \A n \in 1 .. Len(list) : s[n] = list[n].id
  BY <1>6 DEF IdsOf, list
<1>8. \A n \in 1 .. Len(s) : list[n] = Entry(s[n], table[s[n]])
  BY <1>5, <1>6, <1>7
<1> QED
  BY <1>6, <1>7, <1>8 DEF Ascending

\* The columns but one, in order.
LEMMA CutListing ==
  ASSUME NEW table \in Table, NEW s \in Seq(ColumnIds), s = OrderOf(table),
         NEW i \in 1 .. Len(s), NEW x, x = s[i]
  PROVE  Cut(s, i) = IdsOf(Listed(table, Present(table) \ {x}))
<1> DEFINE ids == Present(table) \ {x}
           w == Cut(s, i)
           from(n) == IF n < i THEN n ELSE n + 1
<1>1. /\ s \in Seq(ColumnIds) /\ Len(s) \in Nat
      /\ \A n \in 1 .. Len(s) : s[n] \in Present(table)
      /\ \A m, n \in 1 .. Len(s) : m # n => s[m] # s[n]
      /\ \A j \in Present(table) : \E n \in 1 .. Len(s) : s[n] = j
  BY IdsAre DEF OrderOf
<1>2. Ascending(s, table)
  BY ListingAscends DEF OrderOf
<1>3. /\ w \in Seq(ColumnIds) /\ Len(w) = Len(s) - 1
      /\ \A n \in 1 .. (i - 1) : w[n] = s[n]
      /\ \A n \in i .. (Len(s) - 1) : w[n] = s[n + 1]
  <2>1. w \in Seq(ColumnIds) /\ MovedUp(w, s, i)
    BY RemovedAt
  <2> HIDE DEF w
  <2> QED
    BY <2>1 DEF MovedUp
<1> HIDE DEF w
<1>4. \A n \in 1 .. Len(w) : /\ from(n) \in 1 .. Len(s) /\ from(n) # i
                             /\ w[n] = s[from(n)]
  <2> SUFFICES ASSUME NEW n \in 1 .. Len(w)
               PROVE  from(n) \in 1 .. Len(s) /\ from(n) # i /\ w[n] = s[from(n)]
    OBVIOUS
  <2>1. CASE n < i
    <3>1. n \in 1 .. (i - 1) /\ n \in 1 .. Len(s) /\ n # i /\ from(n) = n
      BY <1>1, <1>3, <2>1
    <3> QED
      BY <1>3, <3>1
  <2>2. CASE ~(n < i)
    <3>1. n \in i .. (Len(s) - 1) /\ n + 1 \in 1 .. Len(s) /\ n + 1 # i /\ from(n) = n + 1
      BY <1>1, <1>3, <2>2
    <3> QED
      BY <1>3, <3>1
  <2> QED
    BY <2>1, <2>2
<1>5. \A m, n \in 1 .. Len(w) : m < n => from(m) < from(n)
  BY <1>1, <1>3
<1>6. \A n \in 1 .. Len(s) : n # i => \E m \in 1 .. Len(w) : from(m) = n
  <2> SUFFICES ASSUME NEW n \in 1 .. Len(s), n # i PROVE \E m \in 1 .. Len(w) : from(m) = n
    OBVIOUS
  <2>1. CASE n < i
    <3>1. n \in 1 .. Len(w) /\ from(n) = n
      BY <1>1, <1>3, <2>1
    <3> QED
      BY <3>1
  <2>2. CASE n > i
    <3>1. n - 1 \in 1 .. Len(w) /\ from(n - 1) = n
      BY <1>1, <1>3, <2>2
    <3> QED
      BY <3>1
  <2> QED
    BY <1>1, <2>1, <2>2
<1> HIDE DEF from
<1>7. \A n \in 1 .. Len(w) : w[n] \in ids
  BY <1>1, <1>4
<1>8. w \in Seq(ids)
  <2>1. w \in [1 .. Len(w) -> ids] /\ Len(w) \in Nat
    BY <1>1, <1>3, <1>7
  <2> HIDE DEF ids
  <2> QED
    BY <2>1
<1>9. \A j \in ids : \E n \in 1 .. Len(w) : w[n] = j
  <2> SUFFICES ASSUME NEW j \in ids PROVE \E n \in 1 .. Len(w) : w[n] = j
    OBVIOUS
  <2>1. PICK n \in 1 .. Len(s) : s[n] = j
    BY <1>1
  <2>2. n # i
    BY <2>1
  <2>3. PICK m \in 1 .. Len(w) : from(m) = n
    BY <1>6, <2>2
  <2> QED
    BY <1>4, <2>1, <2>3
<1>10. Ascending(w, table)
  <2> SUFFICES ASSUME NEW m \in 1 .. Len(w), NEW n \in 1 .. Len(w), m < n
               PROVE  Before(Entry(w[m], table[w[m]]), Entry(w[n], table[w[n]]))
    BY DEF Ascending
  <2>1. from(m) < from(n) /\ from(m) \in 1 .. Len(s) /\ from(n) \in 1 .. Len(s)
    BY <1>4, <1>5
  <2> QED
    BY <1>2, <1>4, <2>1 DEF Ascending
<1>11. ids \subseteq Present(table)
  OBVIOUS
<1> HIDE DEF ids
<1> QED
  BY <1>8, <1>9, <1>10, <1>11, ListingIs DEF ids, w

-----------------------------------------------------------------------------
(* What a column's request will bring about. *)

\* The ranks a row can have once the writes are made: one, when none is for the same row.
Finals(writes, table, i) ==
  LET planned == {n \in 1 .. Len(writes) : writes[n].id = i}
  IN  IF planned # {} THEN {writes[n].rank : n \in planned} ELSE {table[i]}

\* The ranks that the rows of the list end up with ascend.
InOrder(writes, table, order) ==
  \A m, n \in 1 .. Len(order) :
    m < n => \A j \in Finals(writes, table, order[m]), k \in Finals(writes, table, order[n]) :
               Before(Entry(order[m], j), Entry(order[n], k))

\* The writes, made on the table, leave the columns in this order.
Shows(writes, table, order) ==
  /\ Covers(order, table)
  /\ \A n \in 1 .. Len(order) : order[n] \in Present(table)
  /\ InOrder(writes, table, order)

\* A request puts its column among the others, between its neighbours.
Asked(order, a) ==
  LET s == IdsOf(Listed(cols, Present(cols) \ {a.column}))
  IN  /\ a.column \in Present(cols)
      /\ \E k \in 0 .. Len(s) :
           /\ order = SX!InsertAt(s, k + 1, a.column)
           /\ a.before = (IF k > 0 THEN s[k] ELSE None)
           /\ a.after = (IF k < Len(s) THEN s[k + 1] ELSE None)

\* Where an id stands in a list.
LEMMA AtIs ==
  ASSUME NEW s, Len(s) \in Nat, NEW x
  PROVE  /\ At(s, x) \in 0 .. Len(s)
         /\ At(s, x) > 0 => s[At(s, x)] = x
         /\ At(s, x) = 0 => \A n \in 1 .. Len(s) : s[n] # x
<1>1. CASE \E n \in 1 .. Len(s) : s[n] = x
  <2> DEFINE k == CHOOSE n \in 1 .. Len(s) : s[n] = x
  <2>1. k \in 1 .. Len(s) /\ s[k] = x /\ At(s, x) = k
    BY <1>1 DEF At, SX!Contains
  <2> HIDE DEF k
  <2> QED
    BY <2>1
<1>2. CASE ~\E n \in 1 .. Len(s) : s[n] = x
  BY <1>2 DEF At, SX!Contains
<1> QED
  BY <1>1, <1>2

\* A column that is dropped elsewhere is asked to be put there.
LEMMA DropAsked ==
  ASSUME cols \in Table, NEW x, NEW over,
         NEW final, final = MoveOnto(OrderOf(cols), x, over),
         NEW a, a.column = x, a.before = NeighborsOf(final, x).before,
         a.after = NeighborsOf(final, x).after,
         NeighborsOf(final, x) # NeighborsOf(OrderOf(cols), x)
  PROVE  Asked(final, a)
<1> DEFINE t == OrderOf(cols)
           ids == Present(cols) \ {x}
           s == IdsOf(Listed(cols, ids))
           i == At(t, x)
           k == At(t, over) - 1
<1>1. /\ t \in Seq(ColumnIds) /\ Len(t) \in Nat
      /\ \A n \in 1 .. Len(t) : t[n] \in Present(cols)
  BY IdsAre DEF OrderOf
<1>2. ~(At(t, x) = 0 \/ At(t, over) = 0)
  BY DEF MoveOnto
<1>3. /\ i \in 1 .. Len(t) /\ t[i] = x /\ k + 1 \in 1 .. Len(t) /\ k \in Int
      /\ At(t, over) = k + 1
  <2> HIDE DEF t
  <2> QED
    BY <1>1, <1>2, AtIs
<1>4. Without(t, x) = Cut(t, i)
  BY <1>2 DEF Without, Cut, SX!RemoveAt
<1>5. Cut(t, i) = s
  BY <1>1, <1>3, CutListing
<1>6. final = SX!InsertAt(s, k + 1, x)
  <2>1. final = SX!InsertAt(Without(t, x), At(t, over), x)
    BY <1>2 DEF MoveOnto
  <2>2. At(t, over) = k + 1
    BY <1>3
  <2> QED
    BY <1>4, <1>5, <2>1, <2>2
<1>7. Len(s) = Len(t) - 1
  <2> HIDE DEF t, s, i
  <2> QED
    BY <1>1, <1>3, <1>5, RemovedAt DEF MovedUp
<1>8. /\ s \in Seq(ColumnIds) /\ \A n \in 1 .. Len(s) : s[n] # x
      /\ \A m, n \in 1 .. Len(s) : m # n => s[m] # s[n]
  <2>1. ids \subseteq Present(cols) /\ x \notin ids
    OBVIOUS
  <2> HIDE DEF ids
  <2> QED
    BY <2>1, IdsAre
<1>9. x \in Present(cols) /\ x \in ColumnIds
  BY <1>1, <1>3 DEF Present
<1> HIDE DEF t, s, i, k
<1>10. k + 1 \in 1 .. (Len(s) + 1) /\ k \in 0 .. Len(s) /\ Len(s) \in Nat
  BY <1>1, <1>3, <1>7
<1>11. final = Splice(s, k + 1, x)
  BY <1>6 DEF SX!InsertAt, Splice
<1>12. /\ final \in Seq(ColumnIds) /\ Len(final) = Len(s) + 1
       /\ final[k + 1] = x
       /\ \A n \in 1 .. k : final[n] = s[n]
       /\ \A n \in (k + 1) .. Len(s) : final[n + 1] = s[n]
       /\ \A m, n \in 1 .. Len(final) : m # n => final[m] # final[n]
  <2> DEFINE j == k + 1
  <2>1. j \in 1 .. (Len(s) + 1) /\ final = Splice(s, j, x)
    BY <1>10, <1>11
  <2> HIDE DEF j
  <2>2. /\ final \in Seq(ColumnIds) /\ Len(final) = Len(s) + 1
        /\ final[j] = x
        /\ \A n \in 1 .. (j - 1) : final[n] = s[n]
        /\ \A n \in j .. Len(s) : final[n + 1] = s[n]
        /\ \A m, n \in 1 .. Len(final) : m # n => final[m] # final[n]
    <3>1. /\ s \in Seq(ColumnIds) /\ x \in ColumnIds
          /\ \A m, n \in 1 .. Len(s) : m # n => s[m] # s[n]
          /\ \A n \in 1 .. Len(s) : s[n] # x
      BY <1>8, <1>9
    <3> QED
      BY <2>1, <3>1, Spliced, SMTT(30)
  <2>3. j = k + 1 /\ j - 1 = k
    BY <1>10 DEF j
  <2> QED
    BY <2>2, <2>3
<1>13. At(final, x) = k + 1
  <2>0. Len(final) \in Nat
    BY <1>10, <1>12
  <2>1. /\ At(final, x) \in 0 .. Len(final)
        /\ At(final, x) > 0 => final[At(final, x)] = x
        /\ At(final, x) = 0 => \A n \in 1 .. Len(final) : final[n] # x
    BY <2>0, AtIs
  <2>2. k + 1 \in 1 .. Len(final)
    BY <1>10, <1>12
  <2> QED
    BY <1>12, <2>1, <2>2
<1>14. a.before = (IF k > 0 THEN s[k] ELSE None)
  <2>1. a.before = IF At(final, x) > 1 THEN final[At(final, x) - 1] ELSE None
    BY DEF NeighborsOf
  <2>2. k > 0 => k \in 1 .. k /\ k + 1 > 1 /\ k + 1 - 1 = k
    BY <1>10
  <2>3. ~(k > 0) => ~(k + 1 > 1)
    BY <1>10
  <2> QED
    BY <1>12, <1>13, <2>1, <2>2, <2>3
<1>15. a.after = (IF k < Len(s) THEN s[k + 1] ELSE None)
  <2>1. a.after = IF k + 1 > 0 /\ k + 1 < Len(final) THEN final[k + 1 + 1] ELSE None
    BY <1>13 DEF NeighborsOf
  <2>2. k < Len(s) => k + 1 \in (k + 1) .. Len(s) /\ k + 1 > 0 /\ k + 1 < Len(final)
    BY <1>10, <1>12
  <2>3. ~(k < Len(s)) => ~(k + 1 < Len(final))
    BY <1>10, <1>12
  <2> QED
    BY <1>12, <2>1, <2>2, <2>3
<1> QED
  BY <1>6, <1>9, <1>10, <1>14, <1>15 DEF Asked, s, ids

\* The bounds are the two ends of the gap behind the k-th column.
EndsOfGap(bounds, s, k) ==
  /\ bounds.lower \in StoredRanks \cup {First}
  /\ bounds.upper \in StoredRanks \cup {Last}
  /\ bounds.index = k
  /\ k > 0 => bounds.lower = cols[s[k]]
  /\ k < Len(s) => bounds.upper = cols[s[k + 1]]

\* Between the neighbours of the request nothing else stands.
LEMMA AskedBounds ==
  ASSUME cols \in Table, NEW x \in ColumnIds, NEW before, NEW after,
         NEW position \in Nat \cup {None},
         NEW others, others = Listed(cols, Present(cols) \ {x}),
         NEW s, s = IdsOf(others),
         NEW k \in 0 .. Len(s),
         before = (IF k > 0 THEN s[k] ELSE None),
         after = (IF k < Len(s) THEN s[k + 1] ELSE None),
         NEW bounds, bounds = ResolveNeighborBounds(others, before, after, position),
         Less(bounds.lower, bounds.upper)
  PROVE  EndsOfGap(bounds, s, k)
<1> DEFINE ids == Present(cols) \ {x}
           found == RankedRows(ids, cols)
<1>0. ids \subseteq Present(cols) /\ others = Listed(cols, ids)
  OBVIOUS
<1> HIDE DEF ids
<1>1. SortedRows(others, ids, cols) /\ Sorted(others, found)
  BY <1>0, TableListed
<1>2. /\ \A n \in 1 .. Len(others) : others[n].id \in ColumnIds
      /\ \A n \in 1 .. Len(others) : others[n].rank = cols[others[n].id]
      /\ Len(others) \in Nat
  <2>1. \A n \in 1 .. Len(others) : others[n].id \in ColumnIds
    BY <1>0, TableListed
  <2> QED
    BY <1>1, <2>1 DEF SortedRows
<1>3. Len(s) = Len(others) /\ \A n \in 1 .. Len(others) : s[n] = others[n].id
  BY <1>2 DEF IdsOf
<1>4. \A n \in 1 .. Len(others) : others[n].id # None
  BY <1>2, IdAssumption
<1> HIDE DEF found
<1>6. /\ bounds.lower \in StoredRanks \cup {First}
      /\ bounds.upper \in StoredRanks \cup {Last}
      /\ bounds.index \in 0 .. Len(others)
      /\ BesideNeighbours(others, before, after, bounds)
  BY <1>1, <1>4, BoundsAre
<1>7. ASSUME k > 0
      PROVE  /\ k \in 1 .. Len(others) /\ others[k].id = before
             /\ others[k].rank = cols[s[k]]
  <2>1. k \in 1 .. Len(others) /\ before = s[k]
    BY <1>2, <1>3, <1>7
  <2> QED
    BY <1>2, <1>3, <2>1
<1>8. ASSUME k < Len(s)
      PROVE  /\ k + 1 \in 1 .. Len(others) /\ others[k + 1].id = after
             /\ others[k + 1].rank = cols[s[k + 1]]
  <2>1. k + 1 \in 1 .. Len(others) /\ after = s[k + 1]
    BY <1>2, <1>3, <1>8
  <2> QED
    BY <1>2, <1>3, <2>1
<1>9. /\ k > 0 => bounds.lower = cols[s[k]] /\ k <= bounds.index
      /\ k < Len(s) => bounds.upper = cols[s[k + 1]] /\ bounds.index < k + 1
  BY <1>6, <1>7, <1>8 DEF BesideNeighbours
<1>10. bounds.index = k
  BY <1>2, <1>3, <1>6, <1>9
<1> QED
  BY <1>6, <1>9, <1>10 DEF EndsOfGap

\* The ranks of an ascending list of columns.
LEMMA AscendingRanks ==
  ASSUME NEW s, Len(s) \in Nat, \A n \in 1 .. Len(s) : cols[s[n]] \in Ranks,
         Ascending(s, cols), NEW m \in 1 .. Len(s), NEW n \in 1 .. Len(s), m <= n
  PROVE  Less(cols[s[m]], cols[s[n]]) \/ cols[s[m]] = cols[s[n]]
<1>1. CASE m < n
  BY <1>1 DEF Ascending, Before, Entry
<1>2. CASE m = n
  BY <1>2
<1> QED
  BY <1>1, <1>2

\* The list with x behind its k-th entry.
Behind(w, s, k, x) ==
  /\ Len(w) = Len(s) + 1 /\ w[k + 1] = x
  /\ \A n \in 1 .. k : w[n] = s[n]
  /\ \A n \in (k + 1) .. Len(s) : w[n + 1] = s[n]

LEMMA PutBehind ==
  ASSUME NEW s \in Seq(ColumnIds), NEW x \in ColumnIds, NEW k \in 0 .. Len(s),
         NEW w, w = Splice(s, k + 1, x)
  PROVE  Behind(w, s, k, x)
<1>1. Len(s) \in Nat
  OBVIOUS
<1>2. PICK i \in 1 .. (Len(s) + 1) : i = k + 1
  BY <1>1
<1>3. /\ Len(w) = Len(s) + 1 /\ w[i] = x
      /\ \A n \in 1 .. (i - 1) : w[n] = s[n]
      /\ \A n \in i .. Len(s) : w[n + 1] = s[n]
  <2>1. w = Splice(s, i, x)
    BY <1>2
  <2>2. PICK S : S = ColumnIds
    OBVIOUS
  <2>3. s \in Seq(S) /\ x \in S
    BY <2>2
  <2> QED
    BY <2>1, <2>3, InsertedAt
<1>4. i - 1 = k
  BY <1>2
<1> QED
  BY <1>2, <1>3, <1>4 DEF Behind

\* The ids of a listing: columns, each once.
LEMMA ListedIds ==
  ASSUME NEW table \in Table, NEW ids, ids \subseteq Present(table),
         NEW s, s = IdsOf(Listed(table, ids))
  PROVE  s \in Seq(ColumnIds) /\ Len(s) \in Nat /\ \A n \in 1 .. Len(s) : s[n] \in ids
BY IdsAre

\* One rank strictly inside the gap puts the column there.
LEMMA OneShows ==
  ASSUME cols \in Table, NEW x \in Present(cols),
         NEW s, s = IdsOf(Listed(cols, Present(cols) \ {x})),
         NEW k \in 0 .. Len(s), NEW order, order = SX!InsertAt(s, k + 1, x),
         NEW rank \in Ranks,
         k > 0 => Less(cols[s[k]], rank), k < Len(s) => Less(rank, cols[s[k + 1]]),
         NEW writes, writes = <<[id |-> x, rank |-> rank]>>
  PROVE  InOrder(writes, cols, order)
<1> DEFINE ids == Present(cols) \ {x}
           from(n) == IF n <= k THEN n ELSE n - 1
<1>0. ids \subseteq Present(cols) /\ s = IdsOf(Listed(cols, ids)) /\ x \notin ids
  OBVIOUS
<1> HIDE DEF ids
<1>1. /\ s \in Seq(ColumnIds) /\ Len(s) \in Nat
      /\ \A n \in 1 .. Len(s) : s[n] \in ids
      /\ Ascending(s, cols)
  <2>1. Ascending(s, cols)
    BY <1>0, ListingAscends
  <2>2. s \in Seq(ColumnIds) /\ Len(s) \in Nat /\ \A n \in 1 .. Len(s) : s[n] \in ids
    BY <1>0, ListedIds
  <2> QED
    BY <2>1, <2>2
<1>2. \A n \in 1 .. Len(s) : cols[s[n]] \in Ranks /\ s[n] # x
  BY <1>0, <1>1 DEF Table, Present, StoredRanks
<1>3. x \in ColumnIds /\ k + 1 \in 1 .. (Len(s) + 1) /\ k + 1 - 1 = k /\ k \in Nat
  BY <1>1 DEF Present
<1>4. order = Splice(s, k + 1, x)
  BY DEF SX!InsertAt, Splice
<1>5. /\ Len(order) = Len(s) + 1 /\ order[k + 1] = x
      /\ \A n \in 1 .. k : order[n] = s[n]
      /\ \A n \in (k + 1) .. Len(s) : order[n + 1] = s[n]
  <2>1. Behind(order, s, k, x)
    BY <1>1, <1>3, <1>4, PutBehind
  <2> QED
    BY <2>1 DEF Behind
<1>6. \A n \in 1 .. Len(order) : n # k + 1 => from(n) \in 1 .. Len(s) /\ order[n] = s[from(n)]
  <2> SUFFICES ASSUME NEW n \in 1 .. Len(order), n # k + 1
               PROVE  from(n) \in 1 .. Len(s) /\ order[n] = s[from(n)]
    OBVIOUS
  <2>1. CASE n <= k
    <3>1. n \in 1 .. k /\ n \in 1 .. Len(s) /\ from(n) = n
      BY <1>1, <1>3, <1>5, <2>1
    <3> QED
      BY <1>5, <3>1
  <2>2. CASE ~(n <= k)
    <3>1. n - 1 \in (k + 1) .. Len(s) /\ n - 1 \in 1 .. Len(s) /\ n - 1 + 1 = n /\ from(n) = n - 1
      BY <1>1, <1>3, <1>5, <2>2
    <3> QED
      BY <1>5, <3>1
  <2> QED
    BY <2>1, <2>2
<1>7. Len(writes) = 1 /\ writes[1].id = x /\ writes[1].rank = rank
  OBVIOUS
<1> HIDE DEF from
<1>8. Finals(writes, cols, x) = {rank}
  <2>1. {n \in 1 .. Len(writes) : writes[n].id = x} = {1}
    BY <1>7
  <2> QED
    BY <1>7, <2>1 DEF Finals
<1>9. \A i : i # x => Finals(writes, cols, i) = {cols[i]}
  <2> SUFFICES ASSUME NEW i, i # x PROVE Finals(writes, cols, i) = {cols[i]}
    OBVIOUS
  <2>1. {n \in 1 .. Len(writes) : writes[n].id = i} = {}
    BY <1>7
  <2> QED
    BY <2>1 DEF Finals
<1>10. \A n \in 1 .. Len(s) : n <= k => Less(cols[s[n]], rank)
  <2> SUFFICES ASSUME NEW n \in 1 .. Len(s), n <= k PROVE Less(cols[s[n]], rank)
    OBVIOUS
  <2>1. k \in 1 .. Len(s) /\ k > 0
    BY <1>1, <1>3
  <2>2. Less(cols[s[n]], cols[s[k]]) \/ cols[s[n]] = cols[s[k]]
    BY <1>1, <1>2, <2>1, AscendingRanks
  <2> QED
    BY <1>2, <2>1, <2>2, LessTransitive
<1>11. \A n \in 1 .. Len(s) : n > k => Less(rank, cols[s[n]])
  <2> SUFFICES ASSUME NEW n \in 1 .. Len(s), n > k PROVE Less(rank, cols[s[n]])
    OBVIOUS
  <2>1. k + 1 \in 1 .. Len(s) /\ k < Len(s) /\ k + 1 <= n
    BY <1>1, <1>3
  <2>2. Less(cols[s[k + 1]], cols[s[n]]) \/ cols[s[k + 1]] = cols[s[n]]
    BY <1>1, <1>2, <2>1, AscendingRanks
  <2> QED
    BY <1>2, <2>1, <2>2, LessTransitive
<1> SUFFICES ASSUME NEW m \in 1 .. Len(order), NEW n \in 1 .. Len(order), m < n,
                    NEW j \in Finals(writes, cols, order[m]),
                    NEW l \in Finals(writes, cols, order[n])
             PROVE  Before(Entry(order[m], j), Entry(order[n], l))
  BY DEF InOrder
<1>12. CASE m = k + 1
  <2>1. n # k + 1 /\ from(n) > k
    BY <1>3, <1>12 DEF from
  <2>2. j = rank
    BY <1>5, <1>8, <1>12
  <2>3. from(n) \in 1 .. Len(s) /\ order[n] = s[from(n)]
    BY <1>6, <2>1
  <2>4. order[n] # x
    BY <1>2, <2>3
  <2>5. l = cols[s[from(n)]]
    BY <1>9, <2>3, <2>4
  <2>6. Less(j, l)
    BY <1>11, <2>1, <2>2, <2>3, <2>5
  <2> QED
    BY <2>6 DEF Before, Entry
<1>13. CASE n = k + 1
  <2>1. m # k + 1 /\ from(m) <= k
    BY <1>3, <1>13 DEF from
  <2>2. l = rank
    BY <1>5, <1>8, <1>13
  <2>3. from(m) \in 1 .. Len(s) /\ order[m] = s[from(m)]
    BY <1>6, <2>1
  <2>4. order[m] # x
    BY <1>2, <2>3
  <2>5. j = cols[s[from(m)]]
    BY <1>9, <2>3, <2>4
  <2>6. Less(j, l)
    BY <1>10, <2>1, <2>2, <2>3, <2>5
  <2> QED
    BY <2>6 DEF Before, Entry
<1>14. CASE m # k + 1 /\ n # k + 1
  <2>1. from(m) < from(n)
    BY <1>3, <1>14 DEF from
  <2>2. /\ order[m] = s[from(m)] /\ from(m) \in 1 .. Len(s)
        /\ order[n] = s[from(n)] /\ from(n) \in 1 .. Len(s)
    BY <1>6, <1>14
  <2>3. j = cols[s[from(m)]] /\ l = cols[s[from(n)]]
    BY <1>2, <1>9, <2>2
  <2> QED
    BY <1>1, <2>1, <2>2, <2>3 DEF Ascending
<1> QED
  BY <1>12, <1>13, <1>14

\* A re-spaced list keeps its order.
LEMMA SpacedShows ==
  ASSUME NEW order \in Seq(ColumnIds),
         \A m, n \in 1 .. Len(order) : m # n => order[m] # order[n],
         NEW writes, writes = Spaced(order), NEW table
  PROVE  InOrder(writes, table, order)
<1>1. /\ Len(writes) = Len(order)
      /\ \A n \in 1 .. Len(order) : writes[n].id = order[n]
      /\ \A m, n \in 1 .. Len(order) : m < n => Less(writes[m].rank, writes[n].rank)
  BY SpacedIs
<1>2. \A n \in 1 .. Len(order) : Finals(writes, table, order[n]) = {writes[n].rank}
  <2> SUFFICES ASSUME NEW n \in 1 .. Len(order)
               PROVE  Finals(writes, table, order[n]) = {writes[n].rank}
    OBVIOUS
  <2>1. {l \in 1 .. Len(writes) : writes[l].id = order[n]} = {n}
    BY <1>1
  <2> QED
    BY <2>1 DEF Finals
<1>3. SUFFICES ASSUME NEW m \in 1 .. Len(order), NEW n \in 1 .. Len(order), m < n,
                      NEW j \in Finals(writes, table, order[m]),
                      NEW l \in Finals(writes, table, order[n])
               PROVE  Before(Entry(order[m], j), Entry(order[n], l))
  BY DEF InOrder
<1>4. j = writes[m].rank /\ l = writes[n].rank
  BY <1>2
<1>5. Less(j, l)
  BY <1>1, <1>3, <1>4
<1> QED
  BY <1>5 DEF Before, Entry

\* What a move writes, one rank or all of them, puts its column where it was asked to go.
LEMMA MoveShows ==
  ASSUME cols \in Table, NEW r, ask[r].column \in ColumnIds, Positioned(r),
         NEW order, Asked(order, ask[r]),
         NEW others, others = Listed(cols, Present(cols) \ {ask[r].column}),
         NEW bounds, bounds = ResolveNeighborBounds(others, ask[r].before, ask[r].after, ask[r].position),
         Less(bounds.lower, bounds.upper)
  PROVE  Shows(MoveWrites(r, others, bounds), cols, order)
<1> DEFINE x == ask[r].column
           s == IdsOf(others)
           rank == Between(bounds.lower, bounds.upper)
           writes == MoveWrites(r, others, bounds)
<1>1. PICK k \in 0 .. Len(s) : /\ order = SX!InsertAt(s, k + 1, x)
                               /\ ask[r].before = (IF k > 0 THEN s[k] ELSE None)
                               /\ ask[r].after = (IF k < Len(s) THEN s[k + 1] ELSE None)
  BY DEF Asked
<1>2. x \in Present(cols) /\ x \in ColumnIds
  BY DEF Asked
<1>3. /\ s = IdsOf(Listed(cols, Present(cols) \ {x})) /\ others = Listed(cols, Present(cols) \ {x})
  OBVIOUS
<1> HIDE DEF s, x
<1>4. /\ bounds.lower \in StoredRanks \cup {First}
      /\ bounds.upper \in StoredRanks \cup {Last}
      /\ bounds.index = k
      /\ k > 0 => bounds.lower = cols[s[k]]
      /\ k < Len(s) => bounds.upper = cols[s[k + 1]]
  <2>1. s = IdsOf(others)
    BY DEF s
  <2> DEFINE before == ask[r].before
             after == ask[r].after
             position == ask[r].position
  <2>2. /\ before = (IF k > 0 THEN s[k] ELSE None)
        /\ after = (IF k < Len(s) THEN s[k + 1] ELSE None)
        /\ bounds = ResolveNeighborBounds(others, before, after, position)
        /\ position \in Nat \cup {None}
    BY <1>1 DEF Positioned
  <2> HIDE DEF before, after, position
  <2>3. EndsOfGap(bounds, s, k)
    BY <1>2, <1>3, <2>1, <2>2, AskedBounds
  <2> QED
    BY <2>3 DEF EndsOfGap
<1>5. rank \in Ranks /\ Less(bounds.lower, rank) /\ Less(rank, bounds.upper)
  BY <1>4, BetweenStored
<1> HIDE DEF rank
<1>6. Covers(order, cols)
  <2>1. k \in 0 .. Len(Listed(cols, Present(cols) \ {x}))
    <3>1. Present(cols) \ {x} \subseteq Present(cols)
      OBVIOUS
    <3>2. Len(s) = Len(Listed(cols, Present(cols) \ {x}))
      BY <1>3, <3>1, IdsAre
    <3> QED
      BY <3>2
  <2>2. Covers(SX!InsertAt(IdsOf(Listed(cols, Present(cols) \ {x})), k + 1, x), cols)
    BY <1>2, <2>1, InsertCovers
  <2> QED
    BY <1>1, <1>3, <2>2
<1>7. \A n \in 1 .. Len(order) : order[n] \in Present(cols)
  <2>1. Present(cols) \ {x} \subseteq Present(cols)
    OBVIOUS
  <2>2. /\ s \in Seq(ColumnIds) /\ Len(s) \in Nat
        /\ \A n \in 1 .. Len(s) : s[n] \in Present(cols) \ {x}
    BY <1>3, <2>1, IdsAre
  <2>3. s \in Seq(Present(cols))
    BY <2>2
  <2>4. order = Splice(s, k + 1, x) /\ k + 1 \in 1 .. (Len(s) + 1)
    BY <1>1, <2>2 DEF SX!InsertAt, Splice
  <2>5. order \in Seq(Present(cols))
    BY <1>2, <2>3, <2>4, InsertedAt
  <2> QED
    BY <2>5
<1>8. CASE Len(rank) <= Threshold
  <2>1. writes = <<[id |-> x, rank |-> rank]>>
    BY <1>8 DEF MoveWrites, rank, x
  <2> HIDE DEF writes
  <2>2. k > 0 => Less(cols[s[k]], rank)
    BY <1>4, <1>5
  <2>3. k < Len(s) => Less(rank, cols[s[k + 1]])
    BY <1>4, <1>5
  <2>4. InOrder(writes, cols, order)
    BY <1>1, <1>2, <1>3, <1>5, <2>1, <2>2, <2>3, OneShows
  <2> QED
    BY <1>6, <1>7, <2>4 DEF Shows, writes
<1>9. CASE ~(Len(rank) <= Threshold)
  <2>1. writes = Spaced(order)
    <3>1. writes = Spaced(SX!InsertAt(IdsOf(others), bounds.index + 1, ask[r].column))
      BY <1>9 DEF MoveWrites, rank
    <3> QED
      BY <1>1, <1>4, <3>1 DEF s, x
  <2> HIDE DEF writes
  <2>2. order \in Seq(ColumnIds) /\ \A m, n \in 1 .. Len(order) : m # n => order[m] # order[n]
    BY <1>6 DEF Covers
  <2>3. InOrder(writes, cols, order)
    BY <2>1, <2>2, SpacedShows
  <2> QED
    BY <1>6, <1>7, <2>3 DEF Shows, writes
<1> QED
  BY <1>8, <1>9

\* A write that is made is one less to make.
LEMMA WriteShows ==
  ASSUME NEW writes \in Writes, writes # <<>>, NEW table \in Table, NEW order,
         Shows(writes, table, order), Head(writes).id \in Present(table),
         NEW after, after = [table EXCEPT ![Head(writes).id] = Head(writes).rank]
  PROVE  Shows(Tail(writes), after, order)
<1> DEFINE T == [id : ColumnIds, rank : StoredRanks]
           rest == Tail(writes)
<1>1. writes \in Seq(T)
  BY DEF Writes
<1> HIDE DEF T
<1>2. /\ Len(writes) \in Nat /\ Len(writes) >= 1 /\ writes[1] = Head(writes)
      /\ \A n \in 1 .. Len(writes) : writes[n] \in T
      /\ Len(rest) = Len(writes) - 1
      /\ \A n \in 1 .. Len(rest) : rest[n] = writes[n + 1]
  BY <1>1
<1> DEFINE i == writes[1].id
           rank == writes[1].rank
<1>3. /\ 1 \in 1 .. Len(writes) /\ i \in Present(table) /\ i \in ColumnIds
      /\ rank \in StoredRanks /\ rank # Gone
      /\ after = [table EXCEPT ![i] = rank]
  BY <1>2, RowAssumption DEF T, StoredRanks
<1> HIDE DEF rest
<1>4. /\ after[i] = rank
      /\ \A j \in ColumnIds : j # i => after[j] = table[j]
      /\ Present(after) = Present(table)
  BY <1>3 DEF Table, Present
<1>5. \A j \in ColumnIds : Finals(rest, after, j) \subseteq Finals(writes, table, j)
  <2> SUFFICES ASSUME NEW j \in ColumnIds, NEW k \in Finals(rest, after, j)
               PROVE  k \in Finals(writes, table, j)
    OBVIOUS
  <2> DEFINE now == {n \in 1 .. Len(writes) : writes[n].id = j}
             later == {n \in 1 .. Len(rest) : rest[n].id = j}
  <2>1. \A n \in later : n + 1 \in now /\ writes[n + 1] = rest[n]
    BY <1>2
  <2>2. CASE later # {}
    <3>1. PICK n \in later : k = rest[n].rank
      BY <2>2 DEF Finals
    <3>2. n + 1 \in now /\ k = writes[n + 1].rank
      BY <2>1, <3>1
    <3> HIDE DEF now
    <3>3. now # {} /\ k \in {writes[m].rank : m \in now}
      BY <3>2
    <3> QED
      BY <3>3 DEF Finals, now
  <2>3. CASE later = {} /\ j = i
    <3>1. k = rank
      BY <1>4, <2>3 DEF Finals
    <3>2. 1 \in now
      BY <1>3, <2>3
    <3> HIDE DEF now
    <3>3. now # {} /\ k \in {writes[m].rank : m \in now}
      BY <3>1, <3>2
    <3> QED
      BY <3>3 DEF Finals, now
  <2>4. CASE later = {} /\ j # i
    <3>1. k = table[j]
      BY <1>4, <2>4 DEF Finals
    <3>2. now = {}
      <4> SUFFICES ASSUME NEW n \in now PROVE FALSE
        OBVIOUS
      <4>1. n # 1
        BY <2>4
      <4>2. n - 1 \in 1 .. Len(rest) /\ n - 1 + 1 = n
        BY <1>2, <4>1
      <4>3. n - 1 \in later
        BY <1>2, <4>2
      <4> QED
        BY <2>4, <4>3
    <3> QED
      BY <3>1, <3>2 DEF Finals
  <2> QED
    BY <2>2, <2>3, <2>4
<1>6. \A n \in 1 .. Len(order) : order[n] \in ColumnIds
  BY DEF Shows, Covers
<1>7. Covers(order, after)
  BY <1>4 DEF Shows, Covers
<1>8. \A m, n \in 1 .. Len(order) :
        m < n => \A j \in Finals(rest, after, order[m]), k \in Finals(rest, after, order[n]) :
                   Before(Entry(order[m], j), Entry(order[n], k))
  BY <1>5, <1>6 DEF Shows, InOrder
<1> QED
  BY <1>4, <1>7, <1>8 DEF Shows, InOrder, rest

\* Once all writes are made, the columns stand as planned.
LEMMA CommitShows ==
  ASSUME NEW table \in Table, NEW order, Shows(<<>>, table, order)
  PROVE  OrderOf(table) = order
<1>1. \A i : Finals(<<>>, table, i) = {table[i]}
  BY DEF Finals
<1>2. Ascending(order, table)
  BY <1>1 DEF Shows, InOrder, Ascending
<1>3. /\ order \in Seq(ColumnIds) /\ \A n \in 1 .. Len(order) : order[n] \in Present(table)
      /\ \A i \in Present(table) : \E n \in 1 .. Len(order) : order[n] = i
  BY DEF Shows, Covers
<1>4. order \in Seq(Present(table))
  BY <1>3
<1> QED
  BY <1>2, <1>3, <1>4, ListingIs DEF OrderOf
-----------------------------------------------------------------------------
(* A drop, its request and its commit. *)

\* A drag that began on the committed columns, while they stay as they are.
CalmDrag ==
  grabbed \in ColumnIds /\ calm /\ columnOrder # None =>
    /\ columnOrder = OrderOf(cols)
    /\ columnStart # None => columnStart = NeighborsOf(columnOrder, grabbed)

\* What the request of a drop asks for, and what it is about to write, bring its plan about.
PlanHolds(r) ==
  plan[r] # None =>
    /\ pc[r] \in {"sent", "writing", "respacing"} => ask[r].kind = "move"
    /\ pc[r] = "sent" => Asked(plan[r], ask[r])
    /\ pc[r] \in {"writing", "respacing"} => Shows(todo[r], Seen(r), plan[r])

DInv ==
  /\ DOMAIN plan = Own
  /\ CalmDrag
  /\ \A r \in Own : PlanHolds(r)

LEMMA InitDInv == Init => DInv
<1> SUFFICES ASSUME Init PROVE DInv
  OBVIOUS
<1>1. plan = [r \in Own |-> None] /\ columnOrder = None
  BY DEF Init
<1> QED
  BY <1>1 DEF DInv, CalmDrag, PlanHolds

\* A plan is kept, or given up, by a step that leaves its request and the rows alone.
LEMMA StillPlanned ==
  ASSUME NEW q, PlanHolds(q), plan'[q] \in {plan[q], None}, cols' = cols, ask'[q] = ask[q],
         pc'[q] = pc[q], todo'[q] = todo[q], held'[q] = held[q]
  PROVE  PlanHolds(q)'
<1>1. CASE plan'[q] = None
  BY <1>1 DEF PlanHolds
<1>2. CASE plan'[q] = plan[q]
  <2>1. Seen(q)' = Seen(q)
    BY DEF Seen
  <2>2. Asked(plan[q], ask[q])' <=> Asked(plan[q], ask[q])
    BY <1>2 DEF Asked, Present
  <2> QED
    BY <1>2, <2>1, <2>2 DEF PlanHolds
<1> QED
  BY <1>1, <1>2

\* Nothing that the invariant speaks of is changed.
LEMMA StillDInv ==
  ASSUME DInv, UNCHANGED <<cols, ask, pc, todo, held, plan>>, CalmDrag'
  PROVE  DInv'
BY StillPlanned DEF DInv

\* The drag stays calm, or ends.
LEMMA StillCalm ==
  ASSUME DInv, calm' => calm /\ cols' = cols, grabbed' = grabbed,
         columnOrder' \in {columnOrder, None}, columnStart' \in {columnStart, None}
  PROVE  CalmDrag'
<1> SUFFICES ASSUME grabbed' \in ColumnIds, calm', columnOrder' # None
             PROVE  /\ columnOrder' = OrderOf(cols)'
                    /\ columnStart' # None => columnStart' = NeighborsOf(columnOrder, grabbed)'
  BY DEF CalmDrag
<1>1. CalmDrag /\ cols' = cols /\ columnOrder' = columnOrder
  BY DEF DInv
<1>2. OrderOf(cols)' = OrderOf(cols)
  BY <1>1 DEF OrderOf, Present
<1>3. NeighborsOf(columnOrder, grabbed)' = NeighborsOf(columnOrder, grabbed)
  BY <1>1 DEF NeighborsOf, At
<1> QED
  BY <1>1, <1>2, <1>3 DEF CalmDrag

LEMMA PickUpColumnDInv ==
  ASSUME DInv, NEW i \in ColumnIds, PickUpColumn(i)
  PROVE  DInv'
<1>1. /\ grabbed' = i /\ columnOrder' = OrderOf(known)
      /\ columnStart' = NeighborsOf(OrderOf(known), i)
      /\ calm' = (OrderOf(known) = OrderOf(cols))
      /\ UNCHANGED <<cols, ask, pc, todo, held, plan>>
  BY DEF PickUpColumn, server
<1>2. OrderOf(cols)' = OrderOf(cols)
  BY <1>1 DEF OrderOf, Present
<1>3. NeighborsOf(columnOrder, grabbed)' = NeighborsOf(OrderOf(known), i)
  BY <1>1 DEF NeighborsOf, At
<1>4. CalmDrag'
  BY <1>1, <1>2, <1>3 DEF CalmDrag
<1> QED
  BY <1>1, <1>4, StillDInv

\* A drop that is sent asks for what the page shows.
LEMMA DropColumnDInv ==
  ASSUME RInv, DInv, NEW over, DropColumn(over)
  PROVE  DInv'
<1> DEFINE final == MoveOnto(columnOrder, grabbed, over)
<1>1. grabbed \in ColumnIds /\ grabbed' = None
  BY DEF DropColumn, LetGo
<1>2. CalmDrag'
  BY <1>1, IdAssumption DEF CalmDrag
<1>3. CASE UNCHANGED <<server, plan>>
  BY <1>2, <1>3, StillDInv DEF server
<1>4. CASE /\ columnOrder # None /\ columnStart # None
           /\ NeighborsOf(final, grabbed) # columnStart
           /\ \E r \in Own : pc[r] = "idle" /\ MoveColumn(r, grabbed, final)
  <2>1. PICK r \in Own : pc[r] = "idle" /\ MoveColumn(r, grabbed, final)
    BY <1>4
  <2>2. PICK a : /\ a.kind = "move" /\ a.column = grabbed
                 /\ a.before = NeighborsOf(final, grabbed).before
                 /\ a.after = NeighborsOf(final, grabbed).after
                 /\ ask' = [ask EXCEPT ![r] = a]
    BY <2>1 DEF MoveColumn
  <2>3. /\ pc' = [pc EXCEPT ![r] = "sent"]
        /\ plan' = [plan EXCEPT ![r] = IF calm THEN final ELSE None]
        /\ UNCHANGED <<cols, todo, held>>
    BY <2>1 DEF MoveColumn
  <2>4. /\ DOMAIN ask = Reqs /\ DOMAIN pc = Reqs /\ r \in Reqs /\ DOMAIN plan = Own
        /\ cols \in Table
    BY OwnAssumption DEF RInv, ServerTyped, DInv
  <2>5. /\ ask'[r] = a /\ pc'[r] = "sent" /\ DOMAIN plan' = Own
        /\ plan'[r] = IF calm THEN final ELSE None
        /\ \A q \in Own \ {r} : ask'[q] = ask[q] /\ pc'[q] = pc[q] /\ plan'[q] = plan[q]
    BY <2>2, <2>3, <2>4, OwnAssumption
  <2>6. ASSUME calm PROVE Asked(final, a)
    <3>1. columnOrder = OrderOf(cols) /\ columnStart = NeighborsOf(columnOrder, grabbed)
      BY <1>1, <1>4, <2>6 DEF DInv, CalmDrag
    <3>2. /\ final = MoveOnto(OrderOf(cols), grabbed, over)
          /\ NeighborsOf(final, grabbed) # NeighborsOf(OrderOf(cols), grabbed)
      BY <1>4, <3>1
    <3> HIDE DEF final
    <3> QED
      BY <2>2, <2>4, <3>2, DropAsked
  <2> HIDE DEF final
  <2>7. PlanHolds(r)'
    <3>1. SUFFICES ASSUME plan'[r] # None PROVE Asked(plan[r], ask[r])'
      BY <2>2, <2>5 DEF PlanHolds
    <3>2. Asked(plan'[r], ask'[r])
      BY <2>5, <2>6, <3>1
    <3> QED
      BY <2>3, <3>2 DEF Asked, Present
  <2>8. \A q \in Own \ {r} : PlanHolds(q)'
    BY <2>3, <2>5, StillPlanned DEF DInv
  <2> QED
    BY <1>2, <2>5, <2>7, <2>8 DEF DInv
<1> QED
  BY <1>3, <1>4 DEF DropColumn

LEMMA AnswerColumnDInv ==
  ASSUME RInv, DInv, NEW r \in Reqs, AnswerColumn(r)
  PROVE  DInv'
<1>1. /\ r \in Own /\ pc' = [pc EXCEPT ![r] = "done"] /\ plan' = [plan EXCEPT ![r] = None]
      /\ UNCHANGED <<cols, ask, todo, held, grabbed, calm>>
  BY DEF AnswerColumn
<1>2. columnOrder' \in {columnOrder, None} /\ columnStart' \in {columnStart, None}
  BY DEF AnswerColumn, Settled, Reset, drag
<1>3. CalmDrag'
  BY <1>1, <1>2, StillCalm
<1>4. DOMAIN pc = Reqs /\ DOMAIN plan = Own
  BY DEF RInv, ServerTyped, DInv
<1>5. /\ DOMAIN plan' = Own /\ plan'[r] = None
      /\ \A q \in Own \ {r} : pc'[q] = pc[q] /\ plan'[q] = plan[q]
  BY <1>1, <1>4, OwnAssumption
<1>6. \A q \in Own : PlanHolds(q)'
  <2>1. PlanHolds(r)'
    BY <1>5 DEF PlanHolds
  <2>2. \A q \in Own \ {r} : PlanHolds(q)'
    BY <1>1, <1>5, StillPlanned DEF DInv
  <2> QED
    BY <2>1, <2>2
<1> QED
  BY <1>3, <1>5, <1>6 DEF DInv

LEMMA AnswerCardDInv ==
  ASSUME DInv, NEW m \in CardCalls, NEW ok \in BOOLEAN, AnswerCard(m, ok)
  PROVE  DInv'
<1>1. UNCHANGED <<cols, ask, pc, todo, held, plan, grabbed, calm>>
  BY DEF AnswerCard, server
<1>2. columnOrder' \in {columnOrder, None} /\ columnStart' \in {columnStart, None}
  BY DEF AnswerCard, Settled, Reset, drag
<1> QED
  BY <1>1, <1>2, StillCalm, StillDInv

\* A handler's step leaves the other requests as they are.
LEMMA HandleLeavesOthers ==
  ASSUME RInv, NEW r \in Reqs, Handle(r)
  PROVE  /\ ask' = ask
         /\ \A q \in Reqs \ {r} : pc'[q] = pc[q] /\ todo'[q] = todo[q] /\ held'[q] = held[q]
<1>1. DOMAIN pc = Reqs /\ DOMAIN todo = Reqs /\ DOMAIN held = Reqs
  BY DEF RInv, ServerTyped
<1>2. ASSUME NEW writes, NEW interval, NEW isFresh, Begin(r, writes, interval, isFresh)
      PROVE  /\ ask' = ask
             /\ \A q \in Reqs \ {r} : pc'[q] = pc[q] /\ todo'[q] = todo[q] /\ held'[q] = held[q]
  BY <1>1, <1>2 DEF Begin
<1>3. ASSUME Fail(r)
      PROVE  /\ ask' = ask
             /\ \A q \in Reqs \ {r} : pc'[q] = pc[q] /\ todo'[q] = todo[q] /\ held'[q] = held[q]
  BY <1>1, <1>3 DEF Fail
<1>4. CASE ReadForMove(r)
  BY <1>2, <1>3, <1>4 DEF ReadForMove
<1>5. CASE ReadForCreate(r)
  BY <1>2, <1>5 DEF ReadForCreate
<1>6. CASE Relist(r)
  BY <1>1, <1>6 DEF Relist
<1>7. CASE Write(r)
  BY <1>1, <1>3, <1>7 DEF Write
<1>8. CASE Commit(r)
  BY <1>1, <1>8 DEF Commit, Committed
<1>9. CASE Statement(r)
  BY <1>1, <1>3, <1>9 DEF Statement, Committed
<1>10. CASE Announce(r)
  BY <1>1, <1>10 DEF Announce
<1>11. CASE DeadlockVictim(r)
  BY <1>3, <1>11 DEF DeadlockVictim
<1> QED
  BY <1>4, <1>5, <1>6, <1>7, <1>8, <1>9, <1>10, <1>11 DEF Handle

\* The request's own step does as planned, or nothing is left to do.
LEMMA HandleAsPlanned ==
  ASSUME RInv, DInv, NEW r \in Own, Handle(r), plan'[r] = plan[r]
  PROVE  PlanHolds(r)'
<1>1. /\ r \in Reqs /\ DOMAIN pc = Reqs /\ DOMAIN todo = Reqs /\ PlanHolds(r) /\ cols \in Table
      /\ pc[r] = "sent" => held[r] = Nothing /\ ask[r].column \in ColumnIds
      /\ Positioned(r) /\ ask' = ask
  BY OwnAssumption, HandleLeavesOthers DEF RInv, ServerTyped, DInv
<1> SUFFICES ASSUME plan[r] # None, pc'[r] \in {"sent", "writing", "respacing"}
             PROVE  /\ ask[r].kind = "move" /\ pc'[r] # "sent"
                    /\ Shows(todo'[r], Seen(r)', plan[r])
  BY <1>1 DEF PlanHolds
<1>2. /\ pc[r] \in {"sent", "writing", "respacing"} => ask[r].kind = "move"
      /\ pc[r] = "sent" => Asked(plan[r], ask[r])
      /\ pc[r] \in {"writing", "respacing"} => Shows(todo[r], Seen(r), plan[r])
  BY <1>1 DEF PlanHolds
<1>3. ~Fail(r)
  BY <1>1 DEF Fail
<1>4. CASE ReadForMove(r)
  <2> DEFINE others == Listed(cols, Present(cols) \ {ask[r].column})
             bounds == ResolveNeighborBounds(others, ask[r].before, ask[r].after, ask[r].position)
             writes == MoveWrites(r, others, bounds)
             isFresh == Adjacent(others, ask[r].before, ask[r].after)
  <2>1. /\ pc[r] = "sent" /\ Less(bounds.lower, bounds.upper)
        /\ Begin(r, writes, IntervalOf(bounds), isFresh)
    BY <1>3, <1>4 DEF ReadForMove
  <2>2. Shows(writes, cols, plan[r])
    <3>1. /\ others = Listed(cols, Present(cols) \ {ask[r].column})
          /\ bounds = ResolveNeighborBounds(others, ask[r].before, ask[r].after, ask[r].position)
      OBVIOUS
    <3> HIDE DEF others, bounds
    <3> QED
      BY <1>1, <1>2, <2>1, <3>1, MoveShows
  <2> HIDE DEF writes, isFresh
  <2>3. /\ pc'[r] = "writing" /\ todo'[r] = writes /\ cols' = cols /\ held' = held
    BY <1>1, <2>1 DEF Begin
  <2>4. Seen(r)' = Seen(r) /\ Seen(r) = cols
    <3>1. Seen(r) = cols
      BY <1>1, <2>1, SeenIs DEF RInv
    <3> QED
      BY <2>3, <3>1 DEF Seen
  <2> QED
    BY <1>2, <2>1, <2>2, <2>3, <2>4
<1>5. CASE Write(r)
  <2> DEFINE next == Head(todo[r])
  <2>1. /\ pc[r] \in {"writing", "respacing"} /\ todo[r] # <<>>
        /\ ask[r].kind = "move"
        /\ ~(Seen(r)[next.id] = Gone)
        /\ held' = [held EXCEPT ![r][next.id] = next.rank]
        /\ todo' = [todo EXCEPT ![r] = Tail(@)]
        /\ cols' = cols /\ pc' = pc
    BY <1>2, <1>3, <1>5 DEF Write, Inserts
  <2>2. /\ todo[r] \in Writes
        /\ Seen(r)' = [Seen(r) EXCEPT ![Head(todo[r]).id] = Head(todo[r]).rank]
    BY <1>1, <2>1, WriteIsSeen
  <2>3. todo'[r] = Tail(todo[r])
    BY <1>1, <2>1
  <2> DEFINE writes == todo[r]
             table  == Seen(r)
             after  == Seen(r)'
  <2>4. /\ writes \in Writes /\ writes # <<>> /\ table \in Table
        /\ after = [table EXCEPT ![Head(writes).id] = Head(writes).rank]
        /\ Shows(writes, table, plan[r])
    BY <1>1, <1>2, <2>1, <2>2, SeenIs DEF RInv
  <2>5. table[Head(writes).id] # Gone
    BY <2>1
  <2>6. pc'[r] # "sent" /\ todo'[r] = Tail(writes) /\ ask[r].kind = "move"
    BY <2>1, <2>3
  <2> HIDE DEF writes, table, after
  <2>7. Head(writes).id \in Present(table)
    <3> DEFINE T == [id : ColumnIds, rank : StoredRanks]
    <3>1. writes \in Seq(T)
      BY <2>4 DEF Writes
    <3> HIDE DEF T
    <3>2. Head(writes) \in T
      BY <2>4, <3>1
    <3> QED
      BY <2>5, <3>2 DEF T, Present
  <2>8. Shows(Tail(writes), after, plan[r])
    BY <2>4, <2>7, WriteShows
  <2> QED
    BY <2>6, <2>8 DEF after
<1>6. ~ReadForCreate(r) /\ ~Relist(r) /\ ~Statement(r)
  BY <1>2 DEF ReadForCreate, Relist, Inserts, Statement
<1>7. ~Commit(r) /\ ~Announce(r) /\ ~DeadlockVictim(r)
  BY <1>1, <1>3 DEF Commit, Committed, Announce, DeadlockVictim
<1> QED
  BY <1>4, <1>5, <1>6, <1>7 DEF Handle

LEMMA ServeDInv ==
  ASSUME RInv, DInv, NEW r \in Reqs, Serve(r)
  PROVE  DInv'
<1>1. /\ Handle(r)
      /\ plan' = [q \in Own |-> IF cols' # cols /\ q # r THEN None ELSE plan[q]]
      /\ calm' = (calm /\ cols' = cols)
      /\ UNCHANGED <<columnOrder, columnStart, grabbed>>
  BY DEF Serve, drag
<1>2. CalmDrag'
  BY <1>1, StillCalm
<1>3. /\ ask' = ask
      /\ \A q \in Reqs \ {r} : pc'[q] = pc[q] /\ todo'[q] = todo[q] /\ held'[q] = held[q]
  BY <1>1, HandleLeavesOthers
<1>4. \A q \in Own : PlanHolds(q)'
  <2> SUFFICES ASSUME NEW q \in Own PROVE PlanHolds(q)'
    OBVIOUS
  <2>1. CASE q = r
    <3>1. plan'[q] = plan[q] /\ Handle(q)
      BY <1>1, <2>1
    <3> QED
      BY <3>1, HandleAsPlanned
  <2>2. CASE q # r /\ cols' = cols
    <3>1. /\ plan'[q] = plan[q] /\ ask'[q] = ask[q] /\ pc'[q] = pc[q]
          /\ todo'[q] = todo[q] /\ held'[q] = held[q] /\ PlanHolds(q)
      BY <1>1, <1>3, <2>2, OwnAssumption DEF DInv
    <3> QED
      BY <2>2, <3>1, StillPlanned
  <2>3. CASE q # r /\ cols' # cols
    <3>1. plan'[q] = None
      BY <1>1, <2>3
    <3> QED
      BY <3>1 DEF PlanHolds
  <2> QED
    BY <2>1, <2>2, <2>3
<1> QED
  BY <1>1, <1>2, <1>4 DEF DInv

LEMMA NextDInv == RInv /\ DInv /\ [Next]_vars => DInv'
<1> SUFFICES ASSUME RInv, DInv, [Next]_vars PROVE DInv'
  OBVIOUS
<1>1. ASSUME NEW i \in ColumnIds, PickUpColumn(i) PROVE DInv'
  BY <1>1, PickUpColumnDInv
<1>2. ASSUME NEW i \in ColumnIds, DropColumn(i) PROVE DInv'
  BY <1>2, DropColumnDInv
<1>3. ASSUME NEW k \in Cards, PickUpCard(k) PROVE DInv'
  <2>1. grabbed' \notin ColumnIds
    BY <1>3, IdAssumption DEF PickUpCard
  <2> QED
    BY <1>3, <2>1, StillDInv DEF PickUpCard, server, CalmDrag
<1>4. ASSUME NEW k \in Cards, RemoteCard(k) PROVE DInv'
  BY <1>4, StillCalm, StillDInv DEF RemoteCard, server, drag
<1>5. ASSUME NEW over, DragOver(over) PROVE DInv'
  BY <1>5, StillCalm, StillDInv DEF DragOver, server
<1>6. ASSUME NEW over, DropCard(over) PROVE DInv'
  <2>1. grabbed' \notin ColumnIds
    BY <1>6, IdAssumption DEF DropCard, LetGo
  <2>2. UNCHANGED <<server, plan>>
    BY <1>6 DEF DropCard, MoveTask
  <2> QED
    BY <2>1, <2>2, StillDInv DEF server, CalmDrag
<1>7. CASE DragCancel
  <2>1. grabbed' \notin ColumnIds
    BY <1>7, IdAssumption DEF DragCancel, LetGo
  <2> QED
    BY <1>7, <2>1, StillDInv DEF DragCancel, server, CalmDrag
<1>8. ASSUME NEW m \in CardCalls, Undo(m) PROVE DInv'
  BY <1>8, StillCalm, StillDInv DEF Undo, server, drag
<1>9. ASSUME NEW m \in CardCalls, NEW ok \in BOOLEAN, AnswerCard(m, ok) PROVE DInv'
  BY <1>9, AnswerCardDInv
<1>10. ASSUME NEW r \in Reqs, Serve(r) PROVE DInv'
  BY <1>10, ServeDInv
<1>11. ASSUME NEW r \in Reqs, AnswerColumn(r) PROVE DInv'
  BY <1>11, AnswerColumnDInv
<1>12. CASE Deliver
  BY <1>12, StillCalm, StillDInv DEF Deliver, drag
<1>13. CASE Done \/ UNCHANGED vars
  BY <1>13, StillCalm, StillDInv DEF Done, vars, server, page, drag
<1> QED
  BY <1>1, <1>2, <1>3, <1>4, <1>5, <1>6, <1>7, <1>8, <1>9, <1>10, <1>11, <1>12, <1>13 DEF Next

\* A commit of the page's own move leaves the columns as planned.
LEMMA CommitsAsPlanned ==
  ASSUME RInv, DInv, [Next]_vars, NEW r \in Own,
         cols' # cols, pc[r] # pc'[r], plan[r] # None
  PROVE  OrderOf(cols') = plan[r]
<1>1. PICK q \in Reqs : Handle(q)
  <2>1. ASSUME NEW over, DropCard(over) PROVE cols' = cols
    BY <2>1 DEF DropCard, MoveTask, server
  <2>2. ASSUME NEW over, DropColumn(over) PROVE cols' = cols
    BY <2>2 DEF DropColumn, MoveColumn, server
  <2> QED
    BY <2>1, <2>2 DEF Next, PickUpColumn, PickUpCard, RemoteCard, DragOver, DragCancel, Undo,
       AnswerCard, Serve, AnswerColumn, Deliver, Done, vars, server
<1>2. q = r /\ r \in Reqs /\ PlanHolds(r)
  BY <1>1, HandleLeavesOthers, OwnAssumption DEF DInv
<1>3. Commit(r)
  <2>1. ~Statement(r)
    BY <1>2 DEF PlanHolds, Statement
  <2> QED
    BY <1>1, <1>2, <2>1 DEF Handle, ReadForMove, ReadForCreate, Relist, Write, Announce,
       DeadlockVictim, Fail, Begin
<1>4. pc[r] \in {"writing", "respacing"} /\ todo[r] = <<>> /\ cols' = Seen(r)
  BY <1>3 DEF Commit, Committed
<1>5. Seen(r) \in Table /\ Shows(<<>>, Seen(r), plan[r])
  BY <1>2, <1>4, SeenIs DEF RInv, PlanHolds
<1> QED
  BY <1>4, <1>5, CommitShows

\* Of any number of columns, with any neighbours and an alphabet of any size, a column that
\* is dropped on the committed order lands where the page showed it, re-spaced or not, unless
\* another request commits in between (useBoardDnd.ts 261-310, columns.service.ts 93-132).
THEOREM ColumnsLandWhereShown == Spec => DroppedWhereShown
<1>1. ASSUME RInv, DInv, [Next]_vars, NEW r \in Own,
             cols' # cols, pc[r] # pc'[r], plan[r] # None
      PROVE  OrderOf(cols') = plan[r]
  BY <1>1, CommitsAsPlanned
<1>2. RInv /\ DInv /\ [Next]_vars =>
        [\A r \in Own : cols' # cols /\ pc[r] # pc'[r] /\ plan[r] # None
                          => OrderOf(cols') = plan[r]]_vars
  BY <1>1
<1> QED
  BY <1>2, InitRInv, NextRInv, InitDInv, NextDInv, PTL DEF Spec, DroppedWhereShown

-----------------------------------------------------------------------------
(* Lists of cards. *)

LEMMA NeighborsTyped ==
  ASSUME NEW S, NEW ids \in Seq(S), NEW x
  PROVE  NeighborsOf(ids, x) \in Neighbors(S)
<1> DEFINE n == At(ids, x)
<1>1. Len(ids) \in Nat /\ n \in 0 .. Len(ids)
  BY AtIs
<1> HIDE DEF n
<1>2. n > 1 => ids[n - 1] \in S
  BY <1>1
<1>3. n > 0 /\ n < Len(ids) => ids[n + 1] \in S
  BY <1>1
<1>4. NeighborsOf(ids, x) = [before |-> IF n > 1 THEN ids[n - 1] ELSE None,
                             after  |-> IF n > 0 /\ n < Len(ids) THEN ids[n + 1] ELSE None]
  BY DEF NeighborsOf, n
<1> QED
  BY <1>2, <1>3, <1>4 DEF Neighbors

LEMMA WithoutTyped ==
  ASSUME NEW S, NEW ids \in Seq(S), NEW x
  PROVE  Without(ids, x) \in Seq(S) /\ (ids = <<>> => Without(ids, x) = <<>>)
<1> DEFINE i == At(ids, x)
<1>1. Len(ids) \in Nat /\ i \in 0 .. Len(ids)
  BY AtIs
<1>2. Without(ids, x) = IF i = 0 THEN ids ELSE Cut(ids, i)
  BY DEF Without, Cut, SX!RemoveAt
<1> HIDE DEF i
<1>3. CASE i = 0
  BY <1>2, <1>3
<1>4. CASE i # 0
  <2>1. i \in 1 .. Len(ids)
    BY <1>1, <1>4
  <2>2. Cut(ids, i) \in Seq(S)
    BY <2>1, RemovedAt
  <2>3. ids # <<>>
    BY <2>1
  <2> QED
    BY <1>2, <1>4, <2>2, <2>3
<1> QED
  BY <1>3, <1>4

LEMMA InsertTyped ==
  ASSUME NEW S, NEW ids \in Seq(S), NEW x \in S, NEW i \in 1 .. (Len(ids) + 1)
  PROVE  SX!InsertAt(ids, i, x) \in Seq(S)
<1>1. SX!InsertAt(ids, i, x) = Splice(ids, i, x)
  BY DEF SX!InsertAt, Splice
<1>2. Splice(ids, i, x) \in Seq(S)
  BY InsertedAt
<1> QED
  BY <1>1, <1>2

LEMMA ContainerIs ==
  ASSUME NEW order, NEW x, NEW i, i = FindContainer(order, x), i # None
  PROVE  i \in DOMAIN order /\ (i = x \/ SX!Contains(order[i], x))
<1> DEFINE holders == {j \in DOMAIN order : j = x \/ SX!Contains(order[j], x)}
<1>1. i = IF holders = {} THEN None ELSE CHOOSE j \in holders : TRUE
  BY DEF FindContainer
<1>2. holders # {} => (CHOOSE j \in holders : TRUE) \in holders
  OBVIOUS
<1>3. i \in holders
  <2> HIDE DEF holders
  <2> QED
    BY <1>1, <1>2
<1> QED
  BY <1>3

\* The preview of a card's drag keeps its columns.
LEMMA CrossedTyped ==
  ASSUME NEW S \in SUBSET ColumnIds, NEW order \in [S -> Seq(Cards)], NEW k \in Cards, NEW over
  PROVE  Crossed(order, k, over) \in [S -> Seq(Cards)]
<1> DEFINE from == FindContainer(order, k)
           to   == FindContainer(order, over)
           at   == IF At(order[to], over) > 0 THEN At(order[to], over) ELSE Len(order[to]) + 1
           w    == Without(order[from], k)
           v    == SX!InsertAt(order[to], at, k)
<1>1. CASE from = None \/ to = None \/ from = to
  BY <1>1 DEF Crossed
<1>2. CASE ~(from = None \/ to = None \/ from = to)
  <2>1. from \in S /\ to \in S /\ order[from] \in Seq(Cards) /\ order[to] \in Seq(Cards)
    BY <1>2, ContainerIs
  <2>2. Crossed(order, k, over)
          = [order EXCEPT ![from] = Without(@, k), ![to] = SX!InsertAt(@, at, k)]
    BY <1>2 DEF Crossed
  <2>3. Crossed(order, k, over) = [order EXCEPT ![from] = w, ![to] = v]
    BY <1>2, <2>1, <2>2
  <2>4. at \in 1 .. (Len(order[to]) + 1)
    <3> DEFINE list == order[to]
               n == At(list, over)
    <3>1. list \in Seq(Cards) /\ Len(list) \in Nat
      BY <2>1
    <3>2. at = IF n > 0 THEN n ELSE Len(list) + 1
      OBVIOUS
    <3> HIDE DEF list, at
    <3>3. n \in 0 .. Len(list)
      BY <3>1, AtIs
    <3> HIDE DEF n
    <3>4. at \in 1 .. (Len(list) + 1)
      BY <3>1, <3>2, <3>3
    <3> QED
      BY <3>4 DEF list
  <2>5. w \in Seq(Cards)
    BY <2>1, WithoutTyped
  <2>6. v \in Seq(Cards)
    <3> HIDE DEF at, to
    <3> QED
      BY <2>1, <2>4, InsertTyped
  <2> HIDE DEF w, v, from, to
  <2> QED
    BY <2>1, <2>3, <2>5, <2>6
<1> QED
  BY <1>1, <1>2

\* A cache: no cards stand in a column that is gone.
IsCache(table, cards) ==
  /\ table \in Table /\ cards \in [ColumnIds -> Seq(Cards)]
  /\ \A i \in ColumnIds : table[i] = Gone => cards[i] = <<>>

Events == [kind : Kinds, column : ColumnIds, rank : StoredRanks]

\* A transaction writes its own column, whose rank is then what it answers.
OwnRank(r) ==
  /\ pc[r] \notin {"idle", "done"} => ask[r].kind \in Kinds
  /\ pc[r] \in {"writing", "respacing"} =>
       \/ held[r][ask[r].column] \in StoredRanks
       \/ \E n \in 1 .. Len(todo[r]) : todo[r][n].id = ask[r].column
  /\ pc[r] \in {"committed", "ok"} => result[r] \in StoredRanks

AnswersTyped ==
  /\ DOMAIN result = Reqs
  /\ wire \in Seq(Events)
  /\ \A r \in Reqs : OwnRank(r)

IsCall(c) ==
  /\ c = [stage |-> c.stage, card |-> c.card, column |-> c.column, between |-> c.between,
          back |-> c.back]
  /\ c.stage \in {"open", "toast"} => c.card \in Cards

\* The snapshot of a move that is open is a cache that a failure can put back.
PageTyped ==
  /\ IsCache(known, rows)
  /\ DOMAIN call = CardCalls /\ DOMAIN snapshot = CardCalls \cup Own
  /\ \A m \in CardCalls : IsCall(call[m])
  /\ \A r \in Own : pc[r] \notin {"idle", "done"} => IsCache(snapshot[r][1], snapshot[r][2])
  /\ \A m \in CardCalls : call[m].stage = "open" => IsCache(snapshot[m][1], snapshot[m][2])

\* While no answer has reset the drag, its preview is where the pointer has taken it.
ColumnHeld ==
  grabbed \in ColumnIds /\ ~wiped =>
    /\ columnOrder = aim.order /\ columnOrder # None
    /\ columnStart = aim.from /\ columnStart # None

CardHeld ==
  grabbed \in Cards /\ ~wiped =>
    /\ aim = [order |-> aim.order, from |-> aim.from]
    /\ dragOrder = aim.order /\ \E S \in SUBSET ColumnIds : dragOrder \in [S -> Seq(Cards)]
    /\ start = aim.from /\ start # None


\* A card that is put somewhere leaves a cache.
LEMMA PlacedTyped ==
  ASSUME IsCache(known, rows), NEW k \in Cards, NEW column, NEW between
  PROVE  IsCache(known, Placed(k, column, between))
<1> DEFINE cleared == [i \in ColumnIds |-> Without(rows[i], k)]
           list    == cleared[column]
           b       == At(list, between.before)
           a       == At(list, between.after)
           at      == IF b > 0 THEN b + 1 ELSE IF a > 0 THEN a ELSE Len(list) + 1
           v       == SX!InsertAt(list, at, k)
<1>1. /\ known \in Table /\ rows \in [ColumnIds -> Seq(Cards)]
      /\ \A i \in ColumnIds : known[i] = Gone => rows[i] = <<>>
  BY DEF IsCache
<1>2. /\ cleared \in [ColumnIds -> Seq(Cards)]
      /\ \A i \in ColumnIds : known[i] = Gone => cleared[i] = <<>>
  <2>1. \A i \in ColumnIds : /\ Without(rows[i], k) \in Seq(Cards)
                             /\ rows[i] = <<>> => Without(rows[i], k) = <<>>
    BY <1>1, WithoutTyped
  <2> QED
    BY <1>1, <2>1
<1>3. Placed(k, column, between) = IF FindContainer(rows, k) = None THEN rows
                                   ELSE IF known[column] = Gone THEN cleared
                                   ELSE [cleared EXCEPT ![column] = v]
  BY DEF Placed
<1>4. ASSUME column \in ColumnIds PROVE v \in Seq(Cards)
  <2>1. list \in Seq(Cards)
    BY <1>2, <1>4
  <2> HIDE DEF list
  <2>2. Len(list) \in Nat
    BY <2>1
  <2>3. b \in 0 .. Len(list) /\ a \in 0 .. Len(list)
    BY <2>2, AtIs
  <2> HIDE DEF a, b
  <2>4. at \in 1 .. (Len(list) + 1)
    BY <2>2, <2>3
  <2> HIDE DEF at
  <2> QED
    BY <2>1, <2>4, InsertTyped
<1> HIDE DEF cleared, v
<1>5. CASE FindContainer(rows, k) = None
  BY <1>3, <1>5
<1>6. CASE FindContainer(rows, k) # None /\ known[column] = Gone
  BY <1>1, <1>2, <1>3, <1>6 DEF IsCache
<1>7. CASE FindContainer(rows, k) # None /\ known[column] # Gone
  <2> DEFINE w == [cleared EXCEPT ![column] = v]
  <2>1. w \in [ColumnIds -> Seq(Cards)]
    BY <1>2, <1>4
  <2>2. \A i \in ColumnIds : i # column => w[i] = cleared[i]
    BY <1>2
  <2>3. \A i \in ColumnIds : known[i] = Gone => w[i] = <<>>
    BY <1>2, <1>7, <2>2
  <2> HIDE DEF w
  <2>4. IsCache(known, w)
    BY <1>1, <2>1, <2>3 DEF IsCache
  <2> QED
    BY <1>3, <1>7, <2>4 DEF w
<1> QED
  BY <1>5, <1>6, <1>7

-----------------------------------------------------------------------------
(* Answers and events carry ranks. *)

\* A move writes the row of its column, among the others or alone.
LEMMA MoveWritesOwn ==
  ASSUME cols \in Table, NEW r, ask[r].column \in ColumnIds, Positioned(r),
         NEW others, others = Listed(cols, Present(cols) \ {ask[r].column}),
         NEW bounds, bounds = ResolveNeighborBounds(others, ask[r].before, ask[r].after, ask[r].position),
         NEW writes, writes = MoveWrites(r, others, bounds)
  PROVE  \E n \in 1 .. Len(writes) : writes[n].id = ask[r].column
<1> DEFINE x == ask[r].column
           s == IdsOf(others)
           rank == Between(bounds.lower, bounds.upper)
           order == SX!InsertAt(s, bounds.index + 1, x)
<1>1. x \in ColumnIds /\ others = Listed(cols, Present(cols) \ {x})
  OBVIOUS
<1>2. s \in Seq(ColumnIds) /\ Len(s) = Len(others) /\ bounds.index \in 0 .. Len(others)
  <2> DEFINE ids == Present(cols) \ {x}
  <2>1. ids \subseteq Present(cols) /\ others = Listed(cols, ids)
    OBVIOUS
  <2> HIDE DEF ids
  <2>2. SortedRows(others, ids, cols) /\ Sorted(others, RankedRows(ids, cols))
        /\ \A n \in 1 .. Len(others) : others[n].id \in ColumnIds
    BY <2>1, TableListed
  <2>3. \A n \in 1 .. Len(others) : others[n].id # None
    BY <2>2, IdAssumption
  <2>5. bounds.index \in 0 .. Len(others)
    BY <2>2, <2>3, BoundsAre DEF Positioned
  <2>6. s \in Seq(ColumnIds) /\ Len(s) = Len(others)
    BY <2>1, IdsAre
  <2> QED
    BY <2>5, <2>6
<1>3. writes = IF Len(rank) <= Threshold THEN <<[id |-> x, rank |-> rank]>> ELSE Spaced(order)
  BY DEF MoveWrites
<1>4. order \in Seq(ColumnIds) /\ \E n \in 1 .. Len(order) : order[n] = x
  <2> DEFINE i == bounds.index + 1
  <2>1. i \in 1 .. (Len(s) + 1) /\ order = Splice(s, i, x)
    BY <1>2 DEF SX!InsertAt, Splice
  <2> HIDE DEF s, i, order, x
  <2>2. order \in Seq(ColumnIds) /\ Len(order) = Len(s) + 1 /\ Len(s) \in Nat /\ order[i] = x
    BY <1>1, <1>2, <2>1, InsertedAt
  <2>3. i \in 1 .. Len(order)
    BY <2>1, <2>2
  <2> QED
    BY <2>2, <2>3
<1>5. CASE writes = <<[id |-> x, rank |-> rank]>>
  <2>1. Len(writes) = 1 /\ writes[1].id = x
    BY <1>5
  <2> QED
    BY <2>1
<1>6. CASE writes = Spaced(order)
  <2> HIDE DEF order
  <2>1. /\ Len(Spaced(order)) = Len(order)
        /\ \A n \in 1 .. Len(order) : Spaced(order)[n].id = order[n]
    <3>1. PICK T : T = ColumnIds
      OBVIOUS
    <3>2. order \in Seq(T)
      BY <1>4, <3>1
    <3> QED
      BY <3>2, SpacedIs
  <2> QED
    BY <1>4, <1>6, <2>1
<1> QED
  BY <1>3, <1>5, <1>6

LEMMA StillOwnRank ==
  ASSUME NEW q, OwnRank(q), ask'[q] = ask[q], pc'[q] = pc[q], todo'[q] = todo[q],
         held'[q] = held[q], result'[q] = result[q]
  PROVE  OwnRank(q)'
BY DEF OwnRank

\* A step of one handler.
LEMMA HandleOwnRank ==
  ASSUME RInv, AnswersTyped, NEW r \in Reqs, Handle(r)
  PROVE  OwnRank(r)'
<1> DEFINE x == ask[r].column
<1>1. /\ DOMAIN pc = Reqs /\ DOMAIN ask = Reqs /\ DOMAIN result = Reqs /\ OwnRank(r)
      /\ todo \in [Reqs -> Writes]
      /\ held \in [Reqs -> [ColumnIds -> StoredRanks \cup {Untouched}]]
      /\ cols \in Table /\ Positioned(r)
      /\ pc[r] \notin {"idle", "done"} => x \in ColumnIds
      /\ pc[r] \notin {"writing", "respacing"} => todo[r] = <<>>
  BY DEF RInv, ServerTyped, AnswersTyped
<1>2. ask' = ask
  BY HandleLeavesOthers
<1>3. ASSUME Fail(r), pc[r] \notin {"idle", "done"} PROVE OwnRank(r)'
  <2>1. pc'[r] = "failed"
    BY <1>1, <1>3 DEF Fail
  <2> QED
    BY <1>1, <1>2, <1>3, <2>1 DEF OwnRank
<1>4. ASSUME NEW writes, NEW interval, NEW isFresh, Begin(r, writes, interval, isFresh),
             pc[r] = "sent",
             \E n \in 1 .. Len(writes) : writes[n].id = x
      PROVE  OwnRank(r)'
  <2>1. pc'[r] = "writing" /\ todo'[r] = writes
    BY <1>1, <1>4 DEF Begin
  <2> QED
    BY <1>1, <1>2, <1>4, <2>1 DEF OwnRank
<1>5. CASE ReadForMove(r)
  <2> DEFINE others == Listed(cols, Present(cols) \ {x})
             bounds == ResolveNeighborBounds(others, ask[r].before, ask[r].after, ask[r].position)
             writes == MoveWrites(r, others, bounds)
  <2>1. pc[r] = "sent"
    BY <1>5 DEF ReadForMove
  <2>2. \E n \in 1 .. Len(writes) : writes[n].id = x
    <3>1. /\ others = Listed(cols, Present(cols) \ {ask[r].column})
          /\ bounds = ResolveNeighborBounds(others, ask[r].before, ask[r].after, ask[r].position)
          /\ writes = MoveWrites(r, others, bounds) /\ ask[r].column \in ColumnIds
      BY <1>1, <2>1
    <3> HIDE DEF others, bounds, writes
    <3>2. \E n \in 1 .. Len(writes) : writes[n].id = ask[r].column
      BY <1>1, <3>1, MoveWritesOwn
    <3> QED
      BY <3>2
  <2>3. Fail(r) \/ \E isFresh : Begin(r, writes, IntervalOf(bounds), isFresh)
    BY <1>5 DEF ReadForMove
  <2> HIDE DEF writes, x
  <2> QED
    BY <1>3, <1>4, <2>1, <2>2, <2>3
<1>6. CASE ReadForCreate(r)
  <2> DEFINE rank == Between(LastRank, Last)
             writes == <<[id |-> x, rank |-> rank]>>
             interval == [lower |-> LastRank, upper |-> Last]
  <2>1. pc[r] = "sent" /\ Begin(r, writes, interval, TRUE)
    BY <1>6 DEF ReadForCreate
  <2> HIDE DEF rank, x
  <2>2. \E n \in 1 .. Len(writes) : writes[n].id = x
    <3>1. Len(writes) = 1 /\ writes[1].id = x
      OBVIOUS
    <3> HIDE DEF writes
    <3> QED
      BY <3>1
  <2>3. PICK isFresh : isFresh = TRUE
    OBVIOUS
  <2> HIDE DEF writes, interval
  <2>4. Begin(r, writes, interval, isFresh)
    BY <2>1, <2>3
  <2> QED
    BY <1>4, <2>1, <2>2, <2>4
<1>7. CASE Relist(r)
  <2>1. /\ pc[r] = "writing" /\ todo[r] = <<>> /\ pc'[r] = "respacing" /\ held' = held
    BY <1>1, <1>7 DEF Relist, Inserts
  <2>2. held[r][x] \in StoredRanks
    BY <1>1, <2>1 DEF OwnRank
  <2> QED
    BY <1>1, <1>2, <2>1, <2>2 DEF OwnRank
<1>8. CASE Write(r)
  <2> DEFINE next == Head(todo[r])
  <2>1. pc[r] \in {"writing", "respacing"} /\ todo[r] # <<>>
    BY <1>8 DEF Write
  <2>2. CASE Fail(r)
    BY <1>3, <2>1, <2>2
  <2>3. CASE /\ held' = [held EXCEPT ![r][next.id] = next.rank]
             /\ todo' = [todo EXCEPT ![r] = Tail(@)]
             /\ pc' = pc
    <3> DEFINE T == [id : ColumnIds, rank : StoredRanks]
               writes == todo[r]
    <3>1. writes \in Seq(T) /\ writes # <<>>
      BY <1>1, <2>1 DEF Writes
    <3> HIDE DEF T, writes
    <3>2. /\ Head(writes) \in T /\ Head(writes) = writes[1] /\ Len(writes) \in Nat
          /\ Len(Tail(writes)) = Len(writes) - 1
          /\ \A n \in 1 .. Len(Tail(writes)) : Tail(writes)[n] = writes[n + 1]
      BY <3>1
    <3>3. next \in T /\ next = writes[1] /\ todo'[r] = Tail(writes)
      BY <1>1, <2>3, <3>2 DEF writes
    <3>4. next.id \in ColumnIds /\ next.rank \in StoredRanks
      BY <3>3 DEF T
    <3> HIDE DEF next, x
    <3>5. \A i \in ColumnIds : held'[r][i] = IF i = next.id THEN next.rank ELSE held[r][i]
      <4> DEFINE row == [held[r] EXCEPT ![next.id] = next.rank]
      <4>1. held' = [held EXCEPT ![r] = row]
        BY <2>3
      <4>2. \A i \in ColumnIds : row[i] = IF i = next.id THEN next.rank ELSE held[r][i]
        BY <1>1, <3>4
      <4> HIDE DEF row
      <4>3. held'[r] = row
        BY <1>1, <4>1
      <4> QED
        BY <4>2, <4>3
    <3>6. x \in ColumnIds
      BY <1>1, <2>1
    <3>7. \/ held'[r][x] \in StoredRanks
          \/ \E n \in 1 .. Len(todo'[r]) : todo'[r][n].id = x
      <4>1. CASE held[r][x] \in StoredRanks \/ next.id = x
        BY <3>4, <3>5, <3>6, <4>1
      <4>2. CASE ~(held[r][x] \in StoredRanks \/ next.id = x)
        <5>1. PICK n \in 1 .. Len(writes) : writes[n].id = x
          BY <1>1, <2>1, <4>2 DEF OwnRank, x, writes
        <5>2. n # 1
          BY <3>3, <4>2, <5>1
        <5>3. n - 1 \in 1 .. Len(Tail(writes)) /\ n - 1 + 1 = n
          BY <3>2, <5>2
        <5>4. Tail(writes)[n - 1] = writes[n]
          BY <3>2, <5>3
        <5> QED
          BY <3>3, <5>1, <5>3, <5>4
      <4> QED
        BY <4>1, <4>2
    <3> QED
      BY <1>1, <1>2, <2>1, <2>3, <3>7 DEF OwnRank, x
  <2> QED
    BY <1>8, <2>2, <2>3 DEF Write
<1>9. CASE Commit(r)
  <2>1. /\ pc[r] \in {"writing", "respacing"} /\ todo[r] = <<>>
        /\ pc'[r] = "committed" /\ result'[r] = held[r][x]
    BY <1>1, <1>9 DEF Commit, Committed
  <2>2. held[r][x] \in StoredRanks
    BY <1>1, <2>1 DEF OwnRank
  <2> QED
    BY <1>1, <1>2, <2>1, <2>2 DEF OwnRank
<1>10. CASE Statement(r)
  <2>1. CASE Fail(r)
    BY <1>3, <1>10, <2>1 DEF Statement
  <2>2. CASE ~Fail(r)
    <3>1. /\ pc[r] = "sent" /\ pc'[r] = "committed" /\ cols[x] # Gone /\ result'[r] = cols[x]
      BY <1>1, <1>10, <2>2 DEF Statement, Committed
    <3>2. cols[x] \in StoredRanks
      BY <1>1, <3>1 DEF Table
    <3> QED
      BY <1>1, <1>2, <3>1, <3>2 DEF OwnRank
  <2> QED
    BY <2>1, <2>2
<1>11. CASE Announce(r)
  <2>1. pc[r] = "committed" /\ pc'[r] = "ok" /\ result' = result
    BY <1>1, <1>11 DEF Announce
  <2> QED
    BY <1>1, <1>2, <2>1 DEF OwnRank
<1>12. CASE DeadlockVictim(r)
  <2>1. Fail(r) /\ \E q \in Reqs : WaitsFor(r, q)
    BY <1>12 DEF DeadlockVictim
  <2>2. pc[r] \in {"writing", "respacing"}
    BY <1>1, <2>1 DEF WaitsFor
  <2> QED
    BY <1>3, <2>1, <2>2
<1> QED
  BY <1>5, <1>6, <1>7, <1>8, <1>9, <1>10, <1>11, <1>12 DEF Handle

LEMMA HandleAnswers ==
  ASSUME RInv, AnswersTyped, NEW r \in Reqs, Handle(r)
  PROVE  AnswersTyped'
<1>1. /\ ask' = ask
      /\ \A q \in Reqs \ {r} : pc'[q] = pc[q] /\ todo'[q] = todo[q] /\ held'[q] = held[q]
  BY HandleLeavesOthers
<1>2. DOMAIN result' = Reqs /\ \A q \in Reqs \ {r} : result'[q] = result[q]
  BY DEF AnswersTyped, Handle, ReadForMove, ReadForCreate, Relist, Write, Commit, Statement,
     Announce, DeadlockVictim, Fail, Begin
<1>3. wire' \in Seq(Events)
  <2>1. CASE Announce(r)
    <3> DEFINE e == [kind |-> ask[r].kind, column |-> ask[r].column, rank |-> result[r]]
    <3>1. wire' = Append(wire, e) /\ pc[r] = "committed"
      BY <2>1 DEF Announce
    <3>2. e \in Events
      BY <3>1 DEF Events, AnswersTyped, OwnRank, RInv, ServerTyped
    <3> HIDE DEF e
    <3> QED
      BY <3>1, <3>2 DEF AnswersTyped
  <2>2. CASE ~Announce(r)
    <3>1. wire' = wire
      BY <2>2 DEF Handle, ReadForMove, ReadForCreate, Relist, Write, Commit, Committed, Statement,
         DeadlockVictim, Fail, Begin
    <3> QED
      BY <3>1 DEF AnswersTyped
  <2> QED
    BY <2>1, <2>2
<1>4. \A q \in Reqs : OwnRank(q)'
  <2>1. OwnRank(r)'
    BY HandleOwnRank
  <2>2. \A q \in Reqs \ {r} : OwnRank(q)'
    BY <1>1, <1>2, StillOwnRank DEF AnswersTyped
  <2> QED
    BY <2>1, <2>2
<1> QED
  BY <1>2, <1>3, <1>4 DEF AnswersTyped

\* The page sends a request, or takes an answer.
LEMMA PageAnswers ==
  ASSUME RInv, AnswersTyped, UNCHANGED <<todo, held, result, wire>>,
         NEW r \in Reqs, NEW stage \in {"sent", "done"}, pc' = [pc EXCEPT ![r] = stage],
         \A q \in Reqs \ {r} : ask'[q] = ask[q],
         stage = "sent" => ask'[r].kind \in Kinds
  PROVE  AnswersTyped'
<1>1. DOMAIN pc = Reqs
  BY DEF RInv, ServerTyped
<1>2. pc'[r] = stage /\ \A q \in Reqs \ {r} : pc'[q] = pc[q]
  BY <1>1
<1>3. OwnRank(r)'
  BY <1>2 DEF OwnRank
<1>4. \A q \in Reqs \ {r} : OwnRank(q)'
  BY <1>2, StillOwnRank DEF AnswersTyped
<1> QED
  BY <1>3, <1>4 DEF AnswersTyped

LEMMA StillAnswers ==
  ASSUME AnswersTyped, UNCHANGED <<ask, pc, todo, held, result>>, wire' \in Seq(Events)
  PROVE  AnswersTyped'
BY StillOwnRank DEF AnswersTyped

\* The event that is delivered.
LEMMA NextEvent ==
  ASSUME AnswersTyped, wire # <<>>
  PROVE  Head(wire) \in Events /\ Tail(wire) \in Seq(Events)
<1>1. wire \in Seq(Events)
  BY DEF AnswersTyped
<1> QED
  BY <1>1

-----------------------------------------------------------------------------
(* The page's cache, and the copies it may put back. *)

LEMMA HandlesOpen ==
  ASSUME RInv, NEW r \in Reqs, Handle(r)
  PROVE  pc[r] \notin {"idle", "done"}
<1>1. CASE DeadlockVictim(r)
  <2>1. \E q \in Reqs : WaitsFor(r, q)
    BY <1>1 DEF DeadlockVictim
  <2> QED
    BY <2>1 DEF WaitsFor, RInv, ServerTyped
<1> QED
  BY <1>1 DEF Handle, ReadForMove, ReadForCreate, Relist, Inserts, Write, Commit, Statement, Announce

\* Snapshots that were caches before, or are now.
LEMMA PageStep ==
  ASSUME PageTyped, IsCache(known', rows'),
         DOMAIN call' = CardCalls, DOMAIN snapshot' = CardCalls \cup Own,
         \A m \in CardCalls : IsCall(call'[m]),
         \A r \in Own : pc'[r] \notin {"idle", "done"} =>
           \/ pc[r] \notin {"idle", "done"} /\ snapshot'[r] = snapshot[r]
           \/ IsCache(snapshot'[r][1], snapshot'[r][2]),
         \A m \in CardCalls : call'[m].stage = "open" =>
           \/ call[m].stage = "open" /\ snapshot'[m] = snapshot[m]
           \/ IsCache(snapshot'[m][1], snapshot'[m][2])
  PROVE  PageTyped'
<1>1. \A r \in Own : pc'[r] \notin {"idle", "done"} => IsCache(snapshot'[r][1], snapshot'[r][2])
  BY DEF PageTyped
<1>2. \A m \in CardCalls : call'[m].stage = "open" => IsCache(snapshot'[m][1], snapshot'[m][2])
  BY DEF PageTyped
<1> QED
  BY <1>1, <1>2 DEF PageTyped, IsCache, Table, IsCall

\* A step that makes no call and takes no answer.
LEMMA StillPage ==
  ASSUME PageTyped, IsCache(known', rows'), UNCHANGED <<call, snapshot>>,
         \A r \in Own : pc'[r] \notin {"idle", "done"} => pc[r] \notin {"idle", "done"}
  PROVE  PageTyped'
BY PageStep DEF PageTyped

LEMMA ServePage ==
  ASSUME RInv, PageTyped, NEW r \in Reqs, Serve(r)
  PROVE  PageTyped'
<1>1. Handle(r) /\ UNCHANGED <<known, rows, call, snapshot>>
  BY DEF Serve, cache, calls
<1>2. IsCache(known', rows')
  BY <1>1 DEF PageTyped
<1>3. \A q \in Own : pc'[q] \notin {"idle", "done"} => pc[q] \notin {"idle", "done"}
  BY <1>1, HandlesOpen, HandleLeavesOthers, OwnAssumption
<1> QED
  BY <1>1, <1>2, <1>3, StillPage

LEMMA DropColumnPage ==
  ASSUME RInv, PageTyped, NEW over, DropColumn(over)
  PROVE  PageTyped'
<1> DEFINE final == MoveOnto(columnOrder, grabbed, over)
<1>1. CASE UNCHANGED <<server, cache, calls>>
  <2>1. IsCache(known', rows')
    BY <1>1 DEF PageTyped, cache
  <2> QED
    BY <1>1, <2>1, StillPage DEF server, calls
<1>2. CASE \E r \in Own : pc[r] = "idle" /\ MoveColumn(r, grabbed, final)
  <2>1. PICK r \in Own : pc[r] = "idle" /\ MoveColumn(r, grabbed, final)
    BY <1>2
  <2>2. /\ pc' = [pc EXCEPT ![r] = "sent"]
        /\ snapshot' = [snapshot EXCEPT ![r] = <<known, rows>>]
        /\ UNCHANGED <<known, rows, call>>
    BY <2>1 DEF MoveColumn, cache
  <2>3. /\ DOMAIN pc = Reqs /\ r \in Reqs /\ r \notin CardCalls
        /\ DOMAIN snapshot = CardCalls \cup Own
        /\ IsCache(known, rows)
    BY OwnAssumption DEF RInv, ServerTyped, PageTyped
  <2>4. /\ DOMAIN snapshot' = CardCalls \cup Own
        /\ snapshot'[r] = <<known, rows>>
        /\ \A q \in Own \ {r} : pc'[q] = pc[q] /\ snapshot'[q] = snapshot[q]
        /\ \A m \in CardCalls : snapshot'[m] = snapshot[m]
    BY <2>2, <2>3, OwnAssumption
  <2>5. IsCache(known', rows') /\ IsCache(snapshot'[r][1], snapshot'[r][2])
    BY <2>2, <2>3, <2>4
  <2>6. \A q \in Own : pc'[q] \notin {"idle", "done"} =>
          \/ pc[q] \notin {"idle", "done"} /\ snapshot'[q] = snapshot[q]
          \/ IsCache(snapshot'[q][1], snapshot'[q][2])
    BY <2>4, <2>5
  <2>7. /\ DOMAIN call' = CardCalls /\ \A m \in CardCalls : IsCall(call'[m])
        /\ \A m \in CardCalls : call'[m].stage = "open" =>
             call[m].stage = "open" /\ snapshot'[m] = snapshot[m]
    BY <2>2, <2>4 DEF PageTyped
  <2> QED
    BY <2>4, <2>5, <2>6, <2>7, PageStep
<1> QED
  BY <1>1, <1>2 DEF DropColumn

LEMMA AnswerColumnPage ==
  ASSUME RInv, AnswersTyped, PageTyped, NEW r \in Reqs, AnswerColumn(r)
  PROVE  PageTyped'
<1>1. /\ r \in Own /\ pc[r] \in {"ok", "failed"} /\ pc' = [pc EXCEPT ![r] = "done"]
      /\ snapshot' = [snapshot EXCEPT ![r] = None] /\ call' = call
  BY DEF AnswerColumn
<1>2. /\ DOMAIN pc = Reqs /\ r \notin CardCalls /\ DOMAIN snapshot = CardCalls \cup Own
  BY <1>1, OwnAssumption DEF RInv, ServerTyped, PageTyped
<1>3. /\ DOMAIN snapshot' = CardCalls \cup Own /\ pc'[r] = "done"
      /\ \A q \in Own \ {r} : pc'[q] = pc[q] /\ snapshot'[q] = snapshot[q]
      /\ \A m \in CardCalls : snapshot'[m] = snapshot[m]
  BY <1>1, <1>2, OwnAssumption
<1>4. IsCache(known', rows')
  <2>1. CASE pc[r] = "failed"
    <3>1. IsCache(snapshot[r][1], snapshot[r][2])
      BY <1>1 DEF PageTyped
    <3>2. known' = snapshot[r][1] /\ rows' = snapshot[r][2]
      BY <2>1 DEF AnswerColumn
    <3> QED
      BY <3>1, <3>2
  <2>2. CASE pc[r] = "ok"
    <3> DEFINE x == ask[r].column
    <3>1. /\ known' = [known EXCEPT ![x] = IF @ = Gone THEN Gone ELSE result[r]]
          /\ rows' = rows
      BY <2>2 DEF AnswerColumn
    <3>2. result[r] \in StoredRanks
      BY <2>2 DEF AnswersTyped, OwnRank
    <3> HIDE DEF x
    <3>3. /\ known' \in Table
          /\ \A i \in ColumnIds : known'[i] = Gone => known[i] = Gone
      <4>1. result[r] # Gone
        BY <3>2, RowAssumption DEF StoredRanks
      <4> QED
        BY <3>1, <3>2, <4>1 DEF PageTyped, IsCache, Table
    <3> QED
      BY <3>1, <3>3 DEF PageTyped, IsCache
  <2> QED
    BY <1>1, <2>1, <2>2
<1>5. \A q \in Own : pc'[q] \notin {"idle", "done"} =>
        pc[q] \notin {"idle", "done"} /\ snapshot'[q] = snapshot[q]
  BY <1>3
<1>6. /\ DOMAIN call' = CardCalls /\ \A m \in CardCalls : IsCall(call'[m])
      /\ \A m \in CardCalls : call'[m].stage = "open" =>
           call[m].stage = "open" /\ snapshot'[m] = snapshot[m]
  BY <1>1, <1>3 DEF PageTyped
<1> QED
  BY <1>3, <1>4, <1>5, <1>6, PageStep

\* A step of one card's call.
LEMMA CallPage ==
  ASSUME PageTyped, IsCache(known', rows'), UNCHANGED pc, NEW m \in CardCalls, NEW snap,
         snapshot' = [snapshot EXCEPT ![m] = snap],
         DOMAIN call' = CardCalls, \A q \in CardCalls : IsCall(call'[q]),
         \A q \in CardCalls \ {m} : call'[q].stage = "open" => call[q].stage = "open",
         call'[m].stage = "open" => IsCache(snap[1], snap[2])
  PROVE  PageTyped'
<1>1. DOMAIN snapshot = CardCalls \cup Own /\ m \notin Own
  BY OwnAssumption DEF PageTyped
<1>2. /\ DOMAIN snapshot' = CardCalls \cup Own /\ snapshot'[m] = snap
      /\ \A q \in CardCalls \ {m} : snapshot'[q] = snapshot[q]
      /\ \A q \in Own : snapshot'[q] = snapshot[q]
  BY <1>1
<1>3. \A q \in Own : pc'[q] \notin {"idle", "done"} =>
        pc[q] \notin {"idle", "done"} /\ snapshot'[q] = snapshot[q]
  BY <1>2
<1>4. \A q \in CardCalls : call'[q].stage = "open" =>
        \/ call[q].stage = "open" /\ snapshot'[q] = snapshot[q]
        \/ IsCache(snapshot'[q][1], snapshot'[q][2])
  BY <1>2
<1> QED
  BY <1>2, <1>3, <1>4, PageStep

LEMMA IsCallOpen ==
  ASSUME NEW k \in Cards, NEW column, NEW between, NEW back,
         NEW c, c = [stage |-> "open", card |-> k, column |-> column, between |-> between,
                     back |-> back]
  PROVE  IsCall(c) /\ c.stage = "open"
BY DEF IsCall

LEMMA IsCallAnswered == IsCall(Answered) /\ Answered.stage = "done"
BY DEF IsCall, Answered, NoCall

LEMMA DropCardPage ==
  ASSUME PageTyped, NEW over, DropCard(over)
  PROVE  PageTyped'
<1> DEFINE drop == Dropped(dragOrder, grabbed, over)
<1>1. CASE UNCHANGED <<server, cache, calls>>
  <2>1. IsCache(known', rows')
    BY <1>1 DEF PageTyped, cache
  <2> QED
    BY <1>1, <2>1, StillPage DEF server, calls
<1>2. CASE \E m \in CardCalls : /\ call[m].stage = "idle"
                                /\ MoveTask(m, grabbed, drop.place, start)
  <2>1. PICK m \in CardCalls : MoveTask(m, grabbed, drop.place, start)
    BY <1>2
  <2>2. grabbed \in Cards
    BY DEF DropCard
  <2>3. PICK k, to, c :
          /\ k = grabbed /\ to = drop.place
          /\ c = [stage |-> "open", card |-> k, column |-> to.column, between |-> to.neighbors,
                  back |-> start]
    OBVIOUS
  <2>4. /\ call' = [call EXCEPT ![m] = c]
        /\ snapshot' = [snapshot EXCEPT ![m] = <<known, rows>>]
        /\ rows' = Placed(k, to.column, to.neighbors)
        /\ UNCHANGED <<pc, known>>
    BY <2>1, <2>3 DEF MoveTask, cache, server
  <2>5. IsCache(known', rows') /\ IsCache(known, rows)
    BY <2>2, <2>3, <2>4, PlacedTyped DEF PageTyped
  <2>6. IsCall(c) /\ c.stage = "open"
    <3>1. k \in Cards
      BY <2>2, <2>3
    <3> QED
      BY <2>3, <3>1, IsCallOpen
  <2>7. /\ DOMAIN call' = CardCalls /\ \A q \in CardCalls : IsCall(call'[q])
        /\ \A q \in CardCalls \ {m} : call'[q].stage = "open" => call[q].stage = "open"
    BY <2>4, <2>6 DEF PageTyped
  <2>8. PICK snap : snap = <<known, rows>>
    OBVIOUS
  <2>9. snapshot' = [snapshot EXCEPT ![m] = snap] /\ IsCache(snap[1], snap[2])
    BY <2>4, <2>5, <2>8
  <2>10. pc' = pc /\ IsCache(known', rows')
    BY <2>4, <2>5
  <2>11. call'[m].stage = "open" => IsCache(snap[1], snap[2])
    BY <2>9
  <2>12. \A q \in CardCalls : IsCall(call'[q])
    BY <2>7
  <2>13. \A q \in CardCalls \ {m} : call'[q].stage = "open" => call[q].stage = "open"
    BY <2>7
  <2> HIDE DEF drop
  <2> QED
    BY <2>7, <2>9, <2>10, <2>11, <2>12, <2>13, CallPage
<1> QED
  BY <1>1, <1>2 DEF DropCard

LEMMA UndoPage ==
  ASSUME PageTyped, NEW m \in CardCalls, Undo(m)
  PROVE  PageTyped'
<1>1. call[m].stage = "toast" /\ IsCall(call[m]) /\ call[m].card \in Cards
  BY DEF Undo, PageTyped, IsCall
<1>2. PICK k, to, n, c :
        /\ n \in CardCalls /\ call[n].stage = "idle"
        /\ k = call[m].card /\ to = call[m].back
        /\ c = [stage |-> "open", card |-> k, column |-> to.column, between |-> to.neighbors,
                back |-> None]
        /\ call' = [call EXCEPT ![m] = Answered, ![n] = c]
        /\ snapshot' = [snapshot EXCEPT ![n] = <<known, rows>>]
        /\ rows' = Placed(k, to.column, to.neighbors)
  <2>1. PICK k, to : k = call[m].card /\ to = call[m].back
    OBVIOUS
  <2>2. PICK n \in CardCalls :
          /\ call[n].stage = "idle"
          /\ call' = [call EXCEPT ![m] = Answered,
                        ![n] = [stage |-> "open", card |-> k, column |-> to.column,
                                between |-> to.neighbors, back |-> None]]
          /\ snapshot' = [snapshot EXCEPT ![n] = <<known, rows>>]
          /\ rows' = Placed(k, to.column, to.neighbors)
    BY <2>1 DEF Undo, cache
  <2> QED
    BY <2>1, <2>2
<1>3. UNCHANGED <<pc, known>>
  BY DEF Undo, server
<1>4. IsCache(known', rows') /\ IsCache(known, rows)
  BY <1>1, <1>2, <1>3, PlacedTyped DEF PageTyped
<1>5. IsCall(c) /\ c.stage = "open" /\ IsCall(Answered) /\ Answered.stage = "done"
  <2>1. k \in Cards
    BY <1>1, <1>2
  <2> QED
    BY <1>2, <2>1, IsCallOpen, IsCallAnswered
<1>6. /\ DOMAIN call' = CardCalls /\ call'[n] = c
      /\ \A q \in CardCalls \ {n} : call'[q] = Answered \/ call'[q] = call[q]
  BY <1>2 DEF PageTyped
<1>7. /\ \A q \in CardCalls : IsCall(call'[q])
      /\ \A q \in CardCalls \ {n} : call'[q].stage = "open" => call[q].stage = "open"
  BY <1>5, <1>6 DEF PageTyped
<1>8. PICK snap : snap = <<known, rows>>
  OBVIOUS
<1>9. snapshot' = [snapshot EXCEPT ![n] = snap] /\ IsCache(snap[1], snap[2])
  BY <1>2, <1>4, <1>8
<1>10. call'[n].stage = "open" => IsCache(snap[1], snap[2])
  BY <1>9
<1>11. n \in CardCalls /\ pc' = pc /\ IsCache(known', rows') /\ DOMAIN call' = CardCalls
  BY <1>2, <1>3, <1>4, <1>6
<1>12. \A q \in CardCalls : IsCall(call'[q])
  BY <1>7
<1>13. \A q \in CardCalls \ {n} : call'[q].stage = "open" => call[q].stage = "open"
  BY <1>7
<1> QED
  BY <1>9, <1>10, <1>11, <1>12, <1>13, CallPage

LEMMA AnswerCardPage ==
  ASSUME PageTyped, NEW m \in CardCalls, NEW ok \in BOOLEAN, AnswerCard(m, ok)
  PROVE  PageTyped'
<1> DEFINE current == newest[call[m].card] = m
<1>1. call[m].stage = "open" /\ IsCall(call[m]) /\ call[m].card \in Cards
  BY DEF AnswerCard, PageTyped, IsCall
<1>2. PICK c : /\ c = IF current /\ ok /\ call[m].back # None
                      THEN [call[m] EXCEPT !.stage = "toast"] ELSE Answered
               /\ call' = [call EXCEPT ![m] = c]
  BY DEF AnswerCard
<1>3. /\ snapshot' = [snapshot EXCEPT ![m] = None] /\ pc' = pc
      /\ IF ~current THEN UNCHANGED cache
         ELSE IF ok THEN rows' = Placed(call[m].card, call[m].column, call[m].between)
                         /\ UNCHANGED known
         ELSE known' = snapshot[m][1] /\ rows' = snapshot[m][2]
  BY DEF AnswerCard, server
<1>4. IsCache(known', rows')
  <2>1. IsCache(known, rows) /\ IsCache(snapshot[m][1], snapshot[m][2])
    BY <1>1 DEF PageTyped
  <2>2. IsCache(known, Placed(call[m].card, call[m].column, call[m].between))
    BY <1>1, <2>1, PlacedTyped
  <2> QED
    BY <1>3, <2>1, <2>2 DEF cache
<1>5. IsCall(c) /\ c.stage # "open"
  <2>1. CASE c = Answered
    BY <2>1, IsCallAnswered
  <2>2. CASE c = [call[m] EXCEPT !.stage = "toast"]
    <3>1. /\ DOMAIN call[m] = {"stage", "card", "column", "between", "back"}
      BY <1>1 DEF IsCall
    <3>2. /\ c.stage = "toast" /\ c.card = call[m].card /\ c.column = call[m].column
          /\ c.between = call[m].between /\ c.back = call[m].back
      BY <2>2, <3>1
    <3>3. c = [stage |-> c.stage, card |-> c.card, column |-> c.column, between |-> c.between,
               back |-> c.back]
      BY <1>1, <2>2 DEF IsCall
    <3> QED
      BY <1>1, <3>2, <3>3 DEF IsCall
  <2> QED
    BY <1>2, <2>1, <2>2
<1>6. /\ DOMAIN call' = CardCalls /\ call'[m] = c
      /\ \A q \in CardCalls : IsCall(call'[q])
      /\ \A q \in CardCalls \ {m} : call'[q].stage = "open" => call[q].stage = "open"
  BY <1>2, <1>5 DEF PageTyped
<1>7. PICK snap : snap = None
  OBVIOUS
<1>8. snapshot' = [snapshot EXCEPT ![m] = snap] /\ (call'[m].stage = "open" => FALSE)
  BY <1>3, <1>5, <1>6, <1>7
<1> QED
  BY <1>3, <1>4, <1>6, <1>8, CallPage

LEMMA DeliverPage ==
  ASSUME AnswersTyped, PageTyped, Deliver
  PROVE  PageTyped'
<1> DEFINE e == Head(wire)
<1>1. /\ wire # <<>> /\ UNCHANGED <<pc, call, snapshot>>
      /\ known' = [known EXCEPT ![e.column] =
                     CASE e.kind = "create" -> e.rank
                       [] e.kind = "remove" -> Gone
                       [] OTHER -> IF @ = Gone THEN Gone ELSE e.rank]
      /\ rows' = IF e.kind = "remove" THEN [rows EXCEPT ![e.column] = <<>>] ELSE rows
  BY DEF Deliver, calls
<1>2. e \in Events
  BY <1>1, NextEvent
<1> HIDE DEF e
<1>3. e.column \in ColumnIds /\ e.rank \in StoredRanks /\ e.rank # Gone
  BY <1>2, RowAssumption DEF Events, StoredRanks
<1>4. /\ known \in Table /\ rows \in [ColumnIds -> Seq(Cards)]
      /\ \A i \in ColumnIds : known[i] = Gone => rows[i] = <<>>
  BY DEF PageTyped, IsCache
<1>5. CASE e.kind = "remove"
  <2>1. known' = [known EXCEPT ![e.column] = Gone] /\ rows' = [rows EXCEPT ![e.column] = <<>>]
    BY <1>1, <1>5
  <2>2. <<>> \in Seq(Cards)
    OBVIOUS
  <2>3. IsCache(known', rows')
    BY <1>3, <1>4, <2>1, <2>2 DEF IsCache, Table
  <2> QED
    BY <1>1, <2>3, StillPage
<1>6. CASE e.kind # "remove"
  <2>1. PICK k : /\ known' = [known EXCEPT ![e.column] = k]
                 /\ k \in StoredRanks \cup {Gone} /\ (k = Gone => known[e.column] = Gone)
    <3>1. CASE e.kind = "create"
      <4>1. known' = [known EXCEPT ![e.column] = e.rank]
        BY <1>1, <3>1
      <4> QED
        BY <1>3, <1>4, <4>1 DEF Table
    <3>2. CASE e.kind # "create"
      <4>1. known' = [known EXCEPT ![e.column] = IF @ = Gone THEN Gone ELSE e.rank]
        BY <1>1, <1>6, <3>2
      <4> QED
        BY <1>3, <1>4, <4>1 DEF Table
    <3> QED
      BY <3>1, <3>2
  <2>2. known' \in Table /\ rows' = rows
    BY <1>1, <1>4, <1>6, <2>1 DEF Table
  <2>3. \A i \in ColumnIds : known'[i] = Gone => known[i] = Gone
    BY <1>3, <1>4, <2>1 DEF Table
  <2>4. IsCache(known', rows')
    BY <1>4, <2>2, <2>3 DEF IsCache
  <2> QED
    BY <1>1, <2>4, StillPage
<1> QED
  BY <1>5, <1>6

LEMMA RemoteCardPage ==
  ASSUME PageTyped, NEW k \in Cards, RemoteCard(k)
  PROVE  PageTyped'
<1>1. UNCHANGED <<pc, known, call, snapshot>> /\ IsCache(known, rows)
  BY DEF RemoteCard, server, calls, PageTyped
<1>2. CASE \E i \in Present(known) : rows' = Placed(k, i, [before |-> None, after |-> None])
  <2>1. PICK i, b : rows' = Placed(k, i, b)
    BY <1>2
  <2>2. IsCache(known', rows')
    BY <1>1, <2>1, PlacedTyped
  <2> QED
    BY <1>1, <2>2, StillPage
<1>3. CASE rows' = [i \in ColumnIds |-> Without(rows[i], k)]
  <2>1. \A i \in ColumnIds : /\ rows[i] \in Seq(Cards)
                             /\ known[i] = Gone => rows[i] = <<>>
    BY <1>1 DEF IsCache
  <2>2. \A i \in ColumnIds : /\ Without(rows[i], k) \in Seq(Cards)
                             /\ rows[i] = <<>> => Without(rows[i], k) = <<>>
    BY <2>1, WithoutTyped
  <2>3. IsCache(known', rows')
    BY <1>1, <1>3, <2>1, <2>2 DEF IsCache
  <2> QED
    BY <1>1, <2>3, StillPage
<1> QED
  BY <1>2, <1>3 DEF RemoteCard

-----------------------------------------------------------------------------
(* The preview of a drag, until an answer wipes it. *)

LEMMA NoneIsNothing ==
  /\ \A ids \in Seq(ColumnIds) : ids # None
  /\ \A beside \in Neighbors(ColumnIds) : beside # None
  /\ \A place \in Places : place # None
  /\ \A S \in SUBSET ColumnIds : \A order \in [S -> Seq(Cards)] : order # None
BY NoneAssumption

\* Nothing is held, or nothing of the drag has changed.
LEMMA StillHeld ==
  ASSUME ColumnHeld, CardHeld,
         \/ grabbed' \notin ColumnIds \cup Cards
         \/ wiped'
         \/ UNCHANGED <<grabbed, wiped, aim, drag>>
  PROVE  ColumnHeld' /\ CardHeld'
<1>1. CASE grabbed' \notin ColumnIds \cup Cards
  BY <1>1 DEF ColumnHeld, CardHeld
<1>2. CASE wiped'
  BY <1>2 DEF ColumnHeld, CardHeld
<1>3. CASE UNCHANGED <<grabbed, wiped, aim, drag>>
  <2>1. UNCHANGED <<grabbed, wiped, aim, dragOrder, start, columnOrder, columnStart>>
    BY <1>3 DEF drag
  <2>2. ColumnHeld'
    BY <2>1 DEF ColumnHeld
  <2>3. CardHeld'
    BY <2>1 DEF CardHeld
  <2> QED
    BY <2>2, <2>3
<1> QED
  BY <1>1, <1>2, <1>3

LEMMA PickUpColumnHeld ==
  ASSUME PageTyped, NEW i \in ColumnIds, PickUpColumn(i)
  PROVE  ColumnHeld' /\ CardHeld'
<1>1. /\ grabbed' = i /\ columnOrder' = OrderOf(known)
      /\ columnStart' = NeighborsOf(OrderOf(known), i)
      /\ aim' = [order |-> OrderOf(known), from |-> NeighborsOf(OrderOf(known), i)]
  BY DEF PickUpColumn
<1>2. known \in Table
  BY DEF PageTyped, IsCache
<1>3. OrderOf(known) \in Seq(ColumnIds)
  BY <1>2, IdsAre DEF OrderOf
<1>4. NeighborsOf(OrderOf(known), i) \in Neighbors(ColumnIds)
  BY <1>3, NeighborsTyped
<1>5. OrderOf(known) # None /\ NeighborsOf(OrderOf(known), i) # None
  BY <1>3, <1>4, NoneIsNothing
<1>6. ColumnHeld'
  BY <1>1, <1>5 DEF ColumnHeld
<1>7. CardHeld'
  BY <1>1, IdAssumption DEF CardHeld
<1> QED
  BY <1>6, <1>7

\* The card that is picked up stands in a column that is there.
LEMMA PickUpCardHeld ==
  ASSUME PageTyped, NEW k \in Cards, PickUpCard(k)
  PROVE  ColumnHeld' /\ CardHeld'
<1> DEFINE base == [i \in Present(known) |-> rows[i]]
           column == FindContainer(base, k)
<1>1. /\ grabbed' = k /\ FindContainer(rows, k) # None
      /\ dragOrder' = base /\ start' = Position(base, k)
      /\ aim' = [order |-> base, from |-> Position(base, k)]
  BY DEF PickUpCard
<1>2. /\ rows \in [ColumnIds -> Seq(Cards)]
      /\ \A i \in ColumnIds : known[i] = Gone => rows[i] = <<>>
  BY DEF PageTyped, IsCache
<1>3. Present(known) \in SUBSET ColumnIds /\ base \in [Present(known) -> Seq(Cards)]
  BY <1>2 DEF Present
<1>4. column \in Present(known)
  <2>1. PICK i \in ColumnIds : i = k \/ SX!Contains(rows[i], k)
    BY <1>1, <1>2, ContainerIs
  <2>2. SX!Contains(rows[i], k)
    BY <2>1, IdAssumption
  <2>3. rows[i] # <<>>
    BY <2>2 DEF SX!Contains
  <2>4. i \in Present(known) /\ SX!Contains(base[i], k)
    BY <1>2, <2>2, <2>3 DEF Present
  <2> DEFINE holders == {j \in DOMAIN base : j = k \/ SX!Contains(base[j], k)}
  <2>5. i \in holders /\ holders \subseteq Present(known)
    BY <1>3, <2>4
  <2>6. column = IF holders = {} THEN None ELSE CHOOSE j \in holders : TRUE
    BY DEF FindContainer
  <2> HIDE DEF holders, column, base
  <2> QED
    BY <2>5, <2>6
<1>5. Position(base, k) = [column |-> column, neighbors |-> NeighborsOf(base[column], k)]
  BY DEF Position
<1> HIDE DEF base, column
<1>6. NeighborsOf(base[column], k) \in Neighbors(Cards)
  BY <1>3, <1>4, NeighborsTyped
<1>7. Position(base, k) \in Places /\ Position(base, k) # None
  <2>1. Position(base, k) \in Places
    BY <1>3, <1>4, <1>5, <1>6 DEF Places
  <2> QED
    BY <2>1, NoneIsNothing
<1>8. ColumnHeld'
  BY <1>1, IdAssumption DEF ColumnHeld
<1>9. CardHeld'
  <2>1. \E S \in SUBSET ColumnIds : dragOrder' \in [S -> Seq(Cards)]
    BY <1>1, <1>3
  <2> QED
    BY <1>1, <1>7, <2>1 DEF CardHeld
<1> QED
  BY <1>8, <1>9

LEMMA DragOverHeld ==
  ASSUME ColumnHeld, CardHeld, NEW over, DragOver(over)
  PROVE  ColumnHeld' /\ CardHeld'
<1>1. /\ grabbed \in Cards /\ UNCHANGED <<grabbed, wiped, start>>
      /\ aim' = [aim EXCEPT !.order = Crossed(@, grabbed, over)]
      /\ dragOrder' = IF dragOrder = None THEN None ELSE Crossed(dragOrder, grabbed, over)
  BY DEF DragOver
<1>2. ColumnHeld'
  BY <1>1, IdAssumption DEF ColumnHeld
<1>3. CardHeld'
  <2> SUFFICES ASSUME ~wiped
               PROVE  /\ aim' = [order |-> aim'.order, from |-> aim'.from]
                      /\ dragOrder' = aim'.order
                      /\ \E S \in SUBSET ColumnIds : dragOrder' \in [S -> Seq(Cards)]
                      /\ start = aim'.from /\ start # None
    BY <1>1 DEF CardHeld
  <2>1. /\ aim = [order |-> aim.order, from |-> aim.from]
        /\ dragOrder = aim.order /\ start = aim.from /\ start # None
    BY <1>1 DEF CardHeld
  <2>2. PICK S \in SUBSET ColumnIds : dragOrder \in [S -> Seq(Cards)]
    BY <1>1 DEF CardHeld
  <2>3. dragOrder # None
    BY <2>2, NoneIsNothing
  <2>4. PICK w : w = Crossed(dragOrder, grabbed, over)
    OBVIOUS
  <2>5. w \in [S -> Seq(Cards)]
    BY <1>1, <2>2, <2>4, CrossedTyped
  <2>6. aim' = [order |-> w, from |-> aim.from] /\ dragOrder' = w
    BY <1>1, <2>1, <2>3, <2>4
  <2> QED
    BY <2>1, <2>5, <2>6
<1> QED
  BY <1>2, <1>3

\* An answer leaves the drag alone, or wipes what is held.
LEMMA SettledHeld ==
  ASSUME ColumnHeld, CardHeld, NEW waited, NEW ok, Settled(waited, ok), UNCHANGED <<grabbed, aim>>
  PROVE  ColumnHeld' /\ CardHeld'
<1>1. CASE waited
  <2>1. wiped' = (grabbed # None)
    BY <1>1 DEF Settled
  <2>2. CASE grabbed = None
    BY <2>2, StillHeld, IdAssumption
  <2>3. CASE grabbed # None
    BY <2>1, <2>3, StillHeld
  <2> QED
    BY <2>2, <2>3
<1>2. CASE ~waited
  BY <1>2, StillHeld DEF Settled
<1> QED
  BY <1>1, <1>2

-----------------------------------------------------------------------------
(* What is dropped elsewhere is sent. *)

TInv == AnswersTyped /\ PageTyped /\ ColumnHeld /\ CardHeld

LEMMA InitTInv == Init => TInv
<1> SUFFICES ASSUME Init PROVE TInv
  OBVIOUS
<1>1. PICK w \in Workloads :
        /\ known = w.cols
        /\ ask = [r \in Reqs |-> IF r \in Own THEN NoAsk ELSE w.ask]
        /\ pc = [r \in Reqs |-> IF r \in w.moves THEN "idle"
                               ELSE IF r \in Own \/ w.ask = NoAsk THEN "done" ELSE "sent"]
        /\ call = [m \in CardCalls |-> IF m \in w.moves THEN NoCall ELSE Answered]
  BY DEF Init
<1>2. /\ result = [r \in Reqs |-> First] /\ wire = <<>> /\ rows = InitialRows
      /\ grabbed = None /\ snapshot = [m \in CardCalls \cup Own |-> None]
  BY DEF Init
<1>3. /\ w.cols \in Table /\ \A i \in ColumnIds : w.cols[i] = Gone => InitialRows[i] = <<>>
      /\ w.ask # NoAsk => w.ask.kind \in Kinds
  BY WorkloadAssumption DEF Table
<1>4. AnswersTyped
  <2>1. \A r \in Reqs : /\ pc[r] \in {"idle", "done", "sent"}
                        /\ pc[r] = "sent" => ask[r].kind \in Kinds
    BY <1>1, <1>3
  <2>2. wire \in Seq(Events) /\ DOMAIN result = Reqs
    BY <1>2
  <2> QED
    BY <2>1, <2>2 DEF AnswersTyped, OwnRank
<1>5. PageTyped
  <2>1. IsCache(known, rows)
    BY <1>1, <1>2, <1>3, RowsAssumption DEF IsCache
  <2>2. \A r \in Own : pc[r] \in {"idle", "done"}
    BY <1>1, OwnAssumption
  <2>3. \A m \in CardCalls : call[m] = NoCall \/ call[m] = Answered
    BY <1>1
  <2>4. IsCall(NoCall) /\ NoCall.stage = "idle"
    BY DEF IsCall, NoCall
  <2>5. \A m \in CardCalls : IsCall(call[m]) /\ call[m].stage # "open"
    BY <2>3, <2>4, IsCallAnswered
  <2>6. DOMAIN call = CardCalls /\ DOMAIN snapshot = CardCalls \cup Own
    BY <1>1, <1>2
  <2> QED
    BY <2>1, <2>2, <2>5, <2>6 DEF PageTyped
<1>6. ColumnHeld /\ CardHeld
  BY <1>2, IdAssumption DEF ColumnHeld, CardHeld
<1> QED
  BY <1>4, <1>5, <1>6 DEF TInv

\* A step that leaves the requests alone, and the cards' calls.
LEMMA QuietTInv ==
  ASSUME TInv, UNCHANGED <<server, cache, call, snapshot>>, ColumnHeld' /\ CardHeld'
  PROVE  TInv'
<1>1. AnswersTyped'
  <2>1. UNCHANGED <<ask, pc, todo, held, result>> /\ wire' \in Seq(Events) /\ AnswersTyped
    BY DEF server, TInv, AnswersTyped
  <2> QED
    BY <2>1, StillAnswers
<1>2. PageTyped'
  <2>1. UNCHANGED <<pc, known, rows, call, snapshot>> /\ PageTyped
    BY DEF server, cache, TInv
  <2>2. IsCache(known', rows')
    BY <2>1 DEF PageTyped
  <2> QED
    BY <2>1, <2>2, StillPage
<1> QED
  BY <1>1, <1>2 DEF TInv

\* A step on the cards and their calls.
LEMMA CardTInv ==
  ASSUME TInv, UNCHANGED server, PageTyped', ColumnHeld' /\ CardHeld'
  PROVE  TInv'
<1>1. UNCHANGED <<ask, pc, todo, held, result>> /\ wire' \in Seq(Events) /\ AnswersTyped
  BY DEF server, TInv, AnswersTyped
<1>2. AnswersTyped'
  BY <1>1, StillAnswers
<1> QED
  BY <1>2 DEF TInv

LEMMA DropColumnTInv ==
  ASSUME RInv, TInv, NEW over, DropColumn(over)
  PROVE  TInv'
<1> DEFINE final == MoveOnto(columnOrder, grabbed, over)
<1>1. AnswersTyped /\ PageTyped /\ ColumnHeld /\ CardHeld
  BY DEF TInv
<1>2. PageTyped'
  BY <1>1, DropColumnPage
<1>3. grabbed' \notin ColumnIds \cup Cards
  BY IdAssumption DEF DropColumn, LetGo
<1>4. ColumnHeld' /\ CardHeld'
  BY <1>1, <1>3, StillHeld
<1>5. AnswersTyped'
  <2>1. CASE UNCHANGED server
    <3>1. UNCHANGED <<ask, pc, todo, held, result>> /\ wire' \in Seq(Events)
      BY <1>1, <2>1 DEF server, AnswersTyped
    <3> QED
      BY <1>1, <3>1, StillAnswers
  <2>2. CASE \E r \in Own : pc[r] = "idle" /\ MoveColumn(r, grabbed, final)
    <3>1. PICK r \in Own : MoveColumn(r, grabbed, final)
      BY <2>2
    <3>2. PICK a : a.kind = "move" /\ ask' = [ask EXCEPT ![r] = a]
      BY <3>1 DEF MoveColumn
    <3>3. pc' = [pc EXCEPT ![r] = "sent"] /\ UNCHANGED <<todo, held, result, wire>>
      BY <3>1 DEF MoveColumn
    <3>4. r \in Reqs /\ DOMAIN ask = Reqs
      BY OwnAssumption DEF RInv, ServerTyped
    <3>5. ask'[r].kind \in Kinds /\ \A q \in Reqs \ {r} : ask'[q] = ask[q]
      BY <3>2, <3>4 DEF Kinds
    <3> QED
      BY <1>1, <3>3, <3>4, <3>5, PageAnswers
  <2> QED
    BY <2>1, <2>2 DEF DropColumn
<1> QED
  BY <1>2, <1>4, <1>5 DEF TInv

LEMMA ServeTInv ==
  ASSUME RInv, TInv, NEW r \in Reqs, Serve(r)
  PROVE  TInv'
<1>1. AnswersTyped /\ PageTyped /\ ColumnHeld /\ CardHeld
  BY DEF TInv
<1>2. Handle(r) /\ UNCHANGED <<grabbed, wiped, aim, drag>>
  BY DEF Serve
<1>3. AnswersTyped'
  BY <1>1, <1>2, HandleAnswers
<1>4. PageTyped'
  BY <1>1, ServePage
<1>5. ColumnHeld' /\ CardHeld'
  BY <1>1, <1>2, StillHeld
<1> QED
  BY <1>3, <1>4, <1>5 DEF TInv

LEMMA AnswerColumnTInv ==
  ASSUME RInv, TInv, NEW r \in Reqs, AnswerColumn(r)
  PROVE  TInv'
<1>1. AnswersTyped /\ PageTyped /\ ColumnHeld /\ CardHeld
  BY DEF TInv
<1>2. /\ pc' = [pc EXCEPT ![r] = "done"] /\ UNCHANGED <<ask, todo, held, result, wire, grabbed, aim>>
      /\ Settled(columnReset = r, pc[r] = "ok")
  BY DEF AnswerColumn
<1>3. AnswersTyped'
  BY <1>1, <1>2, PageAnswers
<1>4. PageTyped'
  BY <1>1, AnswerColumnPage
<1>5. ColumnHeld' /\ CardHeld'
  BY <1>1, <1>2, SettledHeld
<1> QED
  BY <1>3, <1>4, <1>5 DEF TInv

LEMMA DeliverTInv ==
  ASSUME TInv, Deliver
  PROVE  TInv'
<1>1. AnswersTyped /\ PageTyped /\ ColumnHeld /\ CardHeld
  BY DEF TInv
<1>2. /\ wire # <<>> /\ wire' = Tail(wire)
      /\ UNCHANGED <<ask, pc, todo, held, result, grabbed, wiped, aim, drag>>
  BY DEF Deliver
<1>3. AnswersTyped'
  <2>1. wire' \in Seq(Events)
    BY <1>1, <1>2, NextEvent
  <2> QED
    BY <1>1, <1>2, <2>1, StillAnswers
<1>4. PageTyped'
  BY <1>1, DeliverPage
<1>5. ColumnHeld' /\ CardHeld'
  BY <1>1, <1>2, StillHeld
<1> QED
  BY <1>3, <1>4, <1>5 DEF TInv

LEMMA NextTInv == RInv /\ TInv /\ [Next]_vars => TInv'
<1> SUFFICES ASSUME RInv, TInv, [Next]_vars PROVE TInv'
  OBVIOUS
<1>0. AnswersTyped /\ PageTyped /\ ColumnHeld /\ CardHeld
  BY DEF TInv
<1>1. ASSUME NEW i \in ColumnIds, PickUpColumn(i) PROVE TInv'
  <2>1. ColumnHeld' /\ CardHeld'
    BY <1>0, <1>1, PickUpColumnHeld
  <2> QED
    BY <1>1, <2>1, QuietTInv DEF PickUpColumn, calls
<1>2. ASSUME NEW i \in ColumnIds, DropColumn(i) PROVE TInv'
  BY <1>2, DropColumnTInv
<1>3. ASSUME NEW k \in Cards, PickUpCard(k) PROVE TInv'
  <2>1. ColumnHeld' /\ CardHeld'
    BY <1>0, <1>3, PickUpCardHeld
  <2> QED
    BY <1>3, <2>1, QuietTInv DEF PickUpCard, calls
<1>4. ASSUME NEW k \in Cards, RemoteCard(k) PROVE TInv'
  <2>1. UNCHANGED <<server, grabbed, wiped, aim, drag>>
    BY <1>4 DEF RemoteCard
  <2>2. ColumnHeld' /\ CardHeld'
    BY <1>0, <2>1, StillHeld
  <2>3. PageTyped'
    BY <1>0, <1>4, RemoteCardPage
  <2> QED
    BY <2>1, <2>2, <2>3, CardTInv
<1>5. ASSUME NEW over, DragOver(over) PROVE TInv'
  <2>1. ColumnHeld' /\ CardHeld'
    BY <1>0, <1>5, DragOverHeld
  <2> QED
    BY <1>5, <2>1, QuietTInv DEF DragOver, calls
<1>6. ASSUME NEW over, DropCard(over) PROVE TInv'
  <2>1. grabbed' \notin ColumnIds \cup Cards /\ UNCHANGED server
    BY <1>6, IdAssumption DEF DropCard, LetGo, MoveTask
  <2>2. ColumnHeld' /\ CardHeld'
    BY <1>0, <2>1, StillHeld
  <2>3. PageTyped'
    BY <1>0, <1>6, DropCardPage
  <2> QED
    BY <2>1, <2>2, <2>3, CardTInv
<1>7. CASE DragCancel
  <2>1. grabbed' \notin ColumnIds \cup Cards
    BY <1>7, IdAssumption DEF DragCancel, LetGo
  <2>2. ColumnHeld' /\ CardHeld'
    BY <1>0, <2>1, StillHeld
  <2> QED
    BY <1>7, <2>2, QuietTInv DEF DragCancel, calls
<1>8. ASSUME NEW m \in CardCalls, Undo(m) PROVE TInv'
  <2>1. UNCHANGED <<server, grabbed, wiped, aim, drag>>
    BY <1>8 DEF Undo
  <2>2. ColumnHeld' /\ CardHeld'
    BY <1>0, <2>1, StillHeld
  <2>3. PageTyped'
    BY <1>0, <1>8, UndoPage
  <2> QED
    BY <2>1, <2>2, <2>3, CardTInv
<1>9. ASSUME NEW m \in CardCalls, NEW ok \in BOOLEAN, AnswerCard(m, ok) PROVE TInv'
  <2>1. UNCHANGED <<server, grabbed, aim>> /\ Settled(cardReset = m, ok)
    BY <1>9 DEF AnswerCard
  <2>2. ColumnHeld' /\ CardHeld'
    BY <1>0, <2>1, SettledHeld
  <2>3. PageTyped'
    BY <1>0, <1>9, AnswerCardPage
  <2> QED
    BY <2>1, <2>2, <2>3, CardTInv
<1>10. ASSUME NEW r \in Reqs, Serve(r) PROVE TInv'
  BY <1>10, ServeTInv
<1>11. ASSUME NEW r \in Reqs, AnswerColumn(r) PROVE TInv'
  BY <1>11, AnswerColumnTInv
<1>12. CASE Deliver
  BY <1>12, DeliverTInv
<1>13. CASE Done \/ UNCHANGED vars
  <2>1. UNCHANGED <<server, cache, call, snapshot, grabbed, wiped, aim, drag>>
    BY <1>13 DEF Done, vars, page, calls
  <2>2. ColumnHeld' /\ CardHeld'
    BY <1>0, <2>1, StillHeld
  <2> QED
    BY <2>1, <2>2, QuietTInv
<1> QED
  BY <1>1, <1>2, <1>3, <1>4, <1>5, <1>6, <1>7, <1>8, <1>9, <1>10, <1>11, <1>12, <1>13 DEF Next

\* For any columns, cards and requests: what the page may put back after a failure is a whole
\* cache, cards only in columns that are there, and every answer and event carries a rank
\* (lib/columns.ts 244-277, lib/tasks.ts 202-284, columns.service.ts 93-132).
THEOREM TypeCorrect == Spec => [](ServerTyped /\ AnswersTyped /\ PageTyped)
<1>1. RInv /\ TInv => ServerTyped /\ AnswersTyped /\ PageTyped
  BY DEF RInv, TInv
<1> QED
  BY <1>1, InitRInv, NextRInv, InitTInv, NextTInv, PTL DEF Spec

\* The guards of the code against a drag without a preview do not hold a drop back.
LEMMA ColumnDropIsSent ==
  ASSUME RInv, TInv, NEW over, DropColumn(over), ~wiped,
         NeighborsOf(MoveOnto(aim.order, grabbed, over), grabbed) # aim.from
  PROVE  \E r \in Own : pc[r] # pc'[r]
<1>1. /\ grabbed \in ColumnIds
      /\ columnOrder = aim.order /\ columnOrder # None
      /\ columnStart = aim.from /\ columnStart # None
  BY DEF TInv, ColumnHeld, DropColumn
<1> DEFINE final == MoveOnto(columnOrder, grabbed, over)
<1>2. NeighborsOf(final, grabbed) # columnStart
  BY <1>1
<1>3. PICK r \in Own : pc[r] = "idle" /\ MoveColumn(r, grabbed, final)
  BY <1>1, <1>2 DEF DropColumn
<1>4. pc' = [pc EXCEPT ![r] = "sent"] /\ r \in Reqs /\ DOMAIN pc = Reqs
  BY <1>3, OwnAssumption DEF MoveColumn, RInv, ServerTyped
<1>5. pc[r] # pc'[r]
  BY <1>3, <1>4
<1> QED
  BY <1>5

LEMMA CardDropIsSent ==
  ASSUME TInv, NEW over, DropCard(over), ~wiped, FindContainer(rows, grabbed) # None,
         Dropped(aim.order, grabbed, over).place # aim.from
  PROVE  call' # call
<1>1. /\ grabbed \in Cards /\ dragOrder = aim.order /\ start = aim.from /\ start # None
      /\ \E S \in SUBSET ColumnIds : dragOrder \in [S -> Seq(Cards)]
  BY DEF TInv, CardHeld, DropCard
<1>2. dragOrder # None
  BY <1>1, NoneIsNothing
<1> DEFINE drop == Dropped(dragOrder, grabbed, over)
<1>3. ~Unmoved(drop.place)
  BY <1>1 DEF Unmoved
<1>4. PICK m \in CardCalls : call[m].stage = "idle" /\ MoveTask(m, grabbed, drop.place, start)
  BY <1>1, <1>2, <1>3 DEF DropCard
<1>5. PICK c : c.stage = "open" /\ call' = [call EXCEPT ![m] = c]
  BY <1>4 DEF MoveTask
<1>6. DOMAIN call = CardCalls
  BY DEF TInv, PageTyped
<1> QED
  BY <1>4, <1>5, <1>6

\* Of any board with any cards: a column or a card that is dropped where it was not picked up
\* is sent, whatever others have changed during the drag, unless an answer has reset it
\* (useBoardDnd.ts 261-310, 312-388).
THEOREM DropsReachTheServer == Spec => DropsAreSent
<1>1. ASSUME RInv, TInv, [Next]_vars
      PROVE  /\ \A over \in ColumnIds :
                  DropColumn(over) /\ ~wiped
                  /\ NeighborsOf(MoveOnto(aim.order, grabbed, over), grabbed) # aim.from
                    => \E r \in Own : pc[r] # pc'[r]
             /\ \A over \in Cards \cup ColumnIds :
                  DropCard(over) /\ ~wiped /\ FindContainer(rows, grabbed) # None
                  /\ Dropped(aim.order, grabbed, over).place # aim.from
                    => call' # call
  BY <1>1, ColumnDropIsSent, CardDropIsSent
<1>2. RInv /\ TInv /\ [Next]_vars =>
        [/\ \A over \in ColumnIds :
              DropColumn(over) /\ ~wiped
              /\ NeighborsOf(MoveOnto(aim.order, grabbed, over), grabbed) # aim.from
                => \E r \in Own : pc[r] # pc'[r]
         /\ \A over \in Cards \cup ColumnIds :
              DropCard(over) /\ ~wiped /\ FindContainer(rows, grabbed) # None
              /\ Dropped(aim.order, grabbed, over).place # aim.from
                => call' # call]_vars
  BY <1>1
<1> QED
  BY <1>2, InitRInv, NextRInv, InitTInv, NextTInv, PTL DEF Spec, DropsAreSent
=============================================================================
