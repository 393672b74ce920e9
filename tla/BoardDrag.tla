------------------------------ MODULE BoardDrag ------------------------------
(***************************************************************************)
(* Drag and drop on one board page (components/board/useBoardDnd.ts) with  *)
(* the move hooks under it (lib/columns.ts, lib/tasks.ts): its column      *)
(* moves run through ColumnOrder, beside the requests of others; its card  *)
(* moves are answered one way or the other (TaskMove says which).          *)
(*                                                                         *)
(* dnd-kit is external: it lifts one item, reports what it is over, and    *)
(* ends or cancels the drag.  So is TanStack Query: the callbacks given to *)
(* mutate() are called for the latest mutation of their hook only.         *)
(***************************************************************************)
EXTENDS ColumnOrder

CONSTANTS
  Cards,
  Own,          \* this page's column moves, among Reqs
  CardCalls,    \* its card moves, the Undos included
  Workloads,    \* the columns at first, what the others ask for, how often they change a
                \* card, and which moves the page can make
  InitialRows

ASSUME OwnAssumption == Own \subseteq Reqs /\ Own \cap CardCalls = {}
ASSUME IdAssumption ==
  /\ None \notin Cards \cup ColumnIds \cup CardCalls
  /\ Cards \cap ColumnIds = {}

\* The ids beside one in a list, and the place of a card.
Neighbors(S) == [before : S \cup {None}, after : S \cup {None}]
Places == [column : ColumnIds, neighbors : Neighbors(Cards)]

\* null is no list and no object.
ASSUME NoneAssumption ==
  /\ None \notin Seq(ColumnIds) \cup Neighbors(ColumnIds) \cup Places
  /\ \A S \in SUBSET ColumnIds : None \notin [S -> Seq(Cards)]

VARIABLES
  known,        \* the page's cached rank of each column
  rows,         \* its cached cards, in order, per column
  dragOrder, start,           \* a card drag: the preview, and where it was picked up
  columnOrder, columnStart,   \* a column drag: likewise
  grabbed,      \* what the pointer holds
  call,         \* the card moves the page has made
  newest,       \* the last of each card
  snapshot,     \* previousBoard of each move
  columnReset, cardReset,     \* the move of each hook whose answer resets the drag
  remote,       \* how often others will still change a card, at most
  aim,          \* where the drag began, and its preview, had no answer wiped it
  wiped,        \* whether one has
  calm,         \* whether the page showed the committed columns when the drag began, and since
  plan,         \* the column order each drop should bring about, while nobody interferes
  undercut      \* whether an Undo was made while a card's drop was open

drag == <<dragOrder, start, columnOrder, columnStart>>
cache == <<known, rows>>
calls == <<call, newest, snapshot, columnReset, cardReset>>
page == <<cache, drag, grabbed, calls, remote, aim, wiped, calm, plan, undercut>>
vars == <<server, page>>

NoCall == [stage |-> "idle", card |-> None, column |-> None, between |-> None, back |-> None]
Answered == [NoCall EXCEPT !.stage = "done"]
NoAsk == [kind |-> "none", column |-> None, before |-> None, after |-> None, position |-> None]

Kinds == {"create", "move", "rename", "remove"}

\* A board's columns begin as BoardsService.create or the seed makes them.
ASSUME WorkloadAssumption ==
  \A w \in Workloads :
    /\ w.cols \in [ColumnIds -> StoredRanks \cup {Gone}] /\ Distinct(w.cols)
    /\ w.ask # NoAsk => w.ask.column \in ColumnIds /\ w.ask.kind \in Kinds
    /\ w.ask.position \in Nat \cup {None}
    /\ \A i \in ColumnIds : w.cols[i] = Gone => InitialRows[i] = <<>>

ASSUME RowsAssumption == InitialRows \in [ColumnIds -> Seq(Cards)]

Init ==
  /\ \E w \in Workloads :
       /\ cols = w.cols
       /\ known = w.cols
       /\ ask = [r \in Reqs |-> IF r \in Own THEN NoAsk ELSE w.ask]
       /\ pc = [r \in Reqs |-> IF r \in w.moves THEN "idle"
                              ELSE IF r \in Own \/ w.ask = NoAsk THEN "done" ELSE "sent"]
       /\ call = [m \in CardCalls |-> IF m \in w.moves THEN NoCall ELSE Answered]
       /\ remote = w.remote
  /\ todo = [r \in Reqs |-> <<>>]
  /\ held = [r \in Reqs |-> Nothing]
  /\ result = [r \in Reqs |-> First]
  /\ wire = <<>>
  /\ gap = [r \in Reqs |-> Everywhere]
  /\ fresh = {}
  /\ muddled = FALSE
  /\ rows = InitialRows
  /\ dragOrder = None /\ start = None
  /\ columnOrder = None /\ columnStart = None
  /\ grabbed = None
  /\ newest = [k \in Cards |-> None]
  /\ snapshot = [m \in CardCalls \cup Own |-> None]
  /\ columnReset = None /\ cardReset = None
  /\ aim = None
  /\ wiped = FALSE
  /\ calm = FALSE
  /\ plan = [r \in Own |-> None]
  /\ undercut = FALSE
-----------------------------------------------------------------------------
(* Ordered lists of ids, each in a list at most once. *)

At(ids, x) == IF SX!Contains(ids, x) THEN CHOOSE n \in 1 .. Len(ids) : ids[n] = x ELSE 0
Without(ids, x) == IF At(ids, x) = 0 THEN ids ELSE SX!RemoveAt(ids, At(ids, x))

NeighborsOf(ids, x) ==
  LET n == At(ids, x)
  IN  [before |-> IF n > 1 THEN ids[n - 1] ELSE None,
       after  |-> IF n > 0 /\ n < Len(ids) THEN ids[n + 1] ELSE None]

\* arrayMove, when both are in the list.
MoveOnto(ids, x, over) ==
  IF At(ids, x) = 0 \/ At(ids, over) = 0 THEN ids
  ELSE SX!InsertAt(Without(ids, x), At(ids, over), x)

\* findContainer: a column's own id, or the column a card is in.
FindContainer(order, x) ==
  LET holders == {i \in DOMAIN order : i = x \/ SX!Contains(order[i], x)}
  IN  IF holders = {} THEN None ELSE CHOOSE i \in holders : TRUE

\* handleDragOver: a card that crosses into another column.
Crossed(order, k, over) ==
  LET from == FindContainer(order, k)
      to   == FindContainer(order, over)
      at   == IF At(order[to], over) > 0 THEN At(order[to], over) ELSE Len(order[to]) + 1
  IN  IF from = None \/ to = None \/ from = to THEN order
      ELSE [order EXCEPT ![from] = Without(@, k), ![to] = SX!InsertAt(@, at, k)]

\* A card of the cache put between two others, or as near as its column allows; a column
\* that is gone takes it along.
Placed(k, column, between) ==
  LET cleared == [i \in ColumnIds |-> Without(rows[i], k)]
      list    == cleared[column]
      at      == IF At(list, between.before) > 0 THEN At(list, between.before) + 1
                 ELSE IF At(list, between.after) > 0 THEN At(list, between.after)
                 ELSE Len(list) + 1
  IN  IF FindContainer(rows, k) = None THEN rows
      ELSE IF known[column] = Gone THEN cleared
      ELSE [cleared EXCEPT ![column] = SX!InsertAt(list, at, k)]
-----------------------------------------------------------------------------
(* Picking up, dragging, dropping. *)

PickUpColumn(i) ==
  /\ grabbed = None /\ grabbed' = i
  /\ known[i] # Gone
  /\ \E r \in Own : pc[r] = "idle"
  /\ columnOrder' = OrderOf(known)
  /\ columnStart' = NeighborsOf(OrderOf(known), i)
  /\ aim' = [order |-> OrderOf(known), from |-> NeighborsOf(OrderOf(known), i)]
  /\ wiped' = FALSE
  /\ calm' = (OrderOf(known) = OrderOf(cols))
  /\ UNCHANGED <<server, cache, dragOrder, start, calls, remote, plan, undercut>>

Position(order, k) ==
  LET column == FindContainer(order, k)
  IN  [column |-> column, neighbors |-> NeighborsOf(order[column], k)]

PickUpCard(k) ==
  /\ grabbed = None /\ grabbed' = k
  /\ FindContainer(rows, k) # None
  /\ \E m \in CardCalls : call[m].stage = "idle"
  /\ LET base == [i \in Present(known) |-> rows[i]]
     IN  /\ dragOrder' = base
         /\ start' = Position(base, k)
         /\ aim' = [order |-> base, from |-> Position(base, k)]
  /\ wiped' = FALSE
  /\ UNCHANGED <<server, cache, columnOrder, columnStart, calls, remote, calm, plan, undercut>>

DragOver(over) ==
  /\ grabbed \in Cards
  /\ aim' = [aim EXCEPT !.order = Crossed(@, grabbed, over)]
  /\ dragOrder' = IF dragOrder = None THEN None ELSE Crossed(dragOrder, grabbed, over)
  /\ UNCHANGED <<server, cache, start, columnOrder, columnStart, grabbed, calls, remote, wiped,
                 calm, plan, undercut>>

Reset ==
  /\ dragOrder' = None /\ start' = None
  /\ columnOrder' = None /\ columnStart' = None

LetGo == grabbed' = None /\ aim' = None /\ wiped' = FALSE /\ calm' = FALSE

\* Dropped on nothing, or cancelled.
DragCancel ==
  /\ grabbed # None /\ LetGo
  /\ Reset
  /\ UNCHANGED <<server, cache, calls, remote, plan, undercut>>

\* useMoveColumn: the array is reordered, which its ranks do not follow.
MoveColumn(r, i, final) ==
  /\ pc' = [pc EXCEPT ![r] = "sent"]
  /\ ask' = [ask EXCEPT ![r] = [kind |-> "move", column |-> i,
                                before |-> NeighborsOf(final, i).before,
                                after  |-> NeighborsOf(final, i).after,
                                position |-> None]]
  /\ snapshot' = [snapshot EXCEPT ![r] = cache]
  /\ columnReset' = r
  /\ plan' = [plan EXCEPT ![r] = IF calm THEN final ELSE None]
  /\ UNCHANGED <<cols, todo, held, result, wire, gap, fresh, muddled, cache, call, newest, cardReset>>

\* On another column's tab: collisionDetection leaves no other targets.
DropColumn(over) ==
  /\ grabbed \in ColumnIds /\ LetGo
  /\ LET final == MoveOnto(columnOrder, grabbed, over)
     IN  IF columnOrder = None \/ columnStart = None \/ NeighborsOf(final, grabbed) = columnStart
         THEN Reset /\ UNCHANGED <<server, cache, calls, plan>>
         ELSE /\ columnOrder' = final
              /\ UNCHANGED <<dragOrder, start, columnStart>>
              /\ \E r \in Own : pc[r] = "idle" /\ MoveColumn(r, grabbed, final)
  /\ UNCHANGED <<remote, undercut>>

\* useMoveTask.
MoveTask(m, k, to, back) ==
  /\ call' = [call EXCEPT ![m] = [stage |-> "open", card |-> k, column |-> to.column,
                                  between |-> to.neighbors, back |-> back]]
  /\ newest' = [newest EXCEPT ![k] = m]
  /\ snapshot' = [snapshot EXCEPT ![m] = cache]
  /\ rows' = Placed(k, to.column, to.neighbors)
  /\ UNCHANGED <<server, known, columnReset>>

\* The order that a card's drop leaves, and the place it gives the card.
Dropped(order, k, over) ==
  LET from == FindContainer(order, k)
      to   == IF FindContainer(order, over) = None THEN from ELSE FindContainer(order, over)
      final == IF from = to THEN [order EXCEPT ![to] = MoveOnto(@, k, over)] ELSE order
  IN  [order |-> final, place |-> [column |-> to, neighbors |-> NeighborsOf(final[to], k)]]

\* Mutation: only the column counts.
SameColumn(place) == place.column = start.column

\* Dropped where it was picked up.
Unmoved(place) == place = start

DropCard(over) ==
  /\ grabbed \in Cards /\ LetGo
  /\ LET drop == Dropped(dragOrder, grabbed, over)
     IN  IF dragOrder = None \/ start = None \/ Unmoved(drop.place)
              \/ FindContainer(rows, grabbed) = None
         THEN Reset /\ UNCHANGED <<server, cache, calls>>
         ELSE /\ dragOrder' = drop.order
              /\ UNCHANGED <<start, columnOrder, columnStart>>
              /\ \E m \in CardCalls :
                   /\ call[m].stage = "idle"
                   /\ MoveTask(m, grabbed, drop.place, start)
                   /\ cardReset' = m
  /\ UNCHANGED <<remote, plan, undercut>>

\* The toast of a move that has succeeded; the drag is not told how this one ends.
Undo(m) ==
  /\ call[m].stage = "toast"
  /\ \E n \in CardCalls :
       /\ call[n].stage = "idle"
       /\ LET to == call[m].back
          IN  /\ call' = [call EXCEPT ![m] = Answered,
                            ![n] = [stage |-> "open", card |-> call[m].card, column |-> to.column,
                                    between |-> to.neighbors, back |-> None]]
              /\ newest' = [newest EXCEPT ![call[m].card] = n]
              /\ snapshot' = [snapshot EXCEPT ![n] = cache]
              /\ rows' = Placed(call[m].card, to.column, to.neighbors)
       /\ cardReset' = None
       /\ undercut' = (undercut \/ cardReset \in {q \in CardCalls : call[q].stage = "open"})
  /\ UNCHANGED <<server, known, drag, grabbed, columnReset, remote, aim, wiped, calm, plan>>
-----------------------------------------------------------------------------
(* Answers and events. *)

\* Mutation: a move answered with an error does not reset the drag.
ResetOnSuccess(waited, ok) ==
  IF waited /\ ok THEN Reset /\ wiped' = (grabbed # None) ELSE UNCHANGED <<drag, wiped>>

\* onSettled.
Settled(waited, ok) ==
  IF waited THEN Reset /\ wiped' = (grabbed # None) ELSE UNCHANGED <<drag, wiped>>

AnswerColumn(r) ==
  /\ r \in Own /\ pc[r] \in {"ok", "failed"}
  /\ pc' = [pc EXCEPT ![r] = "done"]
  /\ IF pc[r] = "failed"
     THEN known' = snapshot[r][1] /\ rows' = snapshot[r][2]
     ELSE /\ known' = [known EXCEPT ![ask[r].column] = IF @ = Gone THEN Gone ELSE result[r]]
          /\ UNCHANGED rows
  /\ Settled(columnReset = r, pc[r] = "ok")
  /\ snapshot' = [snapshot EXCEPT ![r] = None]
  /\ plan' = [plan EXCEPT ![r] = None]
  /\ UNCHANGED <<cols, ask, todo, held, result, wire, gap, fresh, muddled, grabbed, call, newest,
                 columnReset, cardReset, remote, aim, calm, undercut>>

\* The answer to a card's move counts if it is the last one of its card.
AnswerCard(m, ok) ==
  /\ call[m].stage = "open"
  /\ LET current == newest[call[m].card] = m
     IN  /\ call' = [call EXCEPT ![m] = IF current /\ ok /\ call[m].back # None
                                       THEN [@ EXCEPT !.stage = "toast"] ELSE Answered]
         /\ IF ~current THEN UNCHANGED cache
            ELSE IF ok THEN rows' = Placed(call[m].card, call[m].column, call[m].between)
                            /\ UNCHANGED known
            ELSE known' = snapshot[m][1] /\ rows' = snapshot[m][2]
  /\ Settled(cardReset = m, ok)
  /\ snapshot' = [snapshot EXCEPT ![m] = None]
  /\ UNCHANGED <<server, grabbed, newest, columnReset, cardReset, remote, aim, calm, plan,
                 undercut>>

\* The next column event.
Deliver ==
  /\ wire # <<>>
  /\ wire' = Tail(wire)
  /\ LET e == Head(wire)
     IN  /\ known' = [known EXCEPT ![e.column] =
                        CASE e.kind = "create" -> e.rank
                          [] e.kind = "remove" -> Gone
                          [] OTHER -> IF @ = Gone THEN Gone ELSE e.rank]
         /\ rows' = IF e.kind = "remove" THEN [rows EXCEPT ![e.column] = <<>>] ELSE rows
  /\ UNCHANGED <<cols, ask, pc, todo, held, result, gap, fresh, muddled, drag, grabbed, calls, remote,
                 aim, wiped, calm, plan, undercut>>

\* Another user's card event.
RemoteCard(k) ==
  /\ remote > 0 /\ remote' = remote - 1
  /\ FindContainer(rows, k) # None
  /\ \/ \E i \in Present(known) : rows' = Placed(k, i, [before |-> None, after |-> None])
     \/ rows' = [i \in ColumnIds |-> Without(rows[i], k)]
  /\ UNCHANGED <<server, known, drag, grabbed, calls, aim, wiped, calm, plan, undercut>>

\* A request is handled: another's commit upsets what a drop was to bring about.
Serve(r) ==
  /\ Handle(r)
  /\ plan' = [q \in Own |-> IF cols' # cols /\ q # r THEN None ELSE plan[q]]
  /\ calm' = (calm /\ cols' = cols)
  /\ UNCHANGED <<cache, drag, grabbed, calls, remote, aim, wiped, undercut>>

\* Nothing is under way, and the page holds nothing.
AtRest ==
  /\ grabbed = None
  /\ \A r \in Reqs : pc[r] \in {"idle", "done"} \cup (IF r \in Own THEN {} ELSE {"ok", "failed"})
  /\ \A m \in CardCalls : call[m].stage # "open"

Done ==
  /\ AtRest /\ wire = <<>>
  /\ UNCHANGED vars

Next ==
  \/ \E i \in ColumnIds : PickUpColumn(i) \/ DropColumn(i)
  \/ \E k \in Cards : PickUpCard(k) \/ RemoteCard(k)
  \/ \E over \in Cards \cup ColumnIds : DragOver(over) \/ DropCard(over)
  \/ DragCancel
  \/ \E m \in CardCalls : Undo(m) \/ (\E ok \in BOOLEAN : AnswerCard(m, ok))
  \/ \E r \in Reqs : Serve(r) \/ AnswerColumn(r)
  \/ Deliver
  \/ Done

Spec == Init /\ [][Next]_vars
-----------------------------------------------------------------------------
\* At rest no preview is left over: the page renders the cache, so that the changes of
\* others show.  It takes an Undo while another drop is open to leave one (useBoardDnd.ts
\* 379-385, tasks.ts 268-279).
PreviewEnds ==
  AtRest /\ ~undercut => dragOrder = None /\ columnOrder = None

\* A drop that changes the place of what was picked up is sent, though others change the
\* board during the drag, unless a move made before it was answered meanwhile and reset it
\* (useBoardDnd.ts 249-259).
DropsAreSent ==
  [][/\ \A over \in ColumnIds :
          DropColumn(over) /\ ~wiped
          /\ NeighborsOf(MoveOnto(aim.order, grabbed, over), grabbed) # aim.from
            => \E r \in Own : pc[r] # pc'[r]
     /\ \A over \in Cards \cup ColumnIds :
          DropCard(over) /\ ~wiped /\ FindContainer(rows, grabbed) # None
          /\ Dropped(aim.order, grabbed, over).place # aim.from
            => call' # call]_vars

\* A column lands where the page showed it when it was dropped, re-spaced or not, unless the
\* page did not show the committed order or another request has committed meanwhile.
DroppedWhereShown ==
  [][\A r \in Own : cols' # cols /\ pc[r] # pc'[r] /\ plan[r] # None => OrderOf(cols') = plan[r]]_vars
=============================================================================
