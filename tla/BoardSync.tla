------------------------------ MODULE BoardSync ------------------------------
(***************************************************************************)
(* One open board page: its cache of the board (lib/board.ts), the calls   *)
(* its user makes with their optimistic writes and rollbacks (lib/tasks.ts, *)
(* lib/columns.ts), the events that reach it (lib/realtime.ts) and its     *)
(* refetches, beside the calls of other users.                             *)
(*                                                                         *)
(* A rank, a title and a text are named by the call that wrote them last.  *)
(* The server is the history of accepted calls; how it accepts them is     *)
(* TaskMove's business.  TanStack Query and Socket.IO are external: a      *)
(* cancelled fetch never lands, a connection delivers in order.            *)
(***************************************************************************)
EXTENDS Naturals, FiniteSets, Sequences

CONSTANTS
  Cards, Columns,   \* the ids, those to be created included
  Calls,            \* REST calls, each made once
  Workloads,        \* what each call asks for, and how often the connection is lost
  InitialBoard,
  Seed, Guess,      \* who wrote a field: nobody here, the page's own estimate
  TopLevel,         \* where the placeholder of a column is
  Gone

\* The query has no data yet.
NoBoard == <<>>

TaskKinds == {"createTask", "editTask", "moveTask", "deleteTask"}
ColumnKinds == {"createColumn", "renameColumn", "moveColumn", "deleteColumn"}

CardRows == [column : Columns, version : Nat, text : Calls \cup {Seed},
             rank : Calls \cup {Seed, Guess}]
ColumnRows == [title : Calls \cup {Seed}, rank : Calls \cup {Seed}]

IsCache(b) ==
  /\ DOMAIN b = {"cols", "cards", "temps"}
  /\ b.cols \in [Columns -> ColumnRows \cup {Gone}]
  /\ b.cards \in [Cards -> CardRows \cup {Gone}]
  /\ \A k \in Cards : b.cards[k] # Gone => b.cols[b.cards[k].column] # Gone
  /\ b.temps \in [Calls -> Columns \cup {TopLevel, Gone}]

\* The server's board: no placeholder in it, and no estimate.
IsBoard(b) ==
  /\ DOMAIN b = {"cols", "cards"}
  /\ IsCache([cols |-> b.cols, cards |-> b.cards, temps |-> [c \in Calls |-> Gone]])
  /\ \A k \in Cards : b.cards[k] # Gone => b.cards[k].rank # Guess

ASSUME IdAssumption ==
  /\ IsFiniteSet(Calls)
  /\ Seed \notin Calls /\ Guess \notin Calls \cup {Seed} /\ TopLevel \notin Columns
  /\ Gone \notin Calls \cup Columns \cup {TopLevel} \cup CardRows \cup ColumnRows

ASSUME BoardAssumption == IsBoard(InitialBoard)

\* A call names what it is about; the id of what it creates is a new one.
ASSUME WorkloadAssumption ==
  \A w \in Workloads :
    /\ w.drops \in Nat
    /\ \A c \in Calls :
         LET a == w.calls[c]
         IN  /\ a.kind \in TaskKinds \cup ColumnKinds
             /\ a.mine \in BOOLEAN /\ a.respaces \in BOOLEAN
             /\ a.kind \in TaskKinds => a.card \in Cards
             /\ a.kind \notin {"editTask", "deleteTask"} => a.column \in Columns
             /\ a.respaces => a.kind \in {"createTask", "moveTask", "createColumn", "moveColumn"}
             /\ a.kind = "createTask" => InitialBoard.cards[a.card] = Gone
             /\ a.kind = "createColumn" => InitialBoard.cols[a.column] = Gone
    /\ \A c, d \in Calls :
         c # d /\ w.calls[c].kind = w.calls[d].kind =>
           /\ w.calls[c].kind = "createTask" => w.calls[c].card # w.calls[d].card
           /\ w.calls[c].kind = "createColumn" => w.calls[c].column # w.calls[d].column

VARIABLES
  board,     \* the committed columns and cards
  body,      \* what each call asks for
  stage,     \* where the server stands with it
  payload,   \* the row it returns and announces
  order,     \* the committed calls, in the order of their commits
  told,      \* those whose event has been emitted
  cache,     \* the page's copy, with the placeholders of its own creates
  snapshot,  \* previousBoard of each own call
  newest,    \* the last move of each card that this page has started
  expected,  \* the expectedVersion of each own move
  answer,    \* what became of each own call, for its page
  link, connectedOnce,
  drops,     \* how often the connection will still be lost, at most
  inbox,     \* emitted events on their way to the page
  fetch,     \* the query in flight
  heard,     \* calls whose effect the page has taken in
  touched,   \* own calls during which the page took in something else
  ignored,   \* own calls during which an event left the page as it was
  trouble    \* what has happened that the protocol does not cover

server == <<board, stage, payload, order, told>>
wire == <<link, connectedOnce, drops, inbox>>
page == <<cache, snapshot, newest, expected, answer>>
ghosts == <<heard, touched, ignored>>
vars == <<server, body, wire, page, fetch, ghosts, trouble>>
-----------------------------------------------------------------------------
Kind(c) == body[c].kind
Card(c) == body[c].card
Target(c) == body[c].column
Mine == {c \in Calls : body[c].mine}

Committed == {order[i] : i \in 1 .. Len(order)}
Later(d, c) ==
  \E i, j \in 1 .. Len(order) : order[i] = c /\ order[j] = d /\ i < j

\* Own calls that have been made and not answered.
Pending == {m \in Mine : stage[m] # "idle" /\ answer[m] = "none"}

NoFetch == [stage |-> "none", cols |-> <<>>, cards |-> <<>>, before |-> {}, read |-> {},
            missed |-> {}]
Asked == [NoFetch EXCEPT !.stage = "asked"]

Init ==
  /\ board = InitialBoard
  /\ \E w \in Workloads : body = w.calls /\ drops = w.drops
  /\ stage = [c \in Calls |-> "idle"]
  /\ payload = [c \in Calls |-> Gone]
  /\ order = <<>>
  /\ told = {}
  /\ cache = NoBoard
  /\ snapshot = [c \in Calls |-> NoBoard]
  /\ newest = [k \in Cards |-> Gone]
  /\ expected = [c \in Calls |-> 0]
  /\ answer = [c \in Calls |-> "none"]
  /\ link = "down"
  /\ connectedOnce = FALSE
  /\ inbox = <<>>
  /\ fetch = Asked
  /\ heard = {}
  /\ touched = {}
  /\ ignored = {}
  /\ trouble = {}
-----------------------------------------------------------------------------
(* The cache: which column's array a card is in, whatever its columnId says. *)

RemoveTask(b, k) == [b EXCEPT !.cards[k] = Gone]

\* upsertTaskInBoard: a card the cache knows, its text kept.  A card sent to a column
\* the cache does not know leaves every array.
UpsertTask(b, k, row) ==
  IF b.cards[k] = Gone THEN b
  ELSE IF b.cols[row.column] = Gone THEN RemoveTask(b, k)
  ELSE [b EXCEPT !.cards[k] = [row EXCEPT !.text = b.cards[k].text]]

\* upsertOrInsertTask: any card, as the event says.
UpsertOrInsertTask(b, k, row) ==
  [b EXCEPT !.cards[k] = IF b.cols[row.column] = Gone THEN Gone ELSE row]

\* patchTaskFields with a whole row: the card stays in its array.
PatchTask(b, k, row) ==
  IF b.cards[k] = Gone THEN b
  ELSE [b EXCEPT !.cards[k] = [row EXCEPT !.column = b.cards[k].column]]

\* moveTaskOptimistic: the estimated rank, and the version one up.
MoveTaskOptimistic(b, k, x) ==
  IF b.cards[k] = Gone THEN b
  ELSE UpsertTask(b, k, [b.cards[k] EXCEPT !.column = x, !.rank = Guess, !.version = @ + 1])

\* Mutation: the real row is put beside the placeholder.
ReplaceByAppending(b, m, k, row) == UpsertOrInsertTask(b, k, row)

\* replaceTaskId: the row takes the placeholder's place, and no other.
ReplaceTaskId(b, m, k, row) ==
  [b EXCEPT !.cards[k] = IF b.temps[m] = Gone THEN Gone
                         ELSE [row EXCEPT !.column = b.temps[m]],
            !.temps[m] = Gone]

InColumn(b, x) == {k \in Cards : b.cards[k] # Gone /\ b.cards[k].column = x}

\* The cards of a column go with it, and the placeholders in it.
Empty(b, x) ==
  [b EXCEPT !.cards = [k \in Cards |-> IF k \in InColumn(b, x) THEN Gone ELSE @[k]],
            !.temps = [m \in Calls |-> IF @[m] = x THEN Gone ELSE @[m]]]

\* Mutation: the cards of a removed column stay.
KeepCards(b, x) == [b EXCEPT !.cols[x] = Gone]

RemoveColumn(b, x) == [Empty(b, x) EXCEPT !.cols[x] = Gone]

PatchColumn(b, x, row) ==
  IF b.cols[x] = Gone THEN b ELSE [b EXCEPT !.cols[x] = row]

\* upsertOrInsertColumn: a known column keeps its cards, a new one has none.
UpsertOrInsertColumn(b, x, row) == [b EXCEPT !.cols[x] = row]

\* replaceColumnId, with no tasks.
ReplaceColumnId(b, m, x, row) ==
  [Empty(b, x) EXCEPT !.cols[x] = IF b.temps[m] = Gone THEN Gone ELSE row,
                      !.temps[m] = Gone]
-----------------------------------------------------------------------------
(* The page's own calls. *)

\* What an affordance needs on the page.  A pending placeholder has none; that a card can be
\* dropped on a placeholder's tray is left out: the server knows no such column.
Shown(m) ==
  IF Kind(m) = "createColumn" THEN TRUE
  ELSE /\ Kind(m) \in TaskKinds \ {"createTask"} => cache.cards[Card(m)] # Gone
       /\ Kind(m) \notin {"editTask", "deleteTask"} => cache.cols[Target(m)] # Gone

\* An Undo sends the version its move was answered with, a drag the one on the page.
ExpectedVersion(m) ==
  IF body[m].undoes = Gone THEN cache.cards[Card(m)].version
  ELSE payload[body[m].undoes].version

\* The optimistic writes, one per hook.  Reordering columns changes the order of an
\* array that is sorted again by rank wherever it is shown.
CreateTaskOptimistic(b, m) == [b EXCEPT !.temps[m] = Target(m)]
EditTaskOptimistic(b, m) == [b EXCEPT !.cards[Card(m)].text = m]
CreateColumnOptimistic(b, m) == [b EXCEPT !.temps[m] = TopLevel]
RenameColumnOptimistic(b, m) == [b EXCEPT !.cols[Target(m)].title = m]
ReorderColumns(b, m) == b

OnMutate(b, m) ==
  CASE Kind(m) = "createTask"   -> CreateTaskOptimistic(b, m)
    [] Kind(m) = "editTask"     -> EditTaskOptimistic(b, m)
    [] Kind(m) = "moveTask"     -> MoveTaskOptimistic(b, Card(m), Target(m))
    [] Kind(m) = "deleteTask"   -> RemoveTask(b, Card(m))
    [] Kind(m) = "createColumn" -> CreateColumnOptimistic(b, m)
    [] Kind(m) = "renameColumn" -> RenameColumnOptimistic(b, m)
    [] Kind(m) = "moveColumn"   -> ReorderColumns(b, m)
    [] Kind(m) = "deleteColumn" -> RemoveColumn(b, Target(m))

\* mutate(): the fetch in flight is cancelled, the cache kept and written, the call sent.
Mutate(m) ==
  /\ m \in Mine /\ stage[m] = "idle"
  /\ cache # NoBoard
  /\ Shown(m)
  /\ body[m].undoes # Gone => answer[body[m].undoes] = "ok"
  /\ fetch' = NoFetch
  /\ snapshot' = [snapshot EXCEPT ![m] = cache]
  /\ IF Kind(m) = "moveTask"
     THEN /\ newest' = [newest EXCEPT ![Card(m)] = m]
          /\ expected' = [expected EXCEPT ![m] = ExpectedVersion(m)]
     ELSE UNCHANGED <<newest, expected>>
  /\ cache' = OnMutate(cache, m)
  /\ stage' = [stage EXCEPT ![m] = "sent"]
  /\ touched' = touched \cup Pending \cup (IF Pending = {} THEN {} ELSE {m})
  /\ UNCHANGED <<board, payload, order, told, body, answer, wire, heard, ignored, trouble>>
-----------------------------------------------------------------------------
(* The server. *)

\* A rank that comes out too long re-spaces its siblings; nothing announces that.
Respaced(b, c) ==
  IF ~body[c].respaces THEN b
  ELSE IF Kind(c) \in TaskKinds
  THEN [b EXCEPT !.cards = [k \in Cards |->
          IF k \in InColumn(b, Target(c)) THEN [@[k] EXCEPT !.rank = c] ELSE @[k]]]
  ELSE [b EXCEPT !.cols = [x \in Columns |->
          IF @[x] # Gone THEN [@[x] EXCEPT !.rank = c] ELSE Gone]]

After(b, c) ==
  CASE Kind(c) = "createTask"   -> Respaced([b EXCEPT !.cards[Card(c)] =
                                     [column |-> Target(c), version |-> 0, text |-> c, rank |-> c]], c)
    [] Kind(c) = "editTask"     -> [b EXCEPT !.cards[Card(c)].text = c]
    [] Kind(c) = "moveTask"     -> Respaced([b EXCEPT !.cards[Card(c)] =
                                     [b.cards[Card(c)] EXCEPT !.column = Target(c),
                                        !.version = @ + 1, !.rank = c]], c)
    [] Kind(c) = "deleteTask"   -> RemoveTask(b, Card(c))
    [] Kind(c) = "createColumn" -> Respaced([b EXCEPT !.cols[Target(c)] = [title |-> c, rank |-> c]], c)
    [] Kind(c) = "renameColumn" -> [b EXCEPT !.cols[Target(c)].title = c]
    [] Kind(c) = "moveColumn"   -> Respaced([b EXCEPT !.cols[Target(c)].rank = c], c)
    [] Kind(c) = "deleteColumn" ->
         [b EXCEPT !.cols[Target(c)] = Gone,
                   !.cards = [k \in Cards |-> IF k \in InColumn(b, Target(c)) THEN Gone ELSE @[k]]]

Row(b, c) == IF Kind(c) \in TaskKinds THEN b.cards[Card(c)] ELSE b.cols[Target(c)]

\* What a call names exists; what it creates cannot exist yet.
Exists(c) ==
  /\ Kind(c) \in TaskKinds \ {"createTask"} => board.cards[Card(c)] # Gone
  /\ Kind(c) \notin {"editTask", "deleteTask", "createColumn"} => board.cols[Target(c)] # Gone

Stale(c) == c \in Mine /\ Kind(c) = "moveTask" /\ board.cards[Card(c)].version # expected[c]

\* A call of this page has been sent; another user's arrives any time.
Arrived(c) == stage[c] = IF c \in Mine THEN "sent" ELSE "idle"

Commit(c) ==
  /\ Arrived(c)
  /\ Exists(c) /\ ~Stale(c)
  /\ board' = After(board, c)
  /\ payload' = [payload EXCEPT ![c] = Row(board', c)]
  /\ order' = Append(order, c)
  /\ stage' = [stage EXCEPT ![c] = "committed"]
  /\ trouble' = trouble \cup (IF body[c].respaces THEN {"respaced"} ELSE {})
  /\ fetch' = IF fetch.stage \in {"half", "read"} /\ body[c].respaces
              THEN [fetch EXCEPT !.missed = @ \cup {"respaced"}] ELSE fetch
  /\ UNCHANGED <<told, body, wire, page, ghosts>>

\* Refused: 409 with the row as it is now, for a stale version or after two failures to
\* serialize, or any other error.
Refuse(c) ==
  /\ Arrived(c)
  /\ \/ /\ c \in Mine /\ Kind(c) = "moveTask" /\ Exists(c)
        /\ stage' = [stage EXCEPT ![c] = "conflict"]
        /\ payload' = [payload EXCEPT ![c] = board.cards[Card(c)]]
     \/ /\ c \in Mine \/ ~Exists(c)
        /\ stage' = [stage EXCEPT ![c] = "refused"]
        /\ UNCHANGED payload
  /\ UNCHANGED <<board, order, told, body, wire, page, fetch, ghosts, trouble>>

\* The event, to the sockets in the room.  One that does not reach the page is made up
\* for by a fetch that reads after the commit only.
Announce(c) ==
  /\ stage[c] = "committed" /\ c \notin told
  /\ told' = told \cup {c}
  /\ IF link = "joined"
     THEN inbox' = Append(inbox, c) /\ UNCHANGED <<fetch, trouble>>
     ELSE /\ trouble' = trouble \cup {"missed"}
          /\ fetch' = IF fetch.stage \in {"half", "read"} /\ c \notin fetch.before
                      THEN [fetch EXCEPT !.missed = @ \cup {"missed"}] ELSE fetch
          /\ UNCHANGED inbox
  /\ UNCHANGED <<board, stage, payload, order, body, link, connectedOnce, drops, page, ghosts>>
-----------------------------------------------------------------------------
(* What the page takes in.  The ghosts record when an older row has been written over a *)
(* newer one, and the like: the cases the protocol has no guard for.                    *)

\* d has re-spaced the ranks that c's row may be among.
Reranks(c, d) == body[d].respaces /\ (Kind(d) \in TaskKinds <=> Kind(c) \in TaskKinds)

\* c's payload, when the page writes it, undoes what d has done.
Undoes(c, d) ==
  LET sameCard   == Kind(d) \in TaskKinds /\ Card(d) = Card(c)
      sameColumn == Target(d) = Target(c)
  IN  \/ Reranks(c, d)
      \/ CASE Kind(c) \in {"createTask", "editTask"} -> sameCard
           [] Kind(c) = "moveTask"     -> sameCard /\ Kind(d) = "moveTask"
           [] Kind(c) = "createColumn" -> sameColumn
           [] Kind(c) = "renameColumn" -> sameColumn /\ Kind(d) \in {"renameColumn", "moveColumn"}
           [] Kind(c) = "moveColumn"   -> sameColumn /\ Kind(d) = "moveColumn"
           [] OTHER -> FALSE

Outdated(c) == \E d \in heard : Later(d, c) /\ Undoes(c, d)

\* A move's event is held to the card's version, which a re-spacing leaves as it is.
EventOutdated(c) ==
  IF Kind(c) = "moveTask" THEN \E d \in heard : Later(d, c) /\ Reranks(c, d) ELSE Outdated(c)

\* Mutation: a task.moved event is applied whatever its version.
AnyVersion(b, c) == TRUE

\* task.moved is applied when it is strictly newer, or the card unknown.
Newer(b, c) == b.cards[Card(c)] # Gone => payload[c].version > b.cards[Card(c)].version

\* The handlers of the eight board events.
OnEvent(b, c) ==
  CASE Kind(c) \in {"createTask", "editTask"} -> UpsertOrInsertTask(b, Card(c), payload[c])
    [] Kind(c) = "moveTask"     -> IF Newer(b, c) THEN UpsertTask(b, Card(c), payload[c]) ELSE b
    [] Kind(c) = "deleteTask"   -> RemoveTask(b, Card(c))
    [] Kind(c) = "createColumn" -> UpsertOrInsertColumn(b, Target(c), payload[c])
    [] Kind(c) = "renameColumn" -> PatchColumn(b, Target(c), payload[c])
    [] Kind(c) = "moveColumn"   ->
         PatchColumn(b, Target(c), [b.cols[Target(c)] EXCEPT !.rank = payload[c].rank])
    [] Kind(c) = "deleteColumn" -> RemoveColumn(b, Target(c))

EventTrouble(c) ==
  {x \in {"outdated", "orphaned"} :
     cache # NoBoard /\
       CASE x = "outdated" -> EventOutdated(c)
         [] x = "orphaned" -> /\ Kind(c) = "moveTask"
                              /\ cache.cards[Card(c)] = Gone /\ board.cards[Card(c)] # Gone}

Deliver ==
  /\ link = "joined" /\ inbox # <<>>
  /\ LET c == Head(inbox)
     IN  /\ cache' = IF cache = NoBoard THEN NoBoard ELSE OnEvent(cache, c)
         /\ trouble' = trouble \cup EventTrouble(c)
         /\ heard' = heard \cup {c}
         /\ touched' = IF cache' # cache THEN touched \cup Pending ELSE touched
         /\ ignored' = IF cache' # cache THEN ignored ELSE ignored \cup Pending
  /\ inbox' = Tail(inbox)
  /\ UNCHANGED <<server, body, snapshot, newest, expected, answer, link, connectedOnce, drops, fetch>>

\* isCurrent: no newer move of the card has been started on this page.
IsCurrent(m) == Kind(m) = "moveTask" => newest[Card(m)] = m

OnSuccess(b, m) ==
  CASE Kind(m) = "createTask"   -> ReplaceTaskId(b, m, Card(m), payload[m])
    [] Kind(m) = "editTask"     -> PatchTask(b, Card(m), payload[m])
    [] Kind(m) = "moveTask"     -> UpsertTask(b, Card(m), payload[m])
    [] Kind(m) = "createColumn" -> ReplaceColumnId(b, m, Target(m), payload[m])
    [] Kind(m) = "moveColumn"   ->
         PatchColumn(b, Target(m), [b.cols[Target(m)] EXCEPT !.rank = payload[m].rank])
    [] OTHER -> b

AnswerTrouble(m) ==
  {x \in {"outdated", "patched", "swapped"} :
     CASE x = "outdated" -> Kind(m) # "renameColumn" /\ Outdated(m)
       \* its own event, which wrote the column too, has been overwritten by an older row
       [] x = "patched"  -> /\ Kind(m) = "editTask" /\ m \in heard
                            /\ cache.cards[Card(m)] # Gone
                            /\ cache.cards[Card(m)].version < payload[m].version
       [] x = "swapped"  -> /\ cache.temps[m] = Gone
                            /\ \/ Kind(m) = "createTask" /\ cache.cards[Card(m)] # Gone
                               \/ Kind(m) = "createColumn" /\ cache.cols[Target(m)] # Gone}

\* onSuccess.
Answer(m) ==
  /\ m \in Mine /\ stage[m] = "committed" /\ answer[m] = "none"
  /\ answer' = [answer EXCEPT ![m] = "ok"]
  /\ cache' = IF IsCurrent(m) THEN OnSuccess(cache, m) ELSE cache
  /\ trouble' = trouble \cup (IF IsCurrent(m) THEN AnswerTrouble(m) ELSE {})
  /\ heard' = heard \cup {m}
  /\ touched' = touched \cup (Pending \ {m})
  /\ UNCHANGED <<server, body, wire, snapshot, newest, expected, fetch, ignored>>

\* Mutation: a failed call leaves its optimistic write in place.
KeepOptimistic(m, conflict) == cache

\* onError: the whole board as it was, then the row a 409 carries.
RolledBack(m, conflict) ==
  IF ~IsCurrent(m) THEN cache
  ELSE IF conflict THEN UpsertTask(snapshot[m], Card(m), payload[m]) ELSE snapshot[m]

Fail(m, conflict) ==
  /\ answer' = [answer EXCEPT ![m] = "failed"]
  /\ cache' = RolledBack(m, conflict)
  /\ trouble' = trouble \cup
       {x \in {"rollback", "mistaken"} :
          IsCurrent(m) /\
            CASE x = "rollback" -> m \in touched
              [] x = "mistaken" ->
                   m \in ignored /\ ~(conflict /\ payload[m].version > snapshot[m].cards[Card(m)].version)}
  /\ touched' = touched \cup (Pending \ {m})
  /\ UNCHANGED <<server, body, wire, snapshot, newest, expected, fetch, heard, ignored>>

Refused(m) ==
  /\ m \in Mine /\ stage[m] \in {"conflict", "refused"} /\ answer[m] = "none"
  /\ Fail(m, stage[m] = "conflict")

\* No answer comes back, whatever the server makes of the call; none is tried again.
Lose(m) ==
  /\ m \in Pending
  /\ Fail(m, FALSE)
-----------------------------------------------------------------------------
(* The connection and the refetch. *)

\* The first connection joins; a later one asks for the board again, then joins.
Connect ==
  /\ link = "down"
  /\ link' = "up"
  /\ connectedOnce' = TRUE
  /\ fetch' = IF connectedOnce /\ (cache # NoBoard \/ fetch = NoFetch) THEN Asked ELSE fetch
  /\ UNCHANGED <<server, body, drops, inbox, page, ghosts, trouble>>

\* The server has put the socket into the room.
Join ==
  /\ link = "up"
  /\ link' = "joined"
  /\ UNCHANGED <<server, body, connectedOnce, drops, inbox, page, fetch, ghosts, trouble>>

\* Whatever was on its way is lost.
Disconnect ==
  /\ link # "down"
  /\ drops > 0
  /\ drops' = drops - 1
  /\ link' = "down"
  /\ inbox' = <<>>
  /\ LET lost == {inbox[i] : i \in 1 .. Len(inbox)}
     IN  /\ trouble' = trouble \cup (IF lost = {} THEN {} ELSE {"missed"})
         /\ fetch' = IF fetch.stage \in {"half", "read"} /\ ~(lost \subseteq fetch.before)
                     THEN [fetch EXCEPT !.missed = @ \cup {"missed"}] ELSE fetch
  /\ UNCHANGED <<server, body, connectedOnce, page, ghosts>>

\* findOne reads the columns, then the cards of those it has found.
ReadColumns ==
  /\ fetch.stage = "asked"
  /\ fetch' = [fetch EXCEPT !.stage = "half", !.cols = board.cols, !.before = Committed]
  /\ UNCHANGED <<server, body, wire, page, ghosts, trouble>>

ReadCards ==
  /\ fetch.stage = "half"
  /\ fetch' = [fetch EXCEPT !.stage = "read", !.read = Committed,
                 !.cards = [k \in Cards |->
                   IF /\ board.cards[k] # Gone
                      /\ fetch.cols[board.cards[k].column] # Gone
                   THEN board.cards[k] ELSE Gone]]
  /\ UNCHANGED <<server, body, wire, page, ghosts, trouble>>

\* The fetched board takes the place of the whole cache.
Landed(cols, cards) ==
  [cols |-> cols, cards |-> cards, temps |-> [c \in Calls |-> Gone]]

Land ==
  /\ fetch.stage = "read"
  /\ cache' = Landed(fetch.cols, fetch.cards)
  /\ trouble' = fetch.missed \cup (IF heard \subseteq fetch.before THEN {} ELSE {"landed"})
  /\ heard' = fetch.read
  /\ touched' = touched \cup Pending
  /\ fetch' = NoFetch
  /\ UNCHANGED <<server, body, wire, snapshot, newest, expected, answer, ignored>>

\* The page keeps what it has.
FetchFails ==
  /\ fetch # NoFetch
  /\ cache # NoBoard
  /\ fetch' = NoFetch
  /\ UNCHANGED <<server, body, wire, page, ghosts, trouble>>
-----------------------------------------------------------------------------
\* Nothing is under way any more, and the page is live.
Quiet ==
  /\ \A c \in Calls : stage[c] # "sent" /\ (stage[c] = "committed" => c \in told)
  /\ Pending = {}
  /\ link = "joined" /\ inbox = <<>>
  /\ fetch = NoFetch /\ cache # NoBoard

\* The users have nothing more to do.
Idle ==
  /\ Quiet
  /\ \A c \in Calls : stage[c] = "idle" => c \in Mine
  /\ UNCHANGED vars

Next ==
  \/ \E c \in Calls : Commit(c) \/ Refuse(c) \/ Announce(c)
  \/ \E m \in Calls : Mutate(m) \/ Answer(m) \/ Refused(m) \/ Lose(m)
  \/ Deliver
  \/ Connect \/ Join \/ Disconnect
  \/ ReadColumns \/ ReadCards \/ Land \/ FetchFails
  \/ Idle

Spec == Init /\ [][Next]_vars
-----------------------------------------------------------------------------
TypeOK ==
  /\ IsBoard(board)
  /\ stage \in [Calls -> {"idle", "sent", "committed", "conflict", "refused"}]
  /\ cache = NoBoard \/ IsCache(cache)
  /\ \A c \in Calls : snapshot[c] = NoBoard \/ IsCache(snapshot[c])
  /\ answer \in [Calls -> {"none", "ok", "failed"}]
  /\ link \in {"down", "up", "joined"}
  /\ \A i \in 1 .. Len(inbox) : inbox[i] \in told
  /\ heard \subseteq Committed

\* When nothing is under way, the page shows the board, unless one of the cases has
\* happened that the protocol does not cover: the list of them is complete, and each is
\* needed (realtime.ts 75-90, tasks.ts 204-267).
SettledMeansSynced ==
  Quiet /\ trouble = {} =>
    /\ cache.cols = board.cols
    /\ cache.cards = board.cards
    /\ cache.temps = [c \in Calls |-> Gone]

\* The version a drag sends is ahead of the committed one by the page's own moves of the
\* card that are open, or that an open one has superseded, as long as none of the cases in
\* `trouble' has happened: once its drags are answered, a page is then never so far ahead
\* that it ignores the moves of others (tasks.ts 138, realtime.ts 139-140).
AheadByOwnMovesOnly ==
  cache # NoBoard /\ trouble = {} =>
    \A k \in Cards :
      cache.cards[k] # Gone /\ board.cards[k] # Gone =>
        cache.cards[k].version <=
          board.cards[k].version
            + Cardinality({m \in Mine : /\ Kind(m) = "moveTask" /\ Card(m) = k
                                        /\ \/ m \in Pending
                                           \/ answer[m] = "failed" /\ newest[k] \in Pending})

\* A placeholder is shown while its create is open, and never beside or after the row it
\* stands for has been answered (tasks.ts 320-341, columns.ts 44-59).
PlaceholdersArePending ==
  cache # NoBoard /\ "rollback" \notin trouble =>
    \A m \in Mine : cache.temps[m] # Gone => m \in Pending
=============================================================================
