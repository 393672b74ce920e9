-------------------------- MODULE BoardSync_proofs --------------------------
(***************************************************************************)
(* One open page of a board, for any number of cards, columns and calls,   *)
(* in four parts.                                                          *)
(* Placeholders: only the create that a placeholder stands for puts it     *)
(* into the cache, and its answer takes it out.  What could bring it back  *)
(* is a rollback: the snapshot of a call during which the page took        *)
(* nothing else in was made while no other call was open.                  *)
(* Types (TInv): every operator on a cache keeps it well formed, and every *)
(* row a call comes back with is a row.                                    *)
(* Versions: the committed history (HistoryInv) says of every payload what *)
(* has been done to its card or column since; AInv counts, for every copy  *)
(* the page may still put back, the moves by which it is ahead.            *)
(* Synced (SInv): whatever a copy of the board (the cache, what a fetch    *)
(* has read, a snapshot) still lacks is accounted for by an event to come  *)
(* or by a call of the page that is open; so a quiet page lacks nothing.   *)
(***************************************************************************)
EXTENDS BoardSync, TLAPS, FiniteSetTheorems

IsPage(b) == DOMAIN b = {"cols", "cards", "temps"} /\ DOMAIN b.temps = Calls

\* The placeholders of b are those of open creates.
Tame(b) ==
  \A m \in Calls : b.temps[m] # Gone => m \in Pending /\ Kind(m) \in {"createTask", "createColumn"}

\* A board is there once one has been fetched, and before any call.
Loaded == cache # NoBoard \/ \E m \in Mine : stage[m] # "idle"

CacheInv == Loaded => IsPage(cache) /\ ("rollback" \notin trouble => Tame(cache))

SnapshotInv ==
  \A m \in Pending :
    /\ IsPage(snapshot[m])
    /\ m \notin touched /\ "rollback" \notin trouble =>
         \A x \in Calls : snapshot[m].temps[x] = Gone

PInv ==
  /\ \A c \in Calls : Kind(c) \in TaskKinds \cup ColumnKinds
  /\ DOMAIN stage = Calls /\ DOMAIN answer = Calls /\ DOMAIN snapshot = Calls
  /\ \A m \in Mine : stage[m] = "idle" => answer[m] = "none"
  /\ inbox \in Seq(Calls)
  /\ CacheInv
  /\ SnapshotInv

\* b has no placeholder that a has not.
Fewer(b, a) == IsPage(b) /\ \A m \in Calls : b.temps[m] \in {a.temps[m], Gone}
-----------------------------------------------------------------------------
(* What the operators on the cache do to the placeholders. *)

LEMMA FewerTasks ==
  ASSUME NEW b, IsPage(b), NEW k, NEW row
  PROVE  /\ Fewer(RemoveTask(b, k), b)
         /\ Fewer(UpsertTask(b, k, row), b)
         /\ Fewer(UpsertOrInsertTask(b, k, row), b)
         /\ Fewer(PatchTask(b, k, row), b)
         /\ \A m \in Calls : UpsertTask(b, k, row).temps[m] = b.temps[m]
BY DEF IsPage, Fewer, RemoveTask, UpsertTask, UpsertOrInsertTask, PatchTask

LEMMA FewerColumns ==
  ASSUME NEW b, IsPage(b), NEW x, NEW row
  PROVE  /\ Fewer(Empty(b, x), b)
         /\ Fewer(RemoveColumn(b, x), b)
         /\ Fewer(PatchColumn(b, x, row), b)
         /\ Fewer(UpsertOrInsertColumn(b, x, row), b)
<1>1. Fewer(Empty(b, x), b)
  BY DEF IsPage, Fewer, Empty
<1>2. Fewer(RemoveColumn(b, x), b)
  BY <1>1 DEF IsPage, Fewer, RemoveColumn
<1> QED
  BY <1>1, <1>2 DEF IsPage, Fewer, PatchColumn, UpsertOrInsertColumn

\* The placeholder is gone once the real row has come.
LEMMA Replaced ==
  ASSUME NEW b, IsPage(b), NEW m \in Calls, NEW k, NEW x, NEW row
  PROVE  /\ Fewer(ReplaceTaskId(b, m, k, row), b)
         /\ Fewer(ReplaceColumnId(b, m, x, row), b)
         /\ ReplaceTaskId(b, m, k, row).temps[m] = Gone
         /\ ReplaceColumnId(b, m, x, row).temps[m] = Gone
<1>1. Fewer(Empty(b, x), b)
  BY FewerColumns
<1>2. Fewer(ReplaceColumnId(b, m, x, row), b) /\ ReplaceColumnId(b, m, x, row).temps[m] = Gone
  BY <1>1 DEF IsPage, Fewer, ReplaceColumnId
<1> QED
  BY <1>2 DEF IsPage, Fewer, ReplaceTaskId

LEMMA EventFewer ==
  ASSUME NEW b, IsPage(b), NEW c \in Calls, Kind(c) \in TaskKinds \cup ColumnKinds
  PROVE  Fewer(OnEvent(b, c), b)
<1>1. Fewer(b, b)
  BY DEF Fewer
<1> QED
  BY <1>1, FewerTasks, FewerColumns DEF OnEvent, TaskKinds, ColumnKinds

LEMMA AnswerFewer ==
  ASSUME NEW b, IsPage(b), NEW m \in Calls
  PROVE  /\ Fewer(OnSuccess(b, m), b)
         /\ Kind(m) \in {"createTask", "createColumn"} => OnSuccess(b, m).temps[m] = Gone
<1>1. Fewer(b, b)
  BY DEF Fewer
<1> QED
  BY <1>1, FewerTasks, FewerColumns, Replaced DEF OnSuccess

\* Only a create adds a placeholder, and only its own.
LEMMA MutateFewer ==
  ASSUME NEW b, IsPage(b), NEW m \in Calls, Kind(m) \in TaskKinds \cup ColumnKinds
  PROVE  /\ IsPage(OnMutate(b, m))
         /\ \A x \in Calls \ {m} : OnMutate(b, m).temps[x] \in {b.temps[x], Gone}
         /\ Kind(m) \notin {"createTask", "createColumn"} => OnMutate(b, m).temps[m] \in {b.temps[m], Gone}
<1>1. /\ Fewer(b, b)
      /\ Fewer(MoveTaskOptimistic(b, Card(m), Target(m)), b)
  BY FewerTasks DEF Fewer, MoveTaskOptimistic
<1>2. /\ Fewer(EditTaskOptimistic(b, m), b)
      /\ Fewer(RenameColumnOptimistic(b, m), b)
      /\ Fewer(ReorderColumns(b, m), b)
  BY <1>1 DEF Fewer, IsPage, EditTaskOptimistic, RenameColumnOptimistic, ReorderColumns
<1>3. CASE Kind(m) \in {"createTask", "createColumn"}
  BY <1>3 DEF OnMutate, IsPage, CreateTaskOptimistic, CreateColumnOptimistic
<1>4. CASE Kind(m) \notin {"createTask", "createColumn"}
  <2>1. Fewer(OnMutate(b, m), b)
    BY <1>1, <1>2, <1>4, FewerTasks, FewerColumns DEF OnMutate, TaskKinds, ColumnKinds
  <2> QED
    BY <2>1, <1>4 DEF Fewer
<1> QED
  BY <1>3, <1>4
-----------------------------------------------------------------------------
(* The steps. *)

LEMMA InitPInv == Init => PInv
BY WorkloadAssumption
DEF Init, PInv, CacheInv, SnapshotInv, Loaded, Mine, Pending, Kind

\* Which calls of the page are open, the cache and the snapshots stay.
LEMMA StillPInv ==
  ASSUME PInv, UNCHANGED <<body, cache, snapshot, answer, touched>>,
         DOMAIN stage' = Calls, inbox' \in Seq(Calls),
         \A m \in Mine : stage[m] = "idle" <=> stage'[m] = "idle",
         "rollback" \in trouble => "rollback" \in trouble'
  PROVE  PInv'
<1>1. /\ Mine' = Mine /\ Pending' = Pending
      /\ Loaded' <=> Loaded
      /\ \A c \in Calls : Kind(c)' = Kind(c)
  BY DEF Mine, Pending, Loaded, Kind
<1>2. CacheInv'
  BY <1>1 DEF PInv, CacheInv, Tame, IsPage
<1>3. SnapshotInv'
  BY <1>1 DEF PInv, SnapshotInv, IsPage
<1> QED
  BY <1>1, <1>2, <1>3 DEF PInv

LEMMA MutatePInv ==
  ASSUME PInv, NEW m \in Calls, Mutate(m)
  PROVE  PInv'
<1>1. /\ m \in Mine /\ m \notin Pending /\ stage[m] = "idle"
      /\ cache # NoBoard
      /\ stage' = [stage EXCEPT ![m] = "sent"]
      /\ snapshot' = [snapshot EXCEPT ![m] = cache]
      /\ cache' = OnMutate(cache, m)
      /\ touched' = touched \cup Pending \cup (IF Pending = {} THEN {} ELSE {m})
      /\ UNCHANGED <<body, answer, trouble, inbox>>
  BY DEF Mutate, Pending, wire
<1>2. /\ Mine' = Mine /\ \A c \in Calls : Kind(c)' = Kind(c)
      /\ Pending \subseteq Pending' /\ Pending' \subseteq Pending \cup {m}
  BY <1>1 DEF PInv, Mine, Pending, Kind
<1>3. IsPage(cache) /\ ("rollback" \notin trouble => Tame(cache))
  BY <1>1 DEF PInv, CacheInv, Loaded
<1>4. CacheInv'
  <2>1. IsPage(cache)'
    BY <1>1, <1>3, MutateFewer DEF PInv, IsPage
  <2>2. ASSUME "rollback" \notin trouble PROVE Tame(cache)'
    <3>1. ASSUME NEW x \in Calls \ {m}, cache'.temps[x] # Gone
          PROVE  x \in Pending' /\ Kind(x)' \in {"createTask", "createColumn"}
      <4>1. cache.temps[x] # Gone
        BY <1>1, <1>3, <3>1, MutateFewer DEF PInv
      <4> QED
        BY <1>2, <1>3, <2>2, <4>1 DEF Tame
    <3>2. ASSUME cache'.temps[m] # Gone
          PROVE  m \in Pending' /\ Kind(m)' \in {"createTask", "createColumn"}
      <4>1. cache.temps[m] = Gone
        BY <1>1, <1>3, <2>2 DEF Tame
      <4>2. Kind(m) \in {"createTask", "createColumn"}
        BY <1>1, <1>3, <3>2, <4>1, MutateFewer DEF PInv
      <4>3. m \in Pending'
        BY <1>1, <1>2 DEF Pending, PInv, Mine
      <4> QED
        BY <1>2, <4>2, <4>3
    <3> QED
      BY <3>1, <3>2 DEF Tame
  <2> QED
    BY <1>1, <2>1, <2>2 DEF CacheInv
<1>5. SnapshotInv'
  <2> SUFFICES ASSUME NEW q \in Pending'
               PROVE  /\ IsPage(snapshot'[q])
                      /\ q \notin touched' /\ "rollback" \notin trouble =>
                           \A x \in Calls : snapshot'[q].temps[x] = Gone
    BY <1>1 DEF SnapshotInv, IsPage
  <2>1. CASE q # m
    BY <1>1, <1>2, <2>1 DEF PInv, SnapshotInv, Pending, Mine
  <2>2. CASE q = m
    BY <1>1, <1>3, <2>2 DEF PInv, Tame
  <2> QED
    BY <2>1, <2>2
<1> QED
  BY <1>1, <1>2, <1>4, <1>5 DEF PInv

\* A call of the page is no longer open, and its placeholder is not in the cache.
LEMMA SettlePInv ==
  ASSUME PInv, NEW m \in Pending, NEW outcome, outcome # "none",
         answer' = [answer EXCEPT ![m] = outcome],
         UNCHANGED <<body, stage, snapshot, inbox>>,
         touched' = touched \cup (Pending \ {m}),
         "rollback" \in trouble => "rollback" \in trouble',
         IsPage(cache'),
         "rollback" \notin trouble' => Tame(cache') /\ cache'.temps[m] = Gone
  PROVE  PInv'
<1>1. Mine' = Mine /\ \A c \in Calls : Kind(c)' = Kind(c)
  BY DEF Mine, Kind
<1>2. Pending' = Pending \ {m}
  BY <1>1 DEF Pending, PInv, Mine
<1>3. CacheInv'
  BY <1>1, <1>2 DEF CacheInv, Tame, IsPage
<1>4. SnapshotInv'
  BY <1>1, <1>2 DEF PInv, SnapshotInv, IsPage
<1>5. \A x \in Mine : stage[x] = "idle" => answer'[x] = "none"
  BY DEF PInv, Pending, Mine
<1> QED
  BY <1>1, <1>3, <1>4, <1>5 DEF PInv

LEMMA AnswerPInv ==
  ASSUME PInv, NEW m \in Calls, Answer(m)
  PROVE  PInv'
<1>1. /\ m \in Pending /\ m \in Mine
      /\ answer' = [answer EXCEPT ![m] = "ok"]
      /\ cache' = IF IsCurrent(m) THEN OnSuccess(cache, m) ELSE cache
      /\ touched' = touched \cup (Pending \ {m})
      /\ UNCHANGED <<body, stage, snapshot, inbox>>
      /\ trouble \subseteq trouble'
  BY DEF Answer, Pending, server, wire
<1>2. IsPage(cache) /\ ("rollback" \notin trouble => Tame(cache))
  BY <1>1 DEF PInv, CacheInv, Loaded, Pending
<1>3. Kind(m) \in {"createTask", "createColumn"} => IsCurrent(m)
  BY DEF IsCurrent
<1>4. Fewer(cache', cache)
  BY <1>1, <1>2, AnswerFewer DEF Fewer
<1>5. "rollback" \notin trouble' => Tame(cache') /\ cache'.temps[m] = Gone
  <2> SUFFICES ASSUME "rollback" \notin trouble' PROVE Tame(cache') /\ cache'.temps[m] = Gone
    OBVIOUS
  <2>1. Tame(cache')
    BY <1>1, <1>2, <1>4 DEF Tame, Fewer
  <2>2. cache'.temps[m] = Gone
    BY <1>1, <1>2, <1>3, <2>1, AnswerFewer DEF Tame
  <2> QED
    BY <2>1, <2>2
<1>6. IsPage(cache')
  BY <1>4 DEF Fewer
<1> QED
  BY <1>1, <1>5, <1>6, SettlePInv

\* A snapshot that may hold placeholders is a rollback the protocol does not cover.
LEMMA FailPInv ==
  ASSUME PInv, NEW m \in Pending, NEW conflict, Fail(m, conflict)
  PROVE  PInv'
<1>1. /\ answer' = [answer EXCEPT ![m] = "failed"]
      /\ cache' = RolledBack(m, conflict)
      /\ touched' = touched \cup (Pending \ {m})
      /\ UNCHANGED <<body, stage, snapshot, inbox>>
      /\ trouble \subseteq trouble'
      /\ IsCurrent(m) /\ m \in touched => "rollback" \in trouble'
  BY DEF Fail, server, wire
<1>2. m \in Calls /\ m \in Mine /\ stage[m] # "idle"
  BY DEF Pending, Mine
<1>3. IsPage(cache) /\ ("rollback" \notin trouble => Tame(cache))
  BY <1>2 DEF PInv, CacheInv, Loaded
<1>4. /\ IsPage(snapshot[m])
      /\ m \notin touched /\ "rollback" \notin trouble =>
           \A x \in Calls : snapshot[m].temps[x] = Gone
  BY DEF PInv, SnapshotInv
<1>5. CASE ~IsCurrent(m)
  <2>1. cache' = cache /\ Kind(m) = "moveTask"
    BY <1>1, <1>5 DEF RolledBack, IsCurrent
  <2>2. "rollback" \notin trouble => Tame(cache') /\ cache'.temps[m] = Gone
    BY <1>2, <1>3, <2>1 DEF Tame
  <2> QED
    BY <1>1, <1>3, <2>1, <2>2, SettlePInv
<1>6. CASE IsCurrent(m)
  <2>1. IsPage(cache') /\ \A x \in Calls : cache'.temps[x] = snapshot[m].temps[x]
    BY <1>1, <1>4, <1>6, FewerTasks DEF RolledBack, Fewer
  <2>2. "rollback" \notin trouble' => Tame(cache') /\ cache'.temps[m] = Gone
    BY <1>1, <1>2, <1>4, <1>6, <2>1 DEF Tame
  <2> QED
    BY <1>1, <2>1, <2>2, SettlePInv
<1> QED
  BY <1>5, <1>6

LEMMA DeliverPInv ==
  ASSUME PInv, Deliver
  PROVE  PInv'
<1> DEFINE c == Head(inbox)
<1>0. c \in Calls /\ inbox' \in Seq(Calls)
  BY DEF PInv, Deliver
<1>1. /\ cache' = IF cache = NoBoard THEN NoBoard ELSE OnEvent(cache, c)
      /\ UNCHANGED <<body, stage, answer, snapshot>>
      /\ touched \subseteq touched'
      /\ trouble \subseteq trouble'
  BY DEF Deliver, server
<1>2. /\ Mine' = Mine /\ Pending' = Pending /\ \A x \in Calls : Kind(x)' = Kind(x)
  BY <1>1 DEF Mine, Pending, Kind
<1>3. CASE cache = NoBoard
  BY <1>0, <1>1, <1>2, <1>3 DEF PInv, CacheInv, SnapshotInv, Loaded, Tame, IsPage
<1>4. CASE cache # NoBoard
  <2>1. IsPage(cache) /\ ("rollback" \notin trouble => Tame(cache))
    BY <1>4 DEF PInv, CacheInv, Loaded
  <2>2. Fewer(cache', cache)
    BY <1>0, <1>1, <1>4, <2>1, EventFewer DEF PInv
  <2>3. CacheInv'
    BY <1>1, <1>2, <2>1, <2>2 DEF CacheInv, Tame, Fewer, IsPage
  <2>4. SnapshotInv'
    BY <1>1, <1>2 DEF PInv, SnapshotInv, IsPage
  <2> QED
    BY <1>0, <1>1, <1>2, <2>3, <2>4 DEF PInv
<1> QED
  BY <1>3, <1>4

\* A board that has been fetched has no placeholder, and every open call is touched.
LEMMA LandPInv ==
  ASSUME PInv, Land
  PROVE  PInv'
<1>1. /\ cache' = Landed(fetch.cols, fetch.cards)
      /\ UNCHANGED <<body, stage, answer, snapshot, inbox>>
      /\ touched' = touched \cup Pending
  BY DEF Land, server, wire
<1>2. /\ Mine' = Mine /\ Pending' = Pending /\ \A x \in Calls : Kind(x)' = Kind(x)
  BY <1>1 DEF Mine, Pending, Kind
<1>3. IsPage(cache') /\ \A x \in Calls : cache'.temps[x] = Gone
  BY <1>1 DEF Landed, IsPage
<1>4. CacheInv'
  BY <1>3 DEF CacheInv, Tame, IsPage
<1>5. SnapshotInv'
  BY <1>1, <1>2 DEF PInv, SnapshotInv, IsPage
<1> QED
  BY <1>1, <1>2, <1>4, <1>5 DEF PInv

\* The server's steps move no call of the page back to before it was made.
LEMMA ServerPInv ==
  ASSUME PInv, NEW c \in Calls, Commit(c) \/ Refuse(c) \/ Announce(c)
  PROVE  PInv'
<1>1. UNCHANGED <<body, cache, snapshot, answer, touched>>
  BY DEF Commit, Refuse, Announce, page, ghosts
<1>2. /\ DOMAIN stage' = Calls
      /\ \A m \in Mine : stage[m] = "idle" <=> stage'[m] = "idle"
  BY DEF Commit, Refuse, Announce, Arrived, PInv, Mine
<1>3. inbox' \in Seq(Calls)
  BY DEF Commit, Refuse, Announce, PInv, wire
<1>4. trouble \subseteq trouble'
  BY DEF Commit, Refuse, Announce
<1> QED
  BY <1>1, <1>2, <1>3, <1>4, StillPInv

LEMMA NextPInv == PInv /\ [Next]_vars => PInv'
<1> SUFFICES ASSUME PInv, [Next]_vars PROVE PInv'
  OBVIOUS
<1>1. ASSUME NEW c \in Calls, Commit(c) \/ Refuse(c) \/ Announce(c) PROVE PInv'
  BY <1>1, ServerPInv
<1>2. ASSUME NEW m \in Calls, Mutate(m) PROVE PInv'
  BY <1>2, MutatePInv
<1>3. ASSUME NEW m \in Calls, Answer(m) PROVE PInv'
  BY <1>3, AnswerPInv
<1>4. ASSUME NEW m \in Calls, Refused(m) PROVE PInv'
  <2>1. m \in Pending
    BY <1>4 DEF Refused, Pending
  <2> QED
    BY <1>4, <2>1, FailPInv DEF Refused
<1>5. ASSUME NEW m \in Calls, Lose(m) PROVE PInv'
  BY <1>5, FailPInv DEF Lose
<1>6. CASE Deliver
  BY <1>6, DeliverPInv
<1>7. CASE Land
  BY <1>7, LandPInv
<1>8. CASE Disconnect
  <2>1. /\ UNCHANGED <<body, cache, snapshot, answer, touched, stage>>
        /\ inbox' = <<>> /\ trouble \subseteq trouble'
    BY <1>8 DEF Disconnect, server, page, ghosts
  <2> QED
    BY <2>1, StillPInv DEF PInv
<1>9. CASE Connect \/ Join \/ ReadColumns \/ ReadCards \/ FetchFails
  <2>1. UNCHANGED <<body, cache, snapshot, answer, touched, stage, inbox, trouble>>
    BY <1>9 DEF Connect, Join, ReadColumns, ReadCards, FetchFails, server, page, ghosts, wire
  <2> QED
    BY <2>1, StillPInv DEF PInv
<1>10. CASE Idle \/ UNCHANGED vars
  <2>1. UNCHANGED <<body, cache, snapshot, answer, touched, stage, inbox, trouble>>
    BY <1>10 DEF Idle, vars, server, page, ghosts, wire
  <2> QED
    BY <2>1, StillPInv DEF PInv
<1> QED
  BY <1>1, <1>2, <1>3, <1>4, <1>5, <1>6, <1>7, <1>8, <1>9, <1>10 DEF Next

LEMMA PInvImpliesPlaceholdersArePending == PInv => PlaceholdersArePending
BY DEF PInv, CacheInv, Loaded, Tame, PlaceholdersArePending, Mine

\* The placeholder of a create is on the page while the create is open, and never after its
\* answer, whatever events, refetches and other calls come in between; only a rollback that
\* the protocol does not cover brings one back (tasks.ts 320-341, columns.ts 44-59).
THEOREM PlaceholdersPending == Spec => []PlaceholdersArePending
<1>1. Init => PInv
  BY InitPInv
<1>2. PInv /\ [Next]_vars => PInv'
  BY NextPInv
<1>3. PInv => PlaceholdersArePending
  BY PInvImpliesPlaceholdersArePending
<1> QED
  BY <1>1, <1>2, <1>3, PTL DEF Spec
-----------------------------------------------------------------------------

BodyOK ==
  /\ \A c \in Calls :
       /\ Kind(c) \in TaskKinds \cup ColumnKinds
       /\ body[c].mine \in BOOLEAN /\ body[c].respaces \in BOOLEAN
       /\ Kind(c) \in TaskKinds => Card(c) \in Cards
       /\ Kind(c) \notin {"editTask", "deleteTask"} => Target(c) \in Columns
       /\ body[c].respaces => Kind(c) \in {"createTask", "moveTask", "createColumn", "moveColumn"}
       /\ Kind(c) = "createTask" => InitialBoard.cards[Card(c)] = Gone
       /\ Kind(c) = "createColumn" => InitialBoard.cols[Target(c)] = Gone
  /\ \A c, d \in Calls :
       c # d /\ Kind(c) = Kind(d) =>
         /\ Kind(c) = "createTask" => Card(c) # Card(d)
         /\ Kind(c) = "createColumn" => Target(c) # Target(d)

\* A placeholder is the one of a create, in the column it is asked for.
TempsOK(b) ==
  \A m \in Calls : b.temps[m] # Gone =>
    \/ Kind(m) = "createTask" /\ b.temps[m] = Target(m) /\ b.cols[Target(m)] # Gone
    \/ Kind(m) = "createColumn" /\ b.temps[m] = TopLevel

IsCopy(b) == IsCache(b) /\ TempsOK(b)

RealRows == {r \in CardRows : r.rank # Guess}

LEMMA Rows ==
  ASSUME NEW r \in CardRows, NEW s \in CardRows, NEW x \in Columns, NEW c \in Calls
  PROVE  /\ [r EXCEPT !.text = s.text] \in CardRows
         /\ [r EXCEPT !.text = c] \in CardRows
         /\ [r EXCEPT !.column = x] \in CardRows
         /\ [r EXCEPT !.rank = c] \in CardRows
         /\ [r EXCEPT !.column = x, !.rank = Guess, !.version = @ + 1] \in CardRows
         /\ [r EXCEPT !.column = x, !.version = @ + 1, !.rank = c] \in CardRows
         /\ [column |-> x, version |-> 0, text |-> c, rank |-> c] \in CardRows
         /\ r.column \in Columns /\ r.version \in Nat /\ r # Gone
<1>1. [r EXCEPT !.text = s.text] \in CardRows
  BY DEF CardRows
<1>2. [r EXCEPT !.text = c] \in CardRows
  BY DEF CardRows
<1>3. [r EXCEPT !.column = x] \in CardRows
  BY DEF CardRows
<1>4. [r EXCEPT !.rank = c] \in CardRows
  BY DEF CardRows
<1>5. [r EXCEPT !.column = x, !.rank = Guess, !.version = @ + 1] \in CardRows
  <2>1. r.version + 1 \in Nat
    BY DEF CardRows
  <2>2. [r EXCEPT !.column = x, !.rank = Guess, !.version = r.version + 1] \in CardRows
    BY <2>1 DEF CardRows
  <2>3. [r EXCEPT !.column = x, !.rank = Guess, !.version = @ + 1] = [r EXCEPT !.column = x, !.rank = Guess, !.version = r.version + 1]
    BY DEF CardRows
  <2> QED
    BY <2>2, <2>3
<1>6. [r EXCEPT !.column = x, !.version = @ + 1, !.rank = c] \in CardRows
  <2>1. r.version + 1 \in Nat
    BY DEF CardRows
  <2>2. [r EXCEPT !.column = x, !.version = r.version + 1, !.rank = c] \in CardRows
    BY <2>1 DEF CardRows
  <2>3. [r EXCEPT !.column = x, !.version = @ + 1, !.rank = c] = [r EXCEPT !.column = x, !.version = r.version + 1, !.rank = c]
    BY DEF CardRows
  <2> QED
    BY <2>2, <2>3
<1>7. [column |-> x, version |-> 0, text |-> c, rank |-> c] \in CardRows
  BY DEF CardRows
<1>8. r # Gone
  BY IdAssumption
<1>9. r.column \in Columns /\ r.version \in Nat
  BY DEF CardRows
<1> QED
  BY <1>1, <1>2, <1>3, <1>4, <1>5, <1>6, <1>7, <1>8, <1>9

LEMMA ColumnRowsKept ==
  ASSUME NEW r \in ColumnRows, NEW s \in ColumnRows, NEW c \in Calls
  PROVE  /\ [r EXCEPT !.title = c] \in ColumnRows
         /\ [r EXCEPT !.rank = c] \in ColumnRows
         /\ [r EXCEPT !.rank = s.rank] \in ColumnRows
         /\ [title |-> c, rank |-> c] \in ColumnRows
         /\ r # Gone
BY IdAssumption DEF ColumnRows

\* What keeps a copy a copy: the same columns and placeholders, typed cards in them.
LEMMA SetCard ==
  ASSUME NEW b, IsCopy(b), NEW k \in Cards, NEW row,
         row = Gone \/ (row \in CardRows /\ b.cols[row.column] # Gone)
  PROVE  IsCopy([b EXCEPT !.cards[k] = row])
<1> DEFINE a == [b EXCEPT !.cards[k] = row]
<1>1. /\ DOMAIN a = {"cols", "cards", "temps"}
      /\ a.cols = b.cols /\ a.temps = b.temps
      /\ a.cards = [q \in Cards |-> a.cards[q]]
      /\ \A q \in Cards : a.cards[q] = IF q = k THEN row ELSE b.cards[q]
  BY DEF IsCopy, IsCache
<1>2. IsCache(a)
  <2> HIDE DEF a
  <2> QED
    BY <1>1 DEF IsCopy, IsCache
<1>3. TempsOK(a)
  <2> HIDE DEF a
  <2> QED
    BY <1>1 DEF IsCopy, TempsOK
<1> QED
  BY <1>2, <1>3 DEF IsCopy

LEMMA SetColumn ==
  ASSUME BodyOK, NEW b, IsCopy(b), NEW x \in Columns, NEW row \in ColumnRows
  PROVE  IsCopy([b EXCEPT !.cols[x] = row])
<1> DEFINE a == [b EXCEPT !.cols[x] = row]
<1>0. row # Gone
  BY ColumnRowsKept, IdAssumption
<1>1. /\ DOMAIN a = {"cols", "cards", "temps"}
      /\ a.cards = b.cards /\ a.temps = b.temps
      /\ a.cols \in [Columns -> ColumnRows \cup {Gone}]
      /\ \A q \in Columns : a.cols[q] = IF q = x THEN row ELSE b.cols[q]
  BY DEF IsCopy, IsCache
<1> HIDE DEF a
<1>2. \A q \in Columns : b.cols[q] # Gone => a.cols[q] # Gone
  BY <1>0, <1>1
<1>3. IsCache(a)
  <2>1. \A k \in Cards : a.cards[k] # Gone => a.cards[k].column \in Columns
    BY <1>1 DEF IsCopy, IsCache, CardRows
  <2> QED
    BY <1>1, <1>2, <2>1 DEF IsCopy, IsCache
<1>4. \A m \in Calls : Kind(m) = "createTask" => Target(m) \in Columns
  BY DEF BodyOK
<1>5. TempsOK(a)
  BY <1>1, <1>2, <1>4 DEF IsCopy, TempsOK
<1> QED
  BY <1>3, <1>5 DEF IsCopy, a

LEMMA ClearColumn ==
  ASSUME BodyOK, NEW b, IsCopy(b), NEW x
  PROVE  IsCopy(RemoveColumn(b, x)) /\ IsCopy(Empty(b, x))
<1> DEFINE e == Empty(b, x)
<1> DEFINE a == [e EXCEPT !.cols[x] = Gone]
<1>1. /\ DOMAIN e = {"cols", "cards", "temps"} /\ e.cols = b.cols
      /\ e.cards = [q \in Cards |-> e.cards[q]]
      /\ \A k \in Cards : e.cards[k] = IF b.cards[k] # Gone /\ b.cards[k].column = x THEN Gone ELSE b.cards[k]
      /\ e.temps \in [Calls -> Columns \cup {TopLevel, Gone}]
      /\ \A m \in Calls : e.temps[m] = IF b.temps[m] = x THEN Gone ELSE b.temps[m]
  <2>1. /\ DOMAIN b = {"cols", "cards", "temps"}
        /\ b.cards = [q \in Cards |-> b.cards[q]] /\ b.temps \in [Calls -> Columns \cup {TopLevel, Gone}]
    BY DEF IsCopy, IsCache
  <2>2. /\ e.cols = b.cols /\ DOMAIN e = {"cols", "cards", "temps"}
        /\ e.cards = [k \in Cards |-> IF k \in InColumn(b, x) THEN Gone ELSE b.cards[k]]
        /\ e.temps = [m \in Calls |-> IF b.temps[m] = x THEN Gone ELSE b.temps[m]]
    BY <2>1 DEF Empty
  <2> HIDE DEF e
  <2> QED
    BY <2>1, <2>2 DEF InColumn
<1> HIDE DEF e
<1>2. IsCache(e)
  BY <1>1 DEF IsCopy, IsCache
<1>3. TempsOK(e)
  BY <1>1 DEF IsCopy, TempsOK
<1>4. /\ DOMAIN a = {"cols", "cards", "temps"}
      /\ a.cards = e.cards /\ a.temps = e.temps
      /\ a.cols \in [Columns -> ColumnRows \cup {Gone}]
      /\ \A q \in Columns : a.cols[q] = IF q = x THEN Gone ELSE e.cols[q]
  BY <1>2 DEF IsCache
<1> HIDE DEF a
<1>5. \A k \in Cards : e.cards[k] # Gone => e.cards[k].column # x /\ e.cards[k].column \in Columns
  BY <1>1, <1>2 DEF IsCache, CardRows
<1>6. IsCache(a)
  BY <1>2, <1>4, <1>5 DEF IsCache
<1>7. \A m \in Calls : e.temps[m] # Gone => e.temps[m] # x
  BY <1>1
<1>8. \A m \in Calls : Kind(m) = "createTask" => Target(m) \in Columns
  BY DEF BodyOK
<1>9. TempsOK(a)
  BY <1>3, <1>4, <1>7, <1>8 DEF TempsOK
<1> QED
  BY <1>2, <1>3, <1>6, <1>9 DEF RemoveColumn, IsCopy, e, a
-----------------------------------------------------------------------------

\* The rows that a committed or refused call comes back with.
CardRow(p) == p \in CardRows /\ p.rank # Guess

PayloadOK ==
  \A c \in Calls :
    /\ stage[c] = "committed" /\ Kind(c) \in {"createTask", "editTask", "moveTask"} => CardRow(payload[c])
    /\ stage[c] = "committed" /\ Kind(c) \in {"createColumn", "renameColumn", "moveColumn"} =>
         payload[c] \in ColumnRows
    /\ stage[c] = "conflict" => Kind(c) = "moveTask" /\ CardRow(payload[c])

LEMMA UpsertCopy ==
  ASSUME NEW b, IsCopy(b), NEW k \in Cards, NEW row \in CardRows
  PROVE  IsCopy(UpsertTask(b, k, row)) /\ IsCopy(UpsertOrInsertTask(b, k, row))
<1> DEFINE kept == [row EXCEPT !.text = b.cards[k].text]
<1>1. IsCopy(UpsertTask(b, k, row))
  <2>1. CASE b.cards[k] = Gone
    BY <2>1 DEF UpsertTask
  <2>2. CASE b.cards[k] # Gone /\ b.cols[row.column] = Gone
    BY <2>2, SetCard DEF UpsertTask, RemoveTask
  <2>3. CASE b.cards[k] # Gone /\ b.cols[row.column] # Gone
    <3>1. b.cards[k] \in CardRows
      BY <2>3 DEF IsCopy, IsCache
    <3>2. kept \in CardRows
      BY <3>1, Rows, IdAssumption DEF CardRows
    <3>3. kept.column = row.column
      BY DEF CardRows
    <3> HIDE DEF kept
    <3>4. IsCopy([b EXCEPT !.cards[k] = kept])
      BY <2>3, <3>2, <3>3, SetCard
    <3> QED
      BY <2>3, <3>4 DEF UpsertTask, kept
  <2> QED
    BY <2>1, <2>2, <2>3
<1>2. IsCopy(UpsertOrInsertTask(b, k, row))
  <2> DEFINE placed == IF b.cols[row.column] = Gone THEN Gone ELSE row
  <2>1. placed = Gone \/ (placed \in CardRows /\ b.cols[placed.column] # Gone)
    OBVIOUS
  <2> HIDE DEF placed
  <2>2. IsCopy([b EXCEPT !.cards[k] = placed])
    BY <2>1, SetCard
  <2> QED
    BY <2>2 DEF UpsertOrInsertTask, placed
<1> QED
  BY <1>1, <1>2

LEMMA PatchTaskCopy ==
  ASSUME NEW b, IsCopy(b), NEW k \in Cards, NEW row \in CardRows
  PROVE  IsCopy(PatchTask(b, k, row))
<1> DEFINE stay == [row EXCEPT !.column = b.cards[k].column]
<1>1. CASE b.cards[k] = Gone
  BY <1>1 DEF PatchTask
<1>2. CASE b.cards[k] # Gone
  <2>1. b.cards[k] \in CardRows /\ b.cols[b.cards[k].column] # Gone
    BY <1>2 DEF IsCopy, IsCache
  <2>2. stay \in CardRows /\ stay.column = b.cards[k].column
    BY <2>1 DEF CardRows
  <2> HIDE DEF stay
  <2>3. IsCopy([b EXCEPT !.cards[k] = stay])
    BY <2>1, <2>2, SetCard
  <2> QED
    BY <1>2, <2>3 DEF PatchTask, stay
<1> QED
  BY <1>1, <1>2

LEMMA PatchColumnCopy ==
  ASSUME BodyOK, NEW b, IsCopy(b), NEW x \in Columns, NEW row \in ColumnRows
  PROVE  /\ IsCopy(PatchColumn(b, x, row))
         /\ IsCopy(PatchColumn(b, x, [b.cols[x] EXCEPT !.rank = row.rank]))
         /\ IsCopy(UpsertOrInsertColumn(b, x, row))
<1>1. IsCopy([b EXCEPT !.cols[x] = row])
  BY SetColumn
<1>2. CASE b.cols[x] = Gone
  BY <1>1, <1>2 DEF PatchColumn, UpsertOrInsertColumn
<1>3. CASE b.cols[x] # Gone
  <2> DEFINE moved == [b.cols[x] EXCEPT !.rank = row.rank]
  <2>1. b.cols[x] \in ColumnRows
    BY <1>3 DEF IsCopy, IsCache
  <2>2. moved \in ColumnRows
    BY <2>1 DEF ColumnRows
  <2> HIDE DEF moved
  <2>3. IsCopy([b EXCEPT !.cols[x] = moved])
    BY <2>2, SetColumn
  <2> QED
    BY <1>1, <1>3, <2>3 DEF PatchColumn, UpsertOrInsertColumn, moved
<1> QED
  BY <1>2, <1>3

\* A placeholder comes and goes.
LEMMA SetTemp ==
  ASSUME NEW b, IsCopy(b), NEW m \in Calls, NEW x,
         \/ x = Gone
         \/ Kind(m) = "createTask" /\ x = Target(m) /\ x \in Columns /\ b.cols[x] # Gone
         \/ Kind(m) = "createColumn" /\ x = TopLevel
  PROVE  IsCopy([b EXCEPT !.temps[m] = x])
<1> DEFINE a == [b EXCEPT !.temps[m] = x]
<1>1. /\ DOMAIN a = {"cols", "cards", "temps"}
      /\ a.cols = b.cols /\ a.cards = b.cards
      /\ a.temps \in [Calls -> Columns \cup {TopLevel, Gone}]
      /\ \A q \in Calls : a.temps[q] = IF q = m THEN x ELSE b.temps[q]
  BY DEF IsCopy, IsCache
<1>2. IsCache(a)
  <2> HIDE DEF a
  <2> QED
    BY <1>1 DEF IsCopy, IsCache
<1>3. TempsOK(a)
  <2> HIDE DEF a
  <2> QED
    BY <1>1 DEF IsCopy, TempsOK
<1> QED
  BY <1>2, <1>3 DEF IsCopy

LEMMA ReplaceCopy ==
  ASSUME BodyOK, NEW b, IsCopy(b), NEW m \in Calls, NEW k \in Cards, NEW row \in CardRows,
         Kind(m) = "createTask"
  PROVE  IsCopy(ReplaceTaskId(b, m, k, row))
<1> DEFINE placed == IF b.temps[m] = Gone THEN Gone ELSE [row EXCEPT !.column = b.temps[m]]
<1>1. b.temps[m] # Gone => b.temps[m] \in Columns /\ b.cols[b.temps[m]] # Gone
  BY DEF IsCopy, TempsOK, BodyOK
<1>2. placed = Gone \/ (placed \in CardRows /\ b.cols[placed.column] # Gone)
  BY <1>1 DEF CardRows
<1> HIDE DEF placed
<1>3. IsCopy([b EXCEPT !.cards[k] = placed])
  BY <1>2, SetCard
<1> DEFINE a == [b EXCEPT !.cards[k] = placed]
<1>4. IsCopy([a EXCEPT !.temps[m] = Gone])
  BY <1>3, SetTemp
<1>5. ReplaceTaskId(b, m, k, row) = [a EXCEPT !.temps[m] = Gone]
  BY DEF ReplaceTaskId, placed
<1> QED
  BY <1>4, <1>5

LEMMA ReplaceColumnCopy ==
  ASSUME BodyOK, NEW b, IsCopy(b), NEW m \in Calls, NEW x \in Columns, NEW row \in ColumnRows,
         Kind(m) = "createColumn"
  PROVE  IsCopy(ReplaceColumnId(b, m, x, row))
<1> DEFINE e == Empty(b, x)
<1>1. IsCopy(e) /\ IsCopy([e EXCEPT !.cols[x] = Gone]) /\ IsCopy([e EXCEPT !.cols[x] = row])
  BY ClearColumn, SetColumn DEF RemoveColumn
<1> DEFINE placed == IF b.temps[m] = Gone THEN Gone ELSE row
           a == [e EXCEPT !.cols[x] = placed]
<1>2. IsCopy(a)
  BY <1>1
<1> HIDE DEF a
<1>3. IsCopy([a EXCEPT !.temps[m] = Gone])
  BY <1>2, SetTemp
<1>4. ReplaceColumnId(b, m, x, row) = [a EXCEPT !.temps[m] = Gone]
  BY DEF ReplaceColumnId, a
<1> QED
  BY <1>3, <1>4
-----------------------------------------------------------------------------

LEMMA BodyFacts ==
  ASSUME BodyOK, NEW c \in Calls
  PROVE  /\ Kind(c) \in TaskKinds \cup ColumnKinds
         /\ Kind(c) \in TaskKinds => Card(c) \in Cards
         /\ Kind(c) \notin {"editTask", "deleteTask"} => Target(c) \in Columns
BY DEF BodyOK

LEMMA EventCopy ==
  ASSUME BodyOK, PayloadOK, NEW b, IsCopy(b), NEW c \in Calls, stage[c] = "committed"
  PROVE  IsCopy(OnEvent(b, c))
<1> DEFINE k == Card(c) x == Target(c) p == payload[c]
<1>0. /\ Kind(c) \in TaskKinds \cup ColumnKinds
      /\ Kind(c) \in TaskKinds => k \in Cards
      /\ Kind(c) \notin {"editTask", "deleteTask"} => x \in Columns
  BY BodyFacts
<1>1. CASE Kind(c) \in {"createTask", "editTask", "moveTask"}
  <2>1. k \in Cards /\ p \in CardRows
    BY <1>0, <1>1 DEF PayloadOK, CardRow, TaskKinds
  <2> QED
    BY <1>1, <2>1, UpsertCopy DEF OnEvent
<1>2. CASE Kind(c) = "deleteTask"
  BY <1>0, <1>2, SetCard DEF OnEvent, TaskKinds, RemoveTask
<1>3. CASE Kind(c) \in {"createColumn", "renameColumn", "moveColumn"}
  <2>1. x \in Columns /\ p \in ColumnRows
    BY <1>0, <1>3 DEF PayloadOK
  <2>2. /\ IsCopy(PatchColumn(b, x, p))
        /\ IsCopy(PatchColumn(b, x, [b.cols[x] EXCEPT !.rank = p.rank]))
        /\ IsCopy(UpsertOrInsertColumn(b, x, p))
    BY <2>1, PatchColumnCopy
  <2> QED
    BY <1>3, <2>2 DEF OnEvent
<1>4. CASE Kind(c) = "deleteColumn"
  BY <1>4, ClearColumn DEF OnEvent
<1> QED
  BY <1>0, <1>1, <1>2, <1>3, <1>4 DEF TaskKinds, ColumnKinds

LEMMA AnswerCopy ==
  ASSUME BodyOK, PayloadOK, NEW b, IsCopy(b), NEW m \in Calls, stage[m] = "committed"
  PROVE  IsCopy(OnSuccess(b, m))
<1> DEFINE k == Card(m) x == Target(m) p == payload[m]
<1>0. /\ Kind(m) \in TaskKinds \cup ColumnKinds
      /\ Kind(m) \in TaskKinds => k \in Cards
      /\ Kind(m) \notin {"editTask", "deleteTask"} => x \in Columns
  BY BodyFacts
<1>1. CASE Kind(m) = "createTask"
  <2>1. k \in Cards /\ p \in CardRows /\ x \in Columns
    BY <1>0, <1>1 DEF PayloadOK, CardRow, TaskKinds
  <2> QED
    BY <1>1, <2>1, ReplaceCopy DEF OnSuccess
<1>2. CASE Kind(m) \in {"editTask", "moveTask"}
  <2>1. k \in Cards /\ p \in CardRows
    BY <1>0, <1>2 DEF PayloadOK, CardRow, TaskKinds
  <2>2. IsCopy(UpsertTask(b, k, p))
    BY <2>1, UpsertCopy
  <2>3. IsCopy(PatchTask(b, k, p))
    BY <2>1, PatchTaskCopy
  <2> QED
    BY <1>2, <2>2, <2>3 DEF OnSuccess
<1>3. CASE Kind(m) = "createColumn"
  <2>1. x \in Columns /\ p \in ColumnRows
    BY <1>0, <1>3 DEF PayloadOK
  <2>2. IsCopy(ReplaceColumnId(b, m, x, p))
    BY <1>3, <2>1, ReplaceColumnCopy
  <2> QED
    BY <1>3, <2>2 DEF OnSuccess
<1>4. CASE Kind(m) = "moveColumn"
  <2>1. x \in Columns /\ p \in ColumnRows
    BY <1>0, <1>4 DEF PayloadOK
  <2> QED
    BY <1>4, <2>1, PatchColumnCopy DEF OnSuccess
<1> QED
  BY <1>0, <1>1, <1>2, <1>3, <1>4 DEF OnSuccess, TaskKinds, ColumnKinds
-----------------------------------------------------------------------------

LEMMA MutateCopy ==
  ASSUME BodyOK, IsCopy(cache), NEW m \in Calls, Shown(m)
  PROVE  IsCopy(OnMutate(cache, m))
<1> DEFINE k == Card(m) x == Target(m)
<1>0. /\ Kind(m) \in TaskKinds \cup ColumnKinds
      /\ Kind(m) \in TaskKinds => k \in Cards
      /\ Kind(m) \notin {"editTask", "deleteTask"} => x \in Columns
  BY BodyFacts
<1>1. CASE Kind(m) = "createTask"
  <2>1. x \in Columns /\ cache.cols[x] # Gone
    BY <1>0, <1>1 DEF Shown, TaskKinds
  <2> QED
    BY <1>1, <2>1, SetTemp DEF OnMutate, CreateTaskOptimistic
<1>2. CASE Kind(m) = "editTask"
  <2>1. k \in Cards /\ cache.cards[k] # Gone
    BY <1>0, <1>2 DEF Shown, TaskKinds
  <2>2. cache.cards[k] \in CardRows /\ cache.cols[cache.cards[k].column] # Gone
    BY <2>1 DEF IsCopy, IsCache
  <2> DEFINE row == [cache.cards[k] EXCEPT !.text = m]
  <2>3. row \in CardRows /\ row.column = cache.cards[k].column
    BY <2>2, Rows DEF CardRows
  <2> HIDE DEF row
  <2>4. IsCopy([cache EXCEPT !.cards[k] = row])
    BY <2>1, <2>2, <2>3, SetCard
  <2>5. OnMutate(cache, m) = [cache EXCEPT !.cards[k] = row]
    BY <1>2, <2>1 DEF OnMutate, EditTaskOptimistic, row, IsCopy, IsCache
  <2> QED
    BY <2>4, <2>5
<1>3. CASE Kind(m) = "moveTask"
  <2>1. k \in Cards /\ cache.cards[k] # Gone /\ x \in Columns
    BY <1>0, <1>3 DEF Shown, TaskKinds
  <2>2. cache.cards[k] \in CardRows
    BY <2>1 DEF IsCopy, IsCache
  <2> DEFINE row == [cache.cards[k] EXCEPT !.column = x, !.rank = Guess, !.version = @ + 1]
  <2>3. row \in CardRows
    BY <2>1, <2>2, Rows, IdAssumption
  <2> HIDE DEF row
  <2>4. IsCopy(UpsertTask(cache, k, row))
    BY <2>1, <2>3, UpsertCopy
  <2>5. OnMutate(cache, m) = UpsertTask(cache, k, row)
    BY <1>3, <2>1 DEF OnMutate, MoveTaskOptimistic, row
  <2> QED
    BY <2>4, <2>5
<1>4. CASE Kind(m) = "deleteTask"
  BY <1>0, <1>4, SetCard DEF OnMutate, RemoveTask, TaskKinds
<1>5. CASE Kind(m) = "createColumn"
  BY <1>5, SetTemp DEF OnMutate, CreateColumnOptimistic
<1>6. CASE Kind(m) = "renameColumn"
  <2>1. x \in Columns /\ cache.cols[x] # Gone
    BY <1>0, <1>6 DEF Shown, TaskKinds
  <2>2. cache.cols[x] \in ColumnRows
    BY <2>1 DEF IsCopy, IsCache
  <2> DEFINE row == [cache.cols[x] EXCEPT !.title = m]
  <2>3. row \in ColumnRows
    BY <2>2 DEF ColumnRows
  <2> HIDE DEF row
  <2>4. IsCopy([cache EXCEPT !.cols[x] = row])
    BY <2>1, <2>3, SetColumn
  <2>5. OnMutate(cache, m) = [cache EXCEPT !.cols[x] = row]
    BY <1>6, <2>1 DEF OnMutate, RenameColumnOptimistic, row, IsCopy, IsCache
  <2> QED
    BY <2>4, <2>5
<1>7. CASE Kind(m) = "moveColumn"
  BY <1>7 DEF OnMutate, ReorderColumns
<1>8. CASE Kind(m) = "deleteColumn"
  BY <1>8, ClearColumn DEF OnMutate
<1> QED
  BY <1>0, <1>1, <1>2, <1>3, <1>4, <1>5, <1>6, <1>7, <1>8 DEF TaskKinds, ColumnKinds

-----------------------------------------------------------------------------
(* The server's board. *)

LEMMA BoardFacts ==
  ASSUME NEW b
  PROVE  IsBoard(b) <=>
           /\ DOMAIN b = {"cols", "cards"}
           /\ b.cols \in [Columns -> ColumnRows \cup {Gone}]
           /\ b.cards = [q \in Cards |-> b.cards[q]]
           /\ \A k \in Cards : b.cards[k] # Gone => CardRow(b.cards[k]) /\ b.cols[b.cards[k].column] # Gone
<1> DEFINE e == [cols |-> b.cols, cards |-> b.cards, temps |-> [c \in Calls |-> Gone]]
<1>1. /\ DOMAIN e = {"cols", "cards", "temps"}
      /\ e.cols = b.cols /\ e.cards = b.cards
      /\ e.temps \in [Calls -> Columns \cup {TopLevel, Gone}]
  OBVIOUS
<1> HIDE DEF e
<1>2. IsBoard(b) <=>
        /\ DOMAIN b = {"cols", "cards"}
        /\ IsCache(e)
        /\ \A k \in Cards : b.cards[k] # Gone => b.cards[k].rank # Guess
  BY DEF IsBoard, e
<1> QED
  BY <1>1, <1>2 DEF IsCache, CardRow

\* As it was, but for the rank that a re-spacing gives it.
Reranked(r, s, c) ==
  \/ r = s
  \/ body[c].respaces /\ s # Gone /\ r = [s EXCEPT !.rank = c]

LEMMA RerankedRows ==
  ASSUME NEW s, s = Gone \/ CardRow(s) \/ s \in ColumnRows, NEW r, NEW c \in Calls, Reranked(r, s, c)
  PROVE  /\ r = Gone <=> s = Gone
         /\ CardRow(s) => CardRow(r) /\ r.column = s.column /\ r.version = s.version /\ r.text = s.text
         /\ s \in ColumnRows => r \in ColumnRows /\ r.title = s.title
         /\ ~body[c].respaces => r = s
<1>1. CASE r = s
  BY <1>1
<1>2. CASE body[c].respaces /\ s # Gone /\ r = [s EXCEPT !.rank = c]
  <2>1. CardRow(s) => CardRow(r) /\ r.column = s.column /\ r.version = s.version /\ r.text = s.text
    BY <1>2, IdAssumption DEF CardRow, CardRows
  <2>2. s \in ColumnRows => r \in ColumnRows /\ r.title = s.title
    BY <1>2 DEF ColumnRows
  <2>3. r # Gone
    BY <2>1, <2>2, <1>2, IdAssumption DEF CardRow
  <2>4. ~body[c].respaces => r = s
    BY <1>2, Zenon
  <2>5. r = Gone <=> s = Gone
    BY <1>2, <2>3, Zenon
  <2> QED
    BY <2>1, <2>2, <2>4, <2>5, Zenon
<1> QED
  BY <1>1, <1>2 DEF Reranked

LEMMA RespacedCards ==
  ASSUME BodyOK, NEW b, IsBoard(b), NEW c \in Calls, Kind(c) \in TaskKinds
  PROVE  /\ DOMAIN Respaced(b, c) = {"cols", "cards"}
         /\ Respaced(b, c).cols = b.cols
         /\ Respaced(b, c).cards = [q \in Cards |-> Respaced(b, c).cards[q]]
         /\ \A q \in Cards : Reranked(Respaced(b, c).cards[q], b.cards[q], c)
<1>1. DOMAIN b = {"cols", "cards"} /\ b.cards = [q \in Cards |-> b.cards[q]]
  BY BoardFacts
<1>2. CASE ~body[c].respaces
  <2>1. Respaced(b, c) = b
    BY <1>2, Zenon DEF Respaced
  <2> QED
    BY <1>1, <2>1 DEF Reranked
<1>3. CASE body[c].respaces
  <2> DEFINE cards == [q \in Cards |->
               IF q \in InColumn(b, Target(c)) THEN [b.cards[q] EXCEPT !.rank = c] ELSE b.cards[q]]
  <2>1. Respaced(b, c) = [b EXCEPT !.cards = [q \in Cards |->
               IF q \in InColumn(b, Target(c)) THEN [@[q] EXCEPT !.rank = c] ELSE @[q]]]
    BY <1>3, Zenon DEF Respaced
  <2>2. \A q \in Cards : Reranked(cards[q], b.cards[q], c)
    BY <1>3 DEF Reranked, InColumn
  <2>3. cards = [q \in Cards |-> cards[q]]
    OBVIOUS
  <2>4. Respaced(b, c) = [b EXCEPT !.cards = cards]
    BY <1>1, <2>1
  <2> HIDE DEF cards
  <2> QED
    BY <1>1, <2>2, <2>3, <2>4
<1> QED
  BY <1>2, <1>3

LEMMA RespacedColumns ==
  ASSUME BodyOK, NEW b, IsBoard(b), NEW c \in Calls, Kind(c) \in ColumnKinds
  PROVE  /\ DOMAIN Respaced(b, c) = {"cols", "cards"}
         /\ Respaced(b, c).cards = b.cards
         /\ Respaced(b, c).cols \in [Columns -> ColumnRows \cup {Gone}]
         /\ \A q \in Columns : Reranked(Respaced(b, c).cols[q], b.cols[q], c)
<1>1. DOMAIN b = {"cols", "cards"} /\ b.cols \in [Columns -> ColumnRows \cup {Gone}]
  BY BoardFacts
<1>2. CASE ~body[c].respaces
  <2>1. Respaced(b, c) = b
    BY <1>2, Zenon DEF Respaced
  <2> QED
    BY <1>1, <2>1 DEF Reranked
<1>3. CASE body[c].respaces
  <2> DEFINE cols == [q \in Columns |->
               IF b.cols[q] # Gone THEN [b.cols[q] EXCEPT !.rank = c] ELSE Gone]
  <2>0. Kind(c) \notin TaskKinds
    BY DEF TaskKinds, ColumnKinds
  <2>1. Respaced(b, c) = [b EXCEPT !.cols = [q \in Columns |->
               IF @[q] # Gone THEN [@[q] EXCEPT !.rank = c] ELSE Gone]]
    BY <1>3, <2>0, Zenon DEF Respaced
  <2>2. \A q \in Columns : Reranked(cols[q], b.cols[q], c)
    BY <1>3 DEF Reranked
  <2>3. cols \in [Columns -> ColumnRows \cup {Gone}]
    <3>1. \A q \in Columns : b.cols[q] \in ColumnRows \cup {Gone}
      BY <1>1
    <3>2. \A q \in Columns : cols[q] \in ColumnRows \cup {Gone}
      BY <2>2, <3>1, RerankedRows
    <3>3. cols = [q \in Columns |-> cols[q]]
      OBVIOUS
    <3> HIDE DEF cols
    <3> QED
      BY <3>2, <3>3
  <2>4. Respaced(b, c) = [b EXCEPT !.cols = cols]
    BY <1>1, <2>1
  <2> HIDE DEF cols
  <2> QED
    BY <1>1, <2>2, <2>3, <2>4
<1> QED
  BY <1>2, <1>3

-----------------------------------------------------------------------------

\* What a call does to the board, field by field.
LEMMA AfterCard ==
  ASSUME BodyOK, IsBoard(board), NEW c \in Calls, Exists(c),
         Kind(c) \in {"createTask", "editTask", "moveTask"},
         NEW a, a = After(board, c), NEW k, k = Card(c)
  PROVE  /\ k \in Cards
         /\ DOMAIN a = {"cols", "cards"} /\ a.cols = board.cols /\ a.cards = [q \in Cards |-> a.cards[q]]
         /\ \A q \in Cards \ {k} : Reranked(a.cards[q], board.cards[q], c)
         /\ CardRow(a.cards[k]) /\ a.cols[a.cards[k].column] # Gone
         /\ Kind(c) = "createTask" =>
              /\ a.cards[k].column = Target(c) /\ a.cards[k].version = 0
              /\ a.cards[k].text = c /\ a.cards[k].rank = c
         /\ Kind(c) # "createTask" => CardRow(board.cards[k])
         /\ Kind(c) = "editTask" =>
              /\ a.cards[k].column = board.cards[k].column
              /\ a.cards[k].version = board.cards[k].version
              /\ a.cards[k].text = c /\ a.cards[k].rank = board.cards[k].rank
         /\ Kind(c) = "moveTask" =>
              /\ a.cards[k].column = Target(c)
              /\ a.cards[k].version = board.cards[k].version + 1
              /\ a.cards[k].text = board.cards[k].text /\ a.cards[k].rank = c
<1>1. /\ DOMAIN board = {"cols", "cards"} /\ board.cards = [q \in Cards |-> board.cards[q]]
      /\ board.cols \in [Columns -> ColumnRows \cup {Gone}]
      /\ \A q \in Cards : board.cards[q] # Gone =>
           CardRow(board.cards[q]) /\ board.cols[board.cards[q].column] # Gone
  BY BoardFacts
<1>2. k \in Cards /\ Kind(c) \in TaskKinds
  BY BodyFacts DEF TaskKinds
<1>3. c # Guess
  BY IdAssumption
<1>4. CASE Kind(c) = "editTask"
  <2>1. board.cards[k] # Gone
    BY <1>4 DEF Exists, TaskKinds
  <2>2. CardRow(board.cards[k]) /\ board.cols[board.cards[k].column] # Gone
    BY <1>1, <1>2, <2>1
  <2> DEFINE row == [board.cards[k] EXCEPT !.text = c]
  <2>3. /\ CardRow(row) /\ row.column = board.cards[k].column
        /\ row.version = board.cards[k].version
        /\ row.text = c /\ row.rank = board.cards[k].rank
    BY <2>2, Rows DEF CardRow, CardRows
  <2>4. a = [board EXCEPT !.cards[k] = row]
    BY <1>1, <1>2, <1>4 DEF After
  <2> HIDE DEF row
  <2>5. /\ DOMAIN a = {"cols", "cards"} /\ a.cols = board.cols /\ a.cards = [q \in Cards |-> a.cards[q]]
        /\ \A q \in Cards : a.cards[q] = IF q = k THEN row ELSE board.cards[q]
    BY <1>1, <2>4
  <2>6. \A q \in Cards \ {k} : Reranked(a.cards[q], board.cards[q], c)
    BY <2>5 DEF Reranked
  <2> QED
    BY <1>2, <1>4, <2>2, <2>3, <2>5, <2>6
<1>5. CASE Kind(c) \in {"createTask", "moveTask"}
  <2>1. Target(c) \in Columns /\ board.cols[Target(c)] # Gone
    BY <1>5, BodyFacts DEF Exists, TaskKinds
  <2>2. Kind(c) = "moveTask" => CardRow(board.cards[k])
    BY <1>1, <1>2 DEF Exists, TaskKinds
  <2> DEFINE row == IF Kind(c) = "createTask"
                    THEN [column |-> Target(c), version |-> 0, text |-> c, rank |-> c]
                    ELSE [board.cards[k] EXCEPT !.column = Target(c), !.version = @ + 1, !.rank = c]
             b == [board EXCEPT !.cards[k] = row]
  <2>3. /\ CardRow(row) /\ row.column = Target(c) /\ row.rank = c
        /\ Kind(c) = "createTask" => row.version = 0 /\ row.text = c
        /\ Kind(c) = "moveTask" => row.version = board.cards[k].version + 1 /\ row.text = board.cards[k].text
    <3>1. CASE Kind(c) = "createTask"
      BY <1>3, <2>1, <3>1, Rows DEF CardRow, CardRows
    <3>2. CASE Kind(c) = "moveTask"
      <4>1. row \in CardRows
        BY <2>1, <2>2, <3>2, Rows DEF CardRow
      <4>2. /\ row.column = Target(c) /\ row.rank = c
            /\ row.version = board.cards[k].version + 1 /\ row.text = board.cards[k].text
        BY <2>2, <3>2 DEF CardRow, CardRows
      <4> QED
        BY <1>3, <3>2, <4>1, <4>2 DEF CardRow
    <3> QED
      BY <1>5, <3>1, <3>2
  <2>4. a = Respaced(b, c)
    <3>1. CASE Kind(c) = "createTask"
      BY <3>1 DEF After
    <3>2. CASE Kind(c) = "moveTask"
      BY <3>2 DEF After
    <3> QED
      BY <1>5, <3>1, <3>2
  <2> HIDE DEF row
  <2>5. /\ DOMAIN b = {"cols", "cards"} /\ b.cols = board.cols /\ b.cards = [q \in Cards |-> b.cards[q]]
        /\ \A q \in Cards : b.cards[q] = IF q = k THEN row ELSE board.cards[q]
    BY <1>1
  <2> HIDE DEF b
  <2>6. IsBoard(b)
    BY <1>1, <2>1, <2>3, <2>5, BoardFacts
  <2>7. /\ DOMAIN a = {"cols", "cards"} /\ a.cols = board.cols /\ a.cards = [q \in Cards |-> a.cards[q]]
        /\ \A q \in Cards : Reranked(a.cards[q], b.cards[q], c)
    BY <1>2, <2>4, <2>5, <2>6, RespacedCards
  <2>8. Reranked(a.cards[k], row, c)
    BY <1>2, <2>5, <2>7
  <2>9. /\ CardRow(a.cards[k]) /\ a.cards[k].column = row.column
        /\ a.cards[k].version = row.version /\ a.cards[k].text = row.text
    BY <2>3, <2>8, RerankedRows
  <2>10. a.cards[k].rank = c
    BY <2>3, <2>8 DEF Reranked, CardRow, CardRows
  <2>11. \A q \in Cards \ {k} : Reranked(a.cards[q], board.cards[q], c)
    BY <2>5, <2>7
  <2> QED
    BY <1>2, <1>5, <2>1, <2>2, <2>3, <2>7, <2>9, <2>10, <2>11
<1> QED
  BY <1>4, <1>5

LEMMA AfterColumn ==
  ASSUME BodyOK, IsBoard(board), NEW c \in Calls, Exists(c),
         Kind(c) \in {"createColumn", "renameColumn", "moveColumn"},
         NEW a, a = After(board, c), NEW x, x = Target(c)
  PROVE  /\ x \in Columns
         /\ DOMAIN a = {"cols", "cards"} /\ a.cards = board.cards
         /\ a.cols \in [Columns -> ColumnRows \cup {Gone}]
         /\ \A q \in Columns \ {x} : Reranked(a.cols[q], board.cols[q], c)
         /\ a.cols[x] \in ColumnRows
         /\ Kind(c) = "createColumn" => a.cols[x].title = c /\ a.cols[x].rank = c
         /\ Kind(c) # "createColumn" => board.cols[x] \in ColumnRows
         /\ Kind(c) = "renameColumn" => a.cols[x].title = c /\ a.cols[x].rank = board.cols[x].rank
         /\ Kind(c) = "moveColumn" => a.cols[x].title = board.cols[x].title /\ a.cols[x].rank = c
<1>1. /\ DOMAIN board = {"cols", "cards"} /\ board.cards = [q \in Cards |-> board.cards[q]]
      /\ board.cols \in [Columns -> ColumnRows \cup {Gone}]
      /\ \A q \in Cards : board.cards[q] # Gone =>
           CardRow(board.cards[q]) /\ board.cols[board.cards[q].column] # Gone
  BY BoardFacts
<1>2. x \in Columns /\ Kind(c) \in ColumnKinds
  BY BodyFacts DEF ColumnKinds
<1>3. Kind(c) # "createColumn" => board.cols[x] \in ColumnRows
  BY <1>1, <1>2 DEF Exists
<1> DEFINE row == IF Kind(c) = "createColumn" THEN [title |-> c, rank |-> c]
                  ELSE IF Kind(c) = "renameColumn" THEN [board.cols[x] EXCEPT !.title = c]
                  ELSE [board.cols[x] EXCEPT !.rank = c]
           b == [board EXCEPT !.cols[x] = row]
<1>4. /\ row \in ColumnRows
      /\ Kind(c) = "createColumn" => row.title = c /\ row.rank = c
      /\ Kind(c) = "renameColumn" => row.title = c /\ row.rank = board.cols[x].rank
      /\ Kind(c) = "moveColumn" => row.title = board.cols[x].title /\ row.rank = c
  BY <1>3, ColumnRowsKept DEF ColumnRows
<1>5. IF Kind(c) = "renameColumn" THEN a = b ELSE a = Respaced(b, c)
  <2>1. CASE Kind(c) = "createColumn"
    BY <2>1 DEF After
  <2>2. CASE Kind(c) = "renameColumn"
    BY <1>1, <2>2 DEF After
  <2>3. CASE Kind(c) = "moveColumn"
    BY <1>1, <2>3 DEF After
  <2> QED
    BY <2>1, <2>2, <2>3
<1> HIDE DEF row
<1>6. /\ DOMAIN b = {"cols", "cards"} /\ b.cards = board.cards
      /\ b.cols \in [Columns -> ColumnRows \cup {Gone}]
      /\ \A q \in Columns : b.cols[q] = IF q = x THEN row ELSE board.cols[q]
  BY <1>1, <1>2, <1>4
<1> HIDE DEF b
<1>7. IsBoard(b)
  <2>1. \A q \in Columns : board.cols[q] # Gone => b.cols[q] # Gone
    BY <1>4, <1>6, ColumnRowsKept
  <2>2. \A q \in Cards : board.cards[q] # Gone => board.cards[q].column \in Columns
    BY <1>1 DEF CardRow, CardRows
  <2> QED
    BY <1>1, <1>6, <2>1, <2>2, BoardFacts
<1>8. /\ DOMAIN a = {"cols", "cards"} /\ a.cards = board.cards
      /\ a.cols \in [Columns -> ColumnRows \cup {Gone}]
      /\ \A q \in Columns : Reranked(a.cols[q], b.cols[q], c)
  <2>1. CASE Kind(c) = "renameColumn"
    BY <1>2, <1>5, <1>6, <2>1 DEF Reranked
  <2>2. CASE Kind(c) # "renameColumn"
    BY <1>2, <1>5, <1>6, <1>7, <2>2, RespacedColumns
  <2> QED
    BY <2>1, <2>2
<1>9. Reranked(a.cols[x], row, c)
  BY <1>2, <1>6, <1>8
<1>10. a.cols[x] \in ColumnRows /\ a.cols[x].title = row.title
  BY <1>4, <1>9, RerankedRows
<1>11. row.rank = c => a.cols[x].rank = c
  BY <1>4, <1>9 DEF Reranked, ColumnRows
<1>12. \A q \in Columns \ {x} : Reranked(a.cols[q], board.cols[q], c)
  BY <1>6, <1>8
<1>13. Kind(c) = "renameColumn" => a.cols[x] = row
  BY <1>2, <1>5, <1>6
<1> QED
  BY <1>2, <1>3, <1>4, <1>8, <1>10, <1>11, <1>12, <1>13

LEMMA AfterRemoval ==
  ASSUME BodyOK, IsBoard(board), NEW c \in Calls, NEW a, a = After(board, c)
  PROVE  /\ Kind(c) = "deleteTask" =>
              /\ Card(c) \in Cards
              /\ DOMAIN a = {"cols", "cards"} /\ a.cols = board.cols /\ a.cards = [q \in Cards |-> a.cards[q]]
              /\ \A q \in Cards : a.cards[q] = IF q = Card(c) THEN Gone ELSE board.cards[q]
         /\ Kind(c) = "deleteColumn" =>
              /\ Target(c) \in Columns
              /\ DOMAIN a = {"cols", "cards"} /\ a.cards = [q \in Cards |-> a.cards[q]]
              /\ a.cols \in [Columns -> ColumnRows \cup {Gone}]
              /\ \A x \in Columns : a.cols[x] = IF x = Target(c) THEN Gone ELSE board.cols[x]
              /\ \A q \in Cards : a.cards[q] = IF board.cards[q] # Gone /\ board.cards[q].column = Target(c)
                                               THEN Gone ELSE board.cards[q]
<1>1. /\ DOMAIN board = {"cols", "cards"} /\ board.cards = [q \in Cards |-> board.cards[q]]
      /\ board.cols \in [Columns -> ColumnRows \cup {Gone}]
  BY BoardFacts
<1>2. CASE Kind(c) = "deleteTask"
  BY <1>1, <1>2, BodyFacts DEF After, RemoveTask, TaskKinds
<1>3. CASE Kind(c) = "deleteColumn"
  <2>1. a = [board EXCEPT !.cols[Target(c)] = Gone,
                          !.cards = [k \in Cards |-> IF k \in InColumn(board, Target(c)) THEN Gone ELSE @[k]]]
    BY <1>3 DEF After
  <2>2. a.cards = [k \in Cards |-> IF k \in InColumn(board, Target(c)) THEN Gone ELSE board.cards[k]]
    BY <1>1, <2>1
  <2>3. DOMAIN a = {"cols", "cards"} /\ a.cols = [board.cols EXCEPT ![Target(c)] = Gone]
    BY <1>1, <2>1
  <2> QED
    BY <1>1, <1>3, <2>2, <2>3, BodyFacts DEF InColumn
<1> QED
  BY <1>2, <1>3
-----------------------------------------------------------------------------

Accepted == {c \in Calls : stage[c] = "committed"}

ServerOK ==
  /\ BodyOK /\ IsBoard(board) /\ PayloadOK
  /\ stage \in [Calls -> {"idle", "sent", "committed", "conflict", "refused"}]
  /\ DOMAIN payload = Calls
  /\ order \in Seq(Calls) /\ Committed = Accepted
  /\ told \subseteq Committed

FetchOK ==
  /\ DOMAIN fetch = {"stage", "cols", "cards", "before", "read", "missed"}
  /\ fetch.stage \in {"none", "asked", "half", "read"}
  /\ fetch.stage \in {"half", "read"} =>
       fetch.cols \in [Columns -> ColumnRows \cup {Gone}] /\ fetch.before \subseteq Committed
  /\ fetch.stage = "read" =>
       /\ fetch.cards = [q \in Cards |-> fetch.cards[q]]
       /\ \A k \in Cards : fetch.cards[k] # Gone =>
            CardRow(fetch.cards[k]) /\ fetch.cols[fetch.cards[k].column] # Gone
       /\ fetch.before \subseteq fetch.read /\ fetch.read \subseteq Committed

WireOK ==
  /\ link \in {"down", "up", "joined"}
  /\ inbox \in Seq(Calls)
  /\ \A i \in 1 .. Len(inbox) : inbox[i] \in told
  /\ heard \subseteq Committed

PageOK ==
  /\ answer \in [Calls -> {"none", "ok", "failed"}]
  /\ \A m \in Mine : stage[m] = "idle" => answer[m] = "none"
  /\ DOMAIN snapshot = Calls /\ DOMAIN newest = Cards
  /\ cache = NoBoard \/ IsCopy(cache)
  /\ Loaded => IsCopy(cache)
  /\ \A c \in Calls : snapshot[c] = NoBoard \/ IsCopy(snapshot[c])
  /\ \A m \in Pending : IsCopy(snapshot[m])

TInv == ServerOK /\ FetchOK /\ WireOK /\ PageOK

LEMMA TInvImpliesTypeOK == TInv => TypeOK
BY DEF TInv, ServerOK, WireOK, PageOK, IsCopy, TypeOK

LEMMA InitTInv == Init => TInv
<1> SUFFICES ASSUME Init PROVE TInv
  OBVIOUS
<1>1. BodyOK
  <2>1. PICK w \in Workloads : body = w.calls /\ drops = w.drops
    BY DEF Init
  <2>2. \A c \in Calls : body[c].mine \in BOOLEAN /\ body[c].respaces \in BOOLEAN
    BY <2>1, WorkloadAssumption
  <2>3. \A c \in Calls :
          /\ Kind(c) \in TaskKinds \cup ColumnKinds
          /\ Kind(c) \in TaskKinds => Card(c) \in Cards
          /\ Kind(c) \notin {"editTask", "deleteTask"} => Target(c) \in Columns
          /\ Kind(c) = "createTask" => InitialBoard.cards[Card(c)] = Gone
          /\ Kind(c) = "createColumn" => InitialBoard.cols[Target(c)] = Gone
    BY <2>1, WorkloadAssumption DEF Kind, Card, Target
  <2>4. \A c \in Calls : body[c].respaces =>
          Kind(c) \in {"createTask", "moveTask", "createColumn", "moveColumn"}
    BY <2>1, WorkloadAssumption DEF Kind
  <2>5. \A c, d \in Calls :
          c # d /\ Kind(c) = Kind(d) =>
            /\ Kind(c) = "createTask" => Card(c) # Card(d)
            /\ Kind(c) = "createColumn" => Target(c) # Target(d)
    BY <2>1, WorkloadAssumption DEF Kind, Card, Target
  <2> QED
    BY <2>2, <2>3, <2>4, <2>5, Zenon DEF BodyOK
<1>2. IsBoard(board)
  BY BoardAssumption DEF Init
<1>3. PayloadOK /\ Committed = Accepted /\ Committed = {}
  BY DEF Init, PayloadOK, Committed, Accepted
<1>4. ServerOK
  BY <1>1, <1>2, <1>3 DEF Init, ServerOK
<1>5. FetchOK
  BY DEF Init, FetchOK, Asked, NoFetch
<1>6. WireOK
  BY DEF Init, WireOK
<1>7. PageOK
  BY DEF Init, PageOK, Loaded, Pending, Mine
<1> QED
  BY <1>4, <1>5, <1>6, <1>7 DEF TInv
-----------------------------------------------------------------------------

LEMMA SameCalls ==
  ASSUME body' = body
  PROVE  /\ \A c \in Calls : Kind(c)' = Kind(c) /\ Card(c)' = Card(c) /\ Target(c)' = Target(c)
         /\ Mine' = Mine /\ BodyOK' = BodyOK
BY DEF Kind, Card, Target, Mine, BodyOK

\* The same calls' copies are the same.
LEMMA CacheKept ==
  ASSUME body' = body, IsCopy(cache') \/ (cache' = cache /\ IsCopy(cache))
  PROVE  IsCopy(cache)'
<1>1. IsCopy(cache')
  OBVIOUS
<1> QED
  BY <1>1, SameCalls DEF IsCopy, IsCache, TempsOK

LEMMA SnapshotsKept ==
  ASSUME body' = body, NEW m \in Calls, snapshot'[m] = snapshot[m], IsCopy(snapshot[m])
  PROVE  IsCopy(snapshot[m])'
BY SameCalls DEF IsCopy, IsCache, TempsOK

\* A step that leaves the page's calls open as they are.
LEMMA PageKept ==
  ASSUME PageOK, UNCHANGED <<body, answer, snapshot>>, DOMAIN newest' = Cards,
         \A m \in Mine : stage'[m] = "idle" <=> stage[m] = "idle",
         cache' = cache \/ IsCopy(cache')
  PROVE  PageOK'
<1>1. Mine' = Mine
  BY SameCalls
<1>2. Pending' = Pending
  BY <1>1 DEF Pending, Mine
<1>3. IsCopy(cache) => IsCopy(cache)'
  BY CacheKept
<1>4. IsCopy(cache') => IsCopy(cache)'
  BY CacheKept
<1>5. \A c \in Calls : IsCopy(snapshot[c]) => IsCopy(snapshot[c])'
  BY SnapshotsKept
<1>6. cache' = NoBoard \/ IsCopy(cache)'
  BY <1>3, <1>4 DEF PageOK
<1>7. Loaded' => IsCopy(cache)'
  BY <1>1, <1>3, <1>4 DEF PageOK, Loaded
<1>8. \A c \in Calls : snapshot'[c] = NoBoard \/ IsCopy(snapshot[c])'
  BY <1>5 DEF PageOK
<1>9. \A m \in Pending' : IsCopy(snapshot[m])'
  BY <1>2, <1>5 DEF PageOK, Pending, Mine
<1> QED
  BY <1>1, <1>6, <1>7, <1>8, <1>9 DEF PageOK

LEMMA ServerKept ==
  ASSUME ServerOK, UNCHANGED <<server, body>>
  PROVE  ServerOK'
<1>1. BodyOK' /\ \A c \in Calls : Kind(c)' = Kind(c)
  BY SameCalls DEF ServerOK
<1>2. PayloadOK'
  BY <1>1 DEF ServerOK, PayloadOK, server
<1>3. IsBoard(board)'
  BY DEF ServerOK, server, IsBoard, IsCache
<1> QED
  BY <1>1, <1>2, <1>3 DEF ServerOK, server, Committed, Accepted

\* The server's stage with one call moves.
LEMMA StageMoves ==
  ASSUME ServerOK, NEW c \in Calls, NEW s \in {"sent", "committed", "conflict", "refused"},
         stage[c] \in {"idle", "sent"},
         stage' = [stage EXCEPT ![c] = s], body' = body,
         IsBoard(board)', DOMAIN payload' = Calls,
         \A d \in Calls \ {c} : payload'[d] = payload[d],
         told' = told,
         order' = IF s = "committed" THEN Append(order, c) ELSE order,
         s = "committed" =>
           /\ Kind(c) \in {"createTask", "editTask", "moveTask"} => CardRow(payload'[c])
           /\ Kind(c) \in {"createColumn", "renameColumn", "moveColumn"} => payload'[c] \in ColumnRows,
         s = "conflict" => Kind(c) = "moveTask" /\ CardRow(payload'[c])
  PROVE  ServerOK' /\ Committed' = IF s = "committed" THEN Committed \cup {c} ELSE Committed
<1>1. BodyOK' /\ \A d \in Calls : Kind(d)' = Kind(d)
  BY SameCalls DEF ServerOK
<1>2. /\ stage' \in [Calls -> {"idle", "sent", "committed", "conflict", "refused"}]
      /\ \A d \in Calls : stage'[d] = IF d = c THEN s ELSE stage[d]
  BY DEF ServerOK
<1>3. PayloadOK'
  BY <1>1, <1>2 DEF ServerOK, PayloadOK
<1>4. order' \in Seq(Calls)
  BY DEF ServerOK
<1>5. Committed' = IF s = "committed" THEN Committed \cup {c} ELSE Committed
  <2>1. CASE s = "committed"
    <3>1. /\ Len(order') = Len(order) + 1 /\ Len(order) \in Nat
          /\ \A i \in 1 .. Len(order) : order'[i] = order[i]
          /\ order'[Len(order) + 1] = c
      BY <2>1 DEF ServerOK
    <3> QED
      BY <2>1, <3>1 DEF Committed
  <2>2. CASE s # "committed"
    BY <2>2 DEF Committed
  <2> QED
    BY <2>1, <2>2
<1>6. Accepted' = IF s = "committed" THEN Accepted \cup {c} ELSE Accepted
  BY <1>2 DEF Accepted
<1> QED
  BY <1>1, <1>2, <1>3, <1>4, <1>5, <1>6 DEF ServerOK

LEMMA FetchKept ==
  ASSUME FetchOK, fetch' = fetch \/ (\E x : fetch' = [fetch EXCEPT !.missed = x]), Committed \subseteq Committed'
  PROVE  FetchOK'
<1>1. /\ DOMAIN fetch' = DOMAIN fetch
      /\ fetch'.stage = fetch.stage /\ fetch'.cols = fetch.cols /\ fetch'.cards = fetch.cards
      /\ fetch'.before = fetch.before /\ fetch'.read = fetch.read
  BY DEF FetchOK
<1> QED
  BY <1>1 DEF FetchOK, CardRow
-----------------------------------------------------------------------------

LEMMA CommitTInv ==
  ASSUME TInv, NEW c \in Calls, Commit(c)
  PROVE  TInv'
<1>1. /\ ServerOK /\ BodyOK /\ IsBoard(board)
      /\ Arrived(c) /\ Exists(c)
      /\ board' = After(board, c)
      /\ payload' = [payload EXCEPT ![c] = Row(board', c)]
      /\ order' = Append(order, c)
      /\ stage' = [stage EXCEPT ![c] = "committed"]
      /\ UNCHANGED <<told, body, answer, snapshot, newest, cache, inbox, link, heard>>
  BY DEF TInv, ServerOK, Commit, wire, page, ghosts
<1>2. stage[c] \in {"idle", "sent"} /\ (c \in Mine => stage[c] = "sent")
  BY <1>1 DEF Arrived
<1>3. /\ Kind(c) \in TaskKinds \cup ColumnKinds
      /\ board.cols \in [Columns -> ColumnRows \cup {Gone}]
      /\ \A q \in Cards : board.cards[q] # Gone =>
           CardRow(board.cards[q]) /\ board.cols[board.cards[q].column] # Gone
  BY <1>1, BodyFacts, BoardFacts
<1>4. /\ IsBoard(board)'
      /\ Kind(c) \in {"createTask", "editTask", "moveTask"} => CardRow(payload'[c])
      /\ Kind(c) \in {"createColumn", "renameColumn", "moveColumn"} => payload'[c] \in ColumnRows
  <2>0. payload'[c] = Row(board', c)
    BY <1>1 DEF ServerOK
  <2>1. CASE Kind(c) \in {"createTask", "editTask", "moveTask"}
    <3> DEFINE k == Card(c)
    <3>1. /\ k \in Cards
          /\ DOMAIN board' = {"cols", "cards"} /\ board'.cols = board.cols /\ board'.cards = [q \in Cards |-> board'.cards[q]]
          /\ \A q \in Cards \ {k} : Reranked(board'.cards[q], board.cards[q], c)
          /\ CardRow(board'.cards[k]) /\ board.cols[board'.cards[k].column] # Gone
      BY <1>1, <2>1, AfterCard
    <3>2. \A q \in Cards \ {k} : board'.cards[q] # Gone =>
            CardRow(board'.cards[q]) /\ board.cols[board'.cards[q].column] # Gone
      BY <1>3, <3>1, RerankedRows
    <3>3. IsBoard(board')
      BY <1>3, <3>1, <3>2, BoardFacts
    <3>4. payload'[c] = board'.cards[k]
      BY <2>0, <2>1 DEF Row, TaskKinds
    <3> QED
      BY <2>1, <3>1, <3>3, <3>4 DEF IsBoard, IsCache
  <2>2. CASE Kind(c) \in {"createColumn", "renameColumn", "moveColumn"}
    <3> DEFINE x == Target(c)
    <3>1. /\ x \in Columns
          /\ DOMAIN board' = {"cols", "cards"} /\ board'.cards = board.cards
          /\ board'.cols \in [Columns -> ColumnRows \cup {Gone}]
          /\ \A q \in Columns \ {x} : Reranked(board'.cols[q], board.cols[q], c)
          /\ board'.cols[x] \in ColumnRows
      BY <1>1, <2>2, AfterColumn
    <3>2. \A q \in Columns \ {x} : board.cols[q] # Gone => board'.cols[q] # Gone
      BY <1>3, <3>1, RerankedRows
    <3>3. board'.cols[x] # Gone
      BY <3>1, ColumnRowsKept, IdAssumption
    <3>4. \A q \in Cards : board.cards[q] # Gone => board.cards[q].column \in Columns
      BY <1>3 DEF CardRow, CardRows
    <3>5. IsBoard(board')
      BY <1>1, <1>3, <3>1, <3>2, <3>3, <3>4, BoardFacts
    <3>6. payload'[c] = board'.cols[x]
      BY <2>0, <2>2 DEF Row, TaskKinds
    <3> QED
      BY <2>2, <3>1, <3>5, <3>6 DEF IsBoard, IsCache
  <2>3. CASE Kind(c) = "deleteTask"
    <3>1. /\ DOMAIN board' = {"cols", "cards"} /\ board'.cols = board.cols
          /\ board'.cards = [q \in Cards |-> board'.cards[q]]
          /\ \A q \in Cards : board'.cards[q] = IF q = Card(c) THEN Gone ELSE board.cards[q]
      BY <1>1, <2>3, AfterRemoval
    <3>2. IsBoard(board')
      BY <1>3, <3>1, BoardFacts
    <3> QED
      BY <2>3, <3>2 DEF IsBoard, IsCache
  <2>4. CASE Kind(c) = "deleteColumn"
    <3>1. \A q \in Cards : board.cards[q] # Gone => board.cards[q].column \in Columns
      BY <1>3 DEF CardRow, CardRows
    <3>2. /\ DOMAIN board' = {"cols", "cards"} /\ board'.cards = [q \in Cards |-> board'.cards[q]]
          /\ board'.cols \in [Columns -> ColumnRows \cup {Gone}]
          /\ \A x \in Columns : board'.cols[x] = IF x = Target(c) THEN Gone ELSE board.cols[x]
          /\ \A q \in Cards : board'.cards[q] = IF board.cards[q] # Gone /\ board.cards[q].column = Target(c)
                                                   THEN Gone ELSE board.cards[q]
      BY <1>1, <2>4, AfterRemoval
    <3>3. IsBoard(board')
      BY <1>3, <3>1, <3>2, BoardFacts
    <3> QED
      BY <2>4, <3>3 DEF IsBoard, IsCache
  <2> QED
    BY <1>3, <2>1, <2>2, <2>3, <2>4 DEF TaskKinds, ColumnKinds
<1>5. DOMAIN payload' = Calls /\ \A d \in Calls \ {c} : payload'[d] = payload[d]
  BY <1>1 DEF ServerOK
<1>6. ServerOK' /\ Committed \subseteq Committed'
  <2> DEFINE s == "committed"
  <2>1. /\ s \in {"sent", "committed", "conflict", "refused"} /\ s # "conflict"
        /\ stage' = [stage EXCEPT ![c] = s]
        /\ order' = IF s = "committed" THEN Append(order, c) ELSE order
    BY <1>1
  <2> HIDE DEF s
  <2>2. ServerOK' /\ Committed' = IF s = "committed" THEN Committed \cup {c} ELSE Committed
    BY <1>1, <1>2, <1>4, <1>5, <2>1, StageMoves
  <2> QED
    BY <2>2
<1>7. fetch' = fetch \/ \E x : fetch' = [fetch EXCEPT !.missed = x]
  BY DEF Commit
<1>8. FetchOK'
  BY <1>6, <1>7, FetchKept DEF TInv
<1>9. WireOK'
  BY <1>1, <1>6 DEF TInv, WireOK
<1>10. PageOK'
  <2>1. \A m \in Mine : stage'[m] = "idle" <=> stage[m] = "idle"
    BY <1>1, <1>2 DEF ServerOK, Mine
  <2> QED
    BY <1>1, <2>1, PageKept DEF TInv, PageOK
<1> QED
  BY <1>6, <1>8, <1>9, <1>10 DEF TInv
-----------------------------------------------------------------------------

LEMMA RefuseTInv ==
  ASSUME TInv, NEW c \in Calls, Refuse(c)
  PROVE  TInv'
<1>1. /\ ServerOK /\ Arrived(c)
      /\ UNCHANGED <<board, order, told, body, fetch, answer, snapshot, newest, cache, inbox, link, heard>>
  BY DEF TInv, Refuse, wire, page, ghosts
<1>2. stage[c] \in {"idle", "sent"} /\ (c \in Mine => stage[c] = "sent")
  BY <1>1 DEF Arrived
<1>3. IsBoard(board)'
  BY <1>1 DEF ServerOK, IsBoard, IsCache
<1>4. ServerOK' /\ Committed' = Committed /\ DOMAIN stage' = Calls /\ (\A m \in Mine : stage'[m] = "idle" <=> stage[m] = "idle")
  <2>1. CASE /\ c \in Mine /\ Kind(c) = "moveTask" /\ Exists(c)
             /\ stage' = [stage EXCEPT ![c] = "conflict"]
             /\ payload' = [payload EXCEPT ![c] = board.cards[Card(c)]]
    <3>1. Card(c) \in Cards /\ board.cards[Card(c)] # Gone
      BY <1>1, <2>1, BodyFacts DEF ServerOK, Exists, TaskKinds
    <3>2. CardRow(board.cards[Card(c)])
      BY <1>1, <3>1, BoardFacts DEF ServerOK
    <3>3. /\ DOMAIN payload' = Calls /\ payload'[c] = board.cards[Card(c)]
          /\ \A d \in Calls \ {c} : payload'[d] = payload[d]
      BY <1>1, <2>1 DEF ServerOK
    <3>4. CardRow(payload'[c])
      BY <3>2, <3>3
    <3>5. ServerOK' /\ Committed' = Committed
      BY <1>1, <1>2, <1>3, <2>1, <3>3, <3>4, StageMoves
    <3> QED
      BY <1>1, <1>2, <2>1, <3>5 DEF ServerOK, Mine
  <2>2. CASE stage' = [stage EXCEPT ![c] = "refused"] /\ UNCHANGED payload
    <3>1. ServerOK' /\ Committed' = Committed
      BY <1>1, <1>2, <1>3, <2>2, StageMoves DEF ServerOK
    <3> QED
      BY <1>1, <1>2, <2>2, <3>1 DEF ServerOK, Mine
  <2> QED
    BY <2>1, <2>2 DEF Refuse
<1>5. FetchOK'
  BY <1>1, <1>4, FetchKept DEF TInv
<1>6. WireOK'
  BY <1>1, <1>4 DEF TInv, WireOK
<1>7. PageOK'
  BY <1>1, <1>4, PageKept DEF TInv, PageOK
<1> QED
  BY <1>4, <1>5, <1>6, <1>7 DEF TInv

LEMMA AnnounceTInv ==
  ASSUME TInv, NEW c \in Calls, Announce(c)
  PROVE  TInv'
<1>1. /\ ServerOK /\ stage[c] = "committed" /\ told' = told \cup {c}
      /\ UNCHANGED <<board, stage, payload, order, body, link, answer, snapshot, newest, cache, heard>>
      /\ inbox' = inbox \/ inbox' = Append(inbox, c)
      /\ fetch' = fetch \/ \E x : fetch' = [fetch EXCEPT !.missed = x]
  BY DEF TInv, Announce, page, ghosts
<1>2. c \in Committed
  BY <1>1 DEF ServerOK, Accepted
<1>3. ServerOK' /\ Committed' = Committed
  <2>1. BodyOK' /\ \A d \in Calls : Kind(d)' = Kind(d)
    BY <1>1, SameCalls DEF ServerOK
  <2>2. PayloadOK'
    BY <1>1, <2>1 DEF ServerOK, PayloadOK
  <2>3. IsBoard(board)'
    BY <1>1 DEF ServerOK, IsBoard, IsCache
  <2> QED
    BY <1>1, <1>2, <2>1, <2>2, <2>3 DEF ServerOK, Committed, Accepted
<1>4. FetchOK'
  BY <1>1, <1>3, FetchKept DEF TInv
<1>5. WireOK'
  <2>1. CASE inbox' = inbox
    BY <1>1, <1>3, <2>1 DEF TInv, WireOK
  <2>2. CASE inbox' = Append(inbox, c)
    <3>1. /\ inbox' \in Seq(Calls) /\ Len(inbox') = Len(inbox) + 1
          /\ \A i \in 1 .. Len(inbox) : inbox'[i] = inbox[i]
          /\ inbox'[Len(inbox) + 1] = c /\ Len(inbox) \in Nat
      BY <2>2 DEF TInv, WireOK
    <3> QED
      BY <1>1, <1>3, <3>1 DEF TInv, WireOK
  <2> QED
    BY <1>1, <2>1, <2>2
<1>6. PageOK'
  BY <1>1, PageKept DEF TInv, PageOK
<1> QED
  BY <1>3, <1>4, <1>5, <1>6 DEF TInv

LEMMA MutateTInv ==
  ASSUME TInv, NEW m \in Calls, Mutate(m)
  PROVE  TInv'
<1>1. /\ ServerOK /\ PageOK /\ m \in Mine /\ stage[m] = "idle" /\ cache # NoBoard /\ Shown(m)
      /\ stage' = [stage EXCEPT ![m] = "sent"]
      /\ snapshot' = [snapshot EXCEPT ![m] = cache]
      /\ cache' = OnMutate(cache, m)
      /\ fetch' = NoFetch
      /\ newest' = newest \/ newest' = [newest EXCEPT ![Card(m)] = m]
      /\ UNCHANGED <<board, payload, order, told, body, answer, inbox, link, heard>>
  BY DEF TInv, Mutate, wire
<1>2. IsCopy(cache) /\ IsCopy(cache')
  BY <1>1, MutateCopy DEF PageOK, ServerOK
<1>3. ServerOK' /\ Committed' = Committed
  <2>1. IsBoard(board)'
    BY <1>1 DEF ServerOK, IsBoard, IsCache
  <2> QED
    BY <1>1, <2>1, StageMoves DEF ServerOK
<1>4. FetchOK'
  BY <1>1 DEF FetchOK, NoFetch
<1>5. WireOK'
  BY <1>1, <1>3 DEF TInv, WireOK
<1>6. PageOK'
  <2>1. Mine' = Mine
    BY <1>1, SameCalls
  <2>2. IsCopy(cache)'
    BY <1>1, <1>2, CacheKept
  <2>3. \A c \in Calls \ {m} : IsCopy(snapshot[c]) => IsCopy(snapshot[c])'
    BY <1>1, SnapshotsKept DEF PageOK
  <2>4. IsCopy(snapshot[m])'
    <3>1. snapshot'[m] = cache
      BY <1>1 DEF PageOK
    <3> QED
      BY <1>1, <1>2, <3>1, SameCalls DEF IsCopy, IsCache, TempsOK
  <2>5. Pending' \subseteq Pending \cup {m}
    BY <1>1, <2>1 DEF Pending, Mine, ServerOK
  <2>6. \A c \in Calls : snapshot'[c] = NoBoard \/ IsCopy(snapshot[c])'
    BY <1>1, <2>3, <2>4 DEF PageOK
  <2>7. \A c \in Pending' : IsCopy(snapshot[c])'
    BY <2>3, <2>4, <2>5, <1>1 DEF PageOK, Pending, Mine
  <2>8. \A c \in Mine : stage'[c] = "idle" => stage[c] = "idle"
    BY <1>1 DEF ServerOK, Mine
  <2> QED
    BY <1>1, <2>1, <2>2, <2>6, <2>7, <2>8 DEF PageOK
<1> QED
  BY <1>3, <1>4, <1>5, <1>6 DEF TInv

\* A call of the page is answered, with a copy for the cache.
LEMMA SettleTInv ==
  ASSUME TInv, NEW m \in Calls, m \in Mine, stage[m] # "idle", NEW outcome \in {"ok", "failed"},
         answer' = [answer EXCEPT ![m] = outcome],
         UNCHANGED <<server, body, snapshot, newest, fetch, inbox, link>>,
         heard' = heard \/ (stage[m] = "committed" /\ heard' = heard \cup {m}),
         IsCopy(cache')
  PROVE  TInv'
<1>1. ServerOK' /\ Committed' = Committed /\ Mine' = Mine
  BY ServerKept, SameCalls DEF TInv, server, Committed
<1>2. FetchOK'
  BY <1>1, FetchKept DEF TInv
<1>3. WireOK'
  BY <1>1 DEF TInv, WireOK, ServerOK, Accepted, server
<1>4. PageOK'
  <2>1. Pending' \subseteq Pending
    BY <1>1 DEF Pending, TInv, PageOK, server, Mine
  <2>2. IsCopy(cache)'
    BY CacheKept
  <2>3. \A c \in Calls : IsCopy(snapshot[c]) => IsCopy(snapshot[c])'
    BY SnapshotsKept
  <2>4. \A c \in Mine : stage'[c] = "idle" => answer'[c] = "none"
    BY DEF TInv, PageOK, server, Mine
  <2>5. answer' \in [Calls -> {"none", "ok", "failed"}]
    BY DEF TInv, PageOK
  <2> QED
    BY <1>1, <2>1, <2>2, <2>3, <2>4, <2>5 DEF TInv, PageOK, Pending, Mine
<1> QED
  BY <1>1, <1>2, <1>3, <1>4 DEF TInv
-----------------------------------------------------------------------------

LEMMA AnswerTInv ==
  ASSUME TInv, NEW m \in Calls, Answer(m)
  PROVE  TInv'
<1>1. /\ m \in Mine /\ stage[m] = "committed"
      /\ answer' = [answer EXCEPT ![m] = "ok"]
      /\ cache' = IF IsCurrent(m) THEN OnSuccess(cache, m) ELSE cache
      /\ heard' = heard \cup {m}
      /\ UNCHANGED <<server, body, snapshot, newest, fetch, inbox, link>>
  BY DEF Answer, wire
<1>2. IsCopy(cache)
  BY <1>1 DEF TInv, PageOK, Loaded
<1>3. IsCopy(OnSuccess(cache, m))
  BY <1>1, <1>2, AnswerCopy DEF TInv, ServerOK
<1> QED
  BY <1>1, <1>2, <1>3, SettleTInv

LEMMA RolledBackCopy ==
  ASSUME TInv, NEW m \in Pending, NEW conflict \in BOOLEAN, conflict => stage[m] = "conflict"
  PROVE  IsCopy(RolledBack(m, conflict))
<1>1. /\ m \in Calls /\ m \in Mine /\ stage[m] # "idle"
      /\ BodyOK /\ PayloadOK
  BY DEF TInv, ServerOK, Pending, Mine
<1>2. IsCopy(cache) /\ IsCopy(snapshot[m])
  BY <1>1 DEF TInv, PageOK, Loaded
<1>3. CASE conflict
  <2>1. Card(m) \in Cards /\ payload[m] \in CardRows
    BY <1>1, <1>3, BodyFacts DEF PayloadOK, CardRow, TaskKinds
  <2>2. IsCopy(UpsertTask(snapshot[m], Card(m), payload[m]))
    BY <1>2, <2>1, UpsertCopy
  <2> QED
    BY <1>2, <1>3, <2>2 DEF RolledBack
<1>4. CASE ~conflict
  BY <1>2, <1>4 DEF RolledBack
<1> QED
  BY <1>3, <1>4

LEMMA FailTInv ==
  ASSUME TInv, NEW m \in Pending, NEW conflict \in BOOLEAN, conflict => stage[m] = "conflict",
         Fail(m, conflict)
  PROVE  TInv'
<1>1. /\ m \in Mine /\ m \in Calls /\ stage[m] # "idle"
      /\ answer' = [answer EXCEPT ![m] = "failed"]
      /\ cache' = RolledBack(m, conflict)
      /\ UNCHANGED <<server, body, snapshot, newest, fetch, inbox, link, heard>>
  BY DEF Fail, wire, Pending, Mine
<1>2. IsCopy(cache')
  BY <1>1, RolledBackCopy
<1> QED
  BY <1>1, <1>2, SettleTInv

LEMMA DeliverTInv ==
  ASSUME TInv, Deliver
  PROVE  TInv'
<1> DEFINE c == Head(inbox)
<1>1. /\ inbox # <<>> /\ inbox' = Tail(inbox)
      /\ cache' = IF cache = NoBoard THEN NoBoard ELSE OnEvent(cache, c)
      /\ heard' = heard \cup {c}
      /\ UNCHANGED <<server, body, snapshot, newest, answer, link, fetch>>
  BY DEF Deliver
<1>2. /\ inbox' \in Seq(Calls) /\ c = inbox[1] /\ Len(inbox) \in Nat /\ Len(inbox) >= 1
      /\ Len(inbox') = Len(inbox) - 1
      /\ \A i \in 1 .. Len(inbox') : inbox'[i] = inbox[i + 1]
  BY <1>1 DEF TInv, WireOK
<1>3. c \in told /\ c \in Calls /\ c \in Committed /\ stage[c] = "committed"
  BY <1>2 DEF TInv, WireOK, ServerOK, Accepted
<1>4. ServerOK' /\ Committed' = Committed
  BY <1>1, ServerKept DEF TInv, server, Committed
<1>5. FetchOK'
  BY <1>1, <1>4, FetchKept DEF TInv
<1>6. WireOK'
  <2>1. \A i \in 1 .. Len(inbox') : inbox'[i] \in told'
    BY <1>1, <1>2 DEF TInv, WireOK, server
  <2> QED
    BY <1>1, <1>2, <1>3, <1>4, <2>1 DEF TInv, WireOK
<1>7. cache' = cache \/ IsCopy(cache')
  BY <1>1, <1>3, EventCopy DEF TInv, ServerOK, PageOK
<1>8. PageOK'
  BY <1>1, <1>7, PageKept DEF TInv, PageOK, server
<1> QED
  BY <1>4, <1>5, <1>6, <1>8 DEF TInv

LEMMA ReadTInv ==
  ASSUME TInv, ReadColumns \/ ReadCards
  PROVE  TInv'
<1>1. UNCHANGED <<server, body, snapshot, newest, answer, link, inbox, heard, cache>>
  BY DEF ReadColumns, ReadCards, wire, page, ghosts
<1>2. ServerOK' /\ Committed' = Committed
  BY <1>1, ServerKept DEF TInv, server, Committed
<1>3. /\ board.cols \in [Columns -> ColumnRows \cup {Gone}]
      /\ \A q \in Cards : board.cards[q] # Gone => CardRow(board.cards[q])
  BY BoardFacts DEF TInv, ServerOK
<1>4. FetchOK'
  <2>1. CASE ReadColumns
    <3>1. fetch.stage = "asked" /\ fetch' = [fetch EXCEPT !.stage = "half", !.cols = board.cols, !.before = Committed]
      BY <2>1 DEF ReadColumns
    <3>2. /\ DOMAIN fetch' = {"stage", "cols", "cards", "before", "read", "missed"}
          /\ fetch'.stage = "half" /\ fetch'.cols = board.cols /\ fetch'.before = Committed
      BY <3>1 DEF TInv, FetchOK
    <3> QED
      BY <1>2, <1>3, <3>2 DEF FetchOK
  <2>2. CASE ReadCards
    <3> DEFINE cards == [k \in Cards |->
                   IF /\ board.cards[k] # Gone
                      /\ fetch.cols[board.cards[k].column] # Gone
                   THEN board.cards[k] ELSE Gone]
    <3>1. fetch.stage = "half" /\ fetch' = [fetch EXCEPT !.stage = "read", !.read = Committed, !.cards = cards]
      BY <2>2 DEF ReadCards
    <3>2. /\ cards = [q \in Cards |-> cards[q]]
          /\ \A k \in Cards : cards[k] # Gone => CardRow(cards[k]) /\ fetch.cols[cards[k].column] # Gone
      BY <1>3
    <3> HIDE DEF cards
    <3>3. /\ DOMAIN fetch' = {"stage", "cols", "cards", "before", "read", "missed"}
          /\ fetch'.stage = "read" /\ fetch'.cols = fetch.cols /\ fetch'.before = fetch.before
          /\ fetch'.read = Committed /\ fetch'.cards = cards
      BY <3>1 DEF TInv, FetchOK
    <3>4. fetch.cols \in [Columns -> ColumnRows \cup {Gone}] /\ fetch.before \subseteq Committed
      BY <3>1 DEF TInv, FetchOK
    <3> QED
      BY <1>2, <3>2, <3>3, <3>4 DEF FetchOK, CardRow
  <2> QED
    BY <2>1, <2>2
<1>5. WireOK'
  BY <1>1, <1>2 DEF TInv, WireOK, server
<1>6. PageOK'
  BY <1>1, PageKept DEF TInv, PageOK, server
<1> QED
  BY <1>2, <1>4, <1>5, <1>6 DEF TInv

LEMMA LandedCopy ==
  ASSUME FetchOK, fetch.stage = "read"
  PROVE  IsCopy(Landed(fetch.cols, fetch.cards))
<1> DEFINE b == Landed(fetch.cols, fetch.cards)
<1>1. /\ DOMAIN b = {"cols", "cards", "temps"}
      /\ b.cols = fetch.cols /\ b.cards = fetch.cards
      /\ b.temps = [c \in Calls |-> Gone]
  BY DEF Landed
<1> HIDE DEF b
<1>2. IsCache(b)
  BY <1>1 DEF FetchOK, IsCache, CardRow
<1>3. TempsOK(b)
  BY <1>1 DEF TempsOK
<1> QED
  BY <1>2, <1>3 DEF IsCopy, b

LEMMA LandTInv ==
  ASSUME TInv, Land
  PROVE  TInv'
<1>1. /\ fetch.stage = "read" /\ cache' = Landed(fetch.cols, fetch.cards)
      /\ heard' = fetch.read /\ fetch' = NoFetch
      /\ UNCHANGED <<server, body, snapshot, newest, answer, link, inbox>>
  BY DEF Land, wire
<1>2. ServerOK' /\ Committed' = Committed
  BY <1>1, ServerKept DEF TInv, server, Committed
<1>3. FetchOK'
  BY <1>1 DEF FetchOK, NoFetch
<1>4. WireOK'
  BY <1>1, <1>2 DEF TInv, WireOK, FetchOK, server
<1>5. IsCopy(cache')
  BY <1>1, LandedCopy DEF TInv
<1>6. PageOK'
  BY <1>1, <1>5, PageKept DEF TInv, PageOK, server
<1> QED
  BY <1>2, <1>3, <1>4, <1>6 DEF TInv

LEMMA LinkTInv ==
  ASSUME TInv, Connect \/ Join \/ Disconnect \/ FetchFails \/ Idle \/ UNCHANGED vars
  PROVE  TInv'
<1>1. UNCHANGED <<server, body, snapshot, newest, answer, cache, heard>>
  BY DEF Connect, Join, Disconnect, FetchFails, Idle, vars, server, page, ghosts
<1>2. ServerOK' /\ Committed' = Committed
  BY <1>1, ServerKept DEF TInv, server, Committed
<1>3. fetch' = fetch \/ fetch' = NoFetch \/ fetch' = Asked \/ \E x : fetch' = [fetch EXCEPT !.missed = x]
  <2>1. CASE Connect
    BY <2>1 DEF Connect
  <2>2. CASE Disconnect
    BY <2>2 DEF Disconnect
  <2>3. CASE Join \/ FetchFails \/ Idle \/ UNCHANGED vars
    BY <2>3 DEF Join, FetchFails, Idle, vars
  <2> QED
    BY <2>1, <2>2, <2>3
<1>4. FetchOK'
  <2>1. CASE fetch' = NoFetch
    BY <2>1 DEF FetchOK, NoFetch
  <2>2. CASE fetch' = Asked
    BY <2>2 DEF FetchOK, Asked, NoFetch
  <2> QED
    BY <1>2, <1>3, <2>1, <2>2, FetchKept DEF TInv
<1>5. link' \in {"down", "up", "joined"} /\ (inbox' = inbox \/ inbox' = <<>>)
  <2>1. link \in {"down", "up", "joined"}
    BY DEF TInv, WireOK
  <2>2. CASE Disconnect
    BY <2>2 DEF Disconnect
  <2>3. CASE Connect \/ Join \/ FetchFails \/ Idle \/ UNCHANGED vars
    BY <2>1, <2>3 DEF Connect, Join, FetchFails, Idle, vars, wire
  <2> QED
    BY <2>2, <2>3
<1>6. WireOK'
  <2>1. CASE inbox' = <<>>
    BY <1>1, <1>2, <1>5, <2>1 DEF TInv, WireOK
  <2>2. CASE inbox' = inbox
    BY <1>1, <1>2, <1>5, <2>2 DEF TInv, WireOK, server
  <2> QED
    BY <1>5, <2>1, <2>2
<1>7. PageOK'
  BY <1>1, PageKept DEF TInv, PageOK, server
<1> QED
  BY <1>2, <1>4, <1>6, <1>7 DEF TInv

LEMMA NextTInv == TInv /\ [Next]_vars => TInv'
<1> SUFFICES ASSUME TInv, [Next]_vars PROVE TInv'
  OBVIOUS
<1>1. ASSUME NEW c \in Calls, Commit(c) \/ Refuse(c) \/ Announce(c) PROVE TInv'
  BY <1>1, CommitTInv, RefuseTInv, AnnounceTInv
<1>2. ASSUME NEW m \in Calls, Mutate(m) \/ Answer(m) PROVE TInv'
  BY <1>2, MutateTInv, AnswerTInv
<1>3. ASSUME NEW m \in Calls, Refused(m) PROVE TInv'
  <2>1. m \in Pending
    BY <1>3 DEF Refused, Pending
  <2>2. Fail(m, stage[m] = "conflict")
    BY <1>3 DEF Refused
  <2>3. (stage[m] = "conflict") \in BOOLEAN
    OBVIOUS
  <2> QED
    BY <2>1, <2>2, <2>3, FailTInv
<1>4. ASSUME NEW m \in Calls, Lose(m) PROVE TInv'
  BY <1>4, FailTInv DEF Lose
<1>5. CASE Deliver
  BY <1>5, DeliverTInv
<1>6. CASE ReadColumns \/ ReadCards \/ Land
  BY <1>6, ReadTInv, LandTInv
<1>7. CASE Connect \/ Join \/ Disconnect \/ FetchFails \/ Idle \/ UNCHANGED vars
  BY <1>7, LinkTInv
<1> QED
  BY <1>1, <1>2, <1>3, <1>4, <1>5, <1>6, <1>7 DEF Next

\* The board, every cache, snapshot and fetched board are well formed, whatever meets
\* what: a card is in a column that is there, events wait in the order they were emitted,
\* and the page has taken in only what has been committed.
THEOREM TypeCorrect == Spec => []TypeOK
<1>1. Init => TInv
  BY InitTInv
<1>2. TInv /\ [Next]_vars => TInv'
  BY NextTInv
<1>3. TInv => TypeOK
  BY TInvImpliesTypeOK
<1> QED
  BY <1>1, <1>2, <1>3, PTL DEF Spec
-----------------------------------------------------------------------------

OnCard(A, kinds, k) == \E d \in A : Kind(d) \in kinds /\ Card(d) = k
OnColumn(A, kinds, x) == \E d \in A : Kind(d) \in kinds /\ Target(d) = x
Born(k) == InitialBoard.cards[k] # Gone \/ OnCard(Committed, {"createTask"}, k)
BornColumn(x) == InitialBoard.cols[x] # Gone \/ OnColumn(Committed, {"createColumn"}, x)
NoLess(v, k) == InitialBoard.cards[k] # Gone => v >= InitialBoard.cards[k].version

OnceEach == \A i, j \in 1 .. Len(order) : order[i] = order[j] => i = j

CardPayload(c) ==
  LET k == Card(c)
      p == payload[c]
      t == board.cards[k]
  IN  /\ Kind(c) # "editTask" => p.column = Target(c)
      /\ BornColumn(p.column)
      /\ NoLess(p.version, k)
      /\ \A d \in Calls : Later(d, c) /\ Card(d) = k =>
           /\ Kind(d) = "moveTask" => payload[d].version > p.version
           /\ Kind(d) = "editTask" => payload[d].version >= p.version
           /\ Kind(d) # "createTask"
      /\ t # Gone =>
           /\ p.version <= t.version
           /\ p.version = t.version =>
                /\ p.column = t.column
                /\ p.rank = t.rank \/ \E d \in Calls : Later(d, c) /\ Reranks(c, d)
           /\ Kind(c) # "moveTask" =>
                p.text = t.text \/ \E d \in Calls : Later(d, c) /\ Kind(d) = "editTask" /\ Card(d) = k
      /\ t = Gone =>
           \/ \E d \in Calls : Later(d, c) /\ Kind(d) \in {"deleteTask", "moveTask"} /\ Card(d) = k
           \/ board.cols[p.column] = Gone

ColumnPayload(c) ==
  LET x == Target(c)
      p == payload[c]
      t == board.cols[x]
  IN  /\ t # Gone =>
           /\ \/ p.title = t.title
              \/ \E d \in Calls : Later(d, c) /\ Kind(d) = "renameColumn" /\ Target(d) = x
           /\ \/ p.rank = t.rank
              \/ \E d \in Calls : Later(d, c) /\ Kind(d) = "moveColumn" /\ Target(d) = x
              \/ \E d \in Calls : Later(d, c) /\ Reranks(c, d)
      /\ t = Gone => \E d \in Calls : Later(d, c) /\ Kind(d) = "deleteColumn" /\ Target(d) = x

PayloadInv(c) ==
  /\ Kind(c) \in {"createTask", "editTask", "moveTask"} => CardPayload(c)
  /\ Kind(c) \in {"createColumn", "renameColumn", "moveColumn"} => ColumnPayload(c)
  /\ Kind(c) \in TaskKinds =>
       /\ Born(Card(c))
       /\ \A d \in Committed : Kind(d) = "deleteTask" /\ Card(d) = Card(c) /\ d # c => Later(d, c)
  /\ Kind(c) \notin {"editTask", "deleteTask"} => BornColumn(Target(c))

CardInv(k) ==
  LET t == board.cards[k] IN
  t # Gone =>
    /\ Born(k) /\ NoLess(t.version, k)
    /\ \/ InitialBoard.cards[k] # Gone /\ t.version = InitialBoard.cards[k].version
       \/ \E d \in Committed : /\ Kind(d) \in {"createTask", "moveTask"} /\ Card(d) = k
                               /\ payload[d].version = t.version
                               /\ Kind(d) = "createTask" => t.version = 0
    /\ \A e \in Committed : Kind(e) = "createColumn" /\ Target(e) = t.column =>
         \E d \in Committed : /\ Kind(d) \in {"createTask", "moveTask"} /\ Card(d) = k
                              /\ Later(d, e) /\ Target(d) = t.column
    /\ ~OnCard(Committed, {"deleteTask"}, k)

ColumnInv(x) ==
  board.cols[x] # Gone => BornColumn(x) /\ ~OnColumn(Committed, {"deleteColumn"}, x)

HistoryInv ==
  /\ OnceEach
  /\ \A c \in Committed : PayloadInv(c)
  /\ \A k \in Cards : CardInv(k)
  /\ \A x \in Columns : ColumnInv(x)

-----------------------------------------------------------------------------
LEMMA LaterFacts ==
  ASSUME order \in Seq(Calls)
  PROVE  /\ \A d, c : Later(d, c) => d \in Committed /\ c \in Committed
         /\ Committed \subseteq Calls
         /\ \A d, c \in Committed : d = c \/ Later(d, c) \/ Later(c, d)
<1>1. Len(order) \in Nat /\ \A i \in 1 .. Len(order) : order[i] \in Calls
  OBVIOUS
<1>2. \A d, c : Later(d, c) => d \in Committed /\ c \in Committed
  BY DEF Later, Committed
<1>3. ASSUME NEW d \in Committed, NEW c \in Committed, d # c PROVE Later(d, c) \/ Later(c, d)
  <2>1. PICK i \in 1 .. Len(order) : order[i] = d
    BY DEF Committed
  <2>2. PICK j \in 1 .. Len(order) : order[j] = c
    BY DEF Committed
  <2>3. i < j \/ j < i
    BY <1>1, <1>3, <2>1, <2>2
  <2> QED
    BY <2>1, <2>2, <2>3 DEF Later
<1> QED
  BY <1>1, <1>2, <1>3 DEF Committed

\* The call that commits is the latest.
LEMMA LaterAppended ==
  ASSUME order \in Seq(Calls), OnceEach, NEW c \in Calls, c \notin Committed, order' = Append(order, c)
  PROVE  /\ OnceEach'
         /\ Committed' = Committed \cup {c}
         /\ \A d, e : Later(d, e)' <=> Later(d, e) \/ (d = c /\ e \in Committed)
<1>1. /\ Len(order') = Len(order) + 1 /\ Len(order) \in Nat
      /\ \A i \in 1 .. Len(order) : order'[i] = order[i]
      /\ order'[Len(order) + 1] = c
  OBVIOUS
<1>2. \A i \in 1 .. Len(order) : order[i] # c
  BY DEF Committed
<1>3. OnceEach'
  <2> SUFFICES ASSUME NEW i \in 1 .. Len(order'), NEW j \in 1 .. Len(order'), order'[i] = order'[j]
               PROVE  i = j
    BY DEF OnceEach
  <2>1. CASE i \in 1 .. Len(order) /\ j \in 1 .. Len(order)
    BY <1>1, <2>1 DEF OnceEach
  <2>2. CASE i = Len(order) + 1 \/ j = Len(order) + 1
    BY <1>1, <1>2, <2>2
  <2> QED
    BY <1>1, <2>1, <2>2
<1>4. Committed' = Committed \cup {c}
  BY <1>1 DEF Committed
<1>5. ASSUME NEW d, NEW e PROVE Later(d, e)' <=> Later(d, e) \/ (d = c /\ e \in Committed)
  <2>1. ASSUME Later(d, e)' PROVE Later(d, e) \/ (d = c /\ e \in Committed)
    <3>1. PICK i, j \in 1 .. Len(order') : order'[i] = e /\ order'[j] = d /\ i < j
      BY <2>1 DEF Later
    <3>2. i \in 1 .. Len(order)
      BY <1>1, <3>1
    <3>3. CASE j \in 1 .. Len(order)
      BY <1>1, <3>1, <3>2, <3>3 DEF Later
    <3>4. CASE j = Len(order) + 1
      BY <1>1, <3>1, <3>2, <3>4 DEF Committed
    <3> QED
      BY <1>1, <3>1, <3>3, <3>4
  <2>2. ASSUME Later(d, e) PROVE Later(d, e)'
    <3>1. PICK i, j \in 1 .. Len(order) : order[i] = e /\ order[j] = d /\ i < j
      BY <2>2 DEF Later
    <3>2. i \in 1 .. Len(order') /\ j \in 1 .. Len(order')
      BY <1>1
    <3> QED
      BY <1>1, <3>1, <3>2 DEF Later
  <2>3. ASSUME d = c, e \in Committed PROVE Later(d, e)'
    <3>1. PICK i \in 1 .. Len(order) : order[i] = e
      BY <2>3 DEF Committed
    <3>2. i \in 1 .. Len(order') /\ Len(order) + 1 \in 1 .. Len(order') /\ i < Len(order) + 1
      BY <1>1
    <3> QED
      BY <1>1, <2>3, <3>1, <3>2 DEF Later
  <2> QED
    BY <2>1, <2>2, <2>3
<1> QED
  BY <1>3, <1>4, <1>5
-----------------------------------------------------------------------------

\* What the commit of c does to card q: t before, u after.
CardEffect(c, q, t, u) ==
  /\ Kind(c) = "createTask" /\ Card(c) = q =>
       /\ t = Gone /\ CardRow(u) /\ u.column = Target(c) /\ u.version = 0
       /\ u.text = c /\ u.rank = c
  /\ Kind(c) = "editTask" /\ Card(c) = q =>
       /\ CardRow(t) /\ CardRow(u) /\ u.column = t.column /\ u.version = t.version
       /\ u.text = c /\ u.rank = t.rank
  /\ Kind(c) = "moveTask" /\ Card(c) = q =>
       /\ CardRow(t) /\ CardRow(u) /\ u.column = Target(c) /\ u.version = t.version + 1
       /\ u.text = t.text /\ u.rank = c
  /\ Kind(c) = "deleteTask" /\ Card(c) = q => t # Gone /\ u = Gone
  /\ Kind(c) = "deleteColumn" /\ t # Gone /\ t.column = Target(c) => u = Gone
  /\ \/ Kind(c) \in TaskKinds /\ Card(c) = q
     \/ Kind(c) = "deleteColumn" /\ t # Gone /\ t.column = Target(c)
     \/ /\ u = Gone <=> t = Gone
        /\ t # Gone =>
             /\ CardRow(t) /\ CardRow(u)
             /\ u.column = t.column /\ u.version = t.version /\ u.text = t.text
             /\ u.rank = t.rank \/ (body[c].respaces /\ Kind(c) \in TaskKinds)

\* What it does to column x.
ColumnEffect(c, x, t, u) ==
  /\ Kind(c) = "createColumn" /\ Target(c) = x => t = Gone /\ u # Gone /\ u.title = c /\ u.rank = c
  /\ Kind(c) = "renameColumn" /\ Target(c) = x => t # Gone /\ u # Gone /\ u.title = c /\ u.rank = t.rank
  /\ Kind(c) = "moveColumn" /\ Target(c) = x => t # Gone /\ u # Gone /\ u.title = t.title /\ u.rank = c
  /\ Kind(c) = "deleteColumn" /\ Target(c) = x => t # Gone /\ u = Gone
  /\ \/ Kind(c) \in ColumnKinds /\ Target(c) = x
     \/ /\ u = Gone <=> t = Gone
        /\ t # Gone =>
             /\ u.title = t.title
             /\ u.rank = t.rank \/ (body[c].respaces /\ Kind(c) \in ColumnKinds)

LEMMA RowFields ==
  ASSUME NEW p, CardRow(p)
  PROVE  p.column \in Columns /\ p.version \in Nat /\ p # Gone /\ p.rank # Guess /\ p \in CardRows
<1>1. p \in CardRows /\ p.rank # Guess
  BY DEF CardRow
<1>2. p # Gone
  BY <1>1, IdAssumption
<1>3. p.column \in Columns /\ p.version \in Nat
  BY <1>1 DEF CardRows
<1> QED
  BY <1>1, <1>2, <1>3

\* What is there has been made, and made once.
LEMMA NewIsUnborn ==
  ASSUME BodyOK, HistoryInv, Committed \subseteq Calls, NEW c \in Calls, c \notin Committed
  PROVE  /\ Kind(c) = "createTask" => ~Born(Card(c)) /\ (Card(c) \in Cards => board.cards[Card(c)] = Gone)
         /\ Kind(c) = "createColumn" =>
              ~BornColumn(Target(c)) /\ (Target(c) \in Columns => board.cols[Target(c)] = Gone)
<1>1. ASSUME Kind(c) = "createTask" PROVE ~Born(Card(c))
  <2>1. \A d \in Committed : Kind(d) = "createTask" => Card(d) # Card(c)
    BY <1>1 DEF BodyOK
  <2> QED
    BY <1>1, <2>1 DEF Born, OnCard, BodyOK
<1>2. ASSUME Kind(c) = "createColumn" PROVE ~BornColumn(Target(c))
  <2>1. \A d \in Committed : Kind(d) = "createColumn" => Target(d) # Target(c)
    BY <1>2 DEF BodyOK
  <2> QED
    BY <1>2, <2>1 DEF BornColumn, OnColumn, BodyOK
<1> QED
  BY <1>1, <1>2 DEF HistoryInv, CardInv, ColumnInv

LEMMA CommitCards ==
  ASSUME TInv, HistoryInv, NEW c \in Calls, Commit(c), NEW q \in Cards
  PROVE  CardEffect(c, q, board.cards[q], board'.cards[q])
<1>1. /\ BodyOK /\ IsBoard(board) /\ Exists(c)
      /\ board' = After(board, c) /\ stage[c] # "committed" /\ Committed = Accepted
      /\ Committed \subseteq Calls
  BY DEF TInv, ServerOK, Commit, Arrived, Accepted
<1>2. /\ Kind(c) \in TaskKinds \cup ColumnKinds /\ c \notin Committed
      /\ board.cards[q] # Gone => CardRow(board.cards[q])
  BY <1>1, BodyFacts, BoardFacts DEF Accepted
<1>3. CASE Kind(c) \in {"createTask", "editTask", "moveTask"}
  <2>1. /\ DOMAIN board' = {"cols", "cards"} /\ board'.cols = board.cols
        /\ board'.cards = [r \in Cards |-> board'.cards[r]]
        /\ \A r \in Cards \ {Card(c)} : Reranked(board'.cards[r], board.cards[r], c)
        /\ CardRow(board'.cards[Card(c)])
        /\ Kind(c) = "createTask" =>
             /\ board'.cards[Card(c)].column = Target(c) /\ board'.cards[Card(c)].version = 0
             /\ board'.cards[Card(c)].text = c /\ board'.cards[Card(c)].rank = c
        /\ Kind(c) # "createTask" => CardRow(board.cards[Card(c)])
        /\ Kind(c) = "editTask" =>
             /\ board'.cards[Card(c)].column = board.cards[Card(c)].column
             /\ board'.cards[Card(c)].version = board.cards[Card(c)].version
             /\ board'.cards[Card(c)].text = c /\ board'.cards[Card(c)].rank = board.cards[Card(c)].rank
        /\ Kind(c) = "moveTask" =>
             /\ board'.cards[Card(c)].column = Target(c)
             /\ board'.cards[Card(c)].version = board.cards[Card(c)].version + 1
             /\ board'.cards[Card(c)].text = board.cards[Card(c)].text /\ board'.cards[Card(c)].rank = c
    BY <1>1, <1>3, AfterCard
  <2>2. CASE q = Card(c)
    BY <1>1, <1>2, <1>3, <2>1, <2>2, NewIsUnborn DEF CardEffect, TaskKinds
  <2>3. CASE q # Card(c)
    <3>1. Reranked(board'.cards[q], board.cards[q], c)
      BY <2>1, <2>3
    <3>2. /\ board'.cards[q] = Gone <=> board.cards[q] = Gone
          /\ CardRow(board.cards[q]) =>
               /\ CardRow(board'.cards[q]) /\ board'.cards[q].column = board.cards[q].column
               /\ board'.cards[q].version = board.cards[q].version /\ board'.cards[q].text = board.cards[q].text
          /\ ~body[c].respaces => board'.cards[q] = board.cards[q]
      BY <1>2, <3>1, RerankedRows
    <3>3. body[c].respaces \/ board'.cards[q].rank = board.cards[q].rank
      BY <3>2, Zenon
    <3> QED
      BY <1>2, <1>3, <2>3, <3>2, <3>3 DEF CardEffect, TaskKinds
  <2> QED
    BY <2>2, <2>3
<1>4. CASE Kind(c) \in {"createColumn", "renameColumn", "moveColumn"}
  <2>1. board'.cards = board.cards
    BY <1>1, <1>4, AfterColumn
  <2> QED
    BY <1>2, <1>4, <2>1 DEF CardEffect, TaskKinds
<1>5. CASE Kind(c) = "deleteTask"
  <2>1. /\ DOMAIN board' = {"cols", "cards"} /\ board'.cols = board.cols
        /\ board'.cards = [r \in Cards |-> board'.cards[r]]
        /\ \A r \in Cards : board'.cards[r] = IF r = Card(c) THEN Gone ELSE board.cards[r]
    BY <1>1, <1>5, AfterRemoval
  <2> QED
    BY <1>1, <1>2, <1>5, <2>1 DEF CardEffect, TaskKinds, Exists
<1>6. CASE Kind(c) = "deleteColumn"
  <2>1. /\ DOMAIN board' = {"cols", "cards"} /\ board'.cards = [r \in Cards |-> board'.cards[r]]
        /\ board'.cols \in [Columns -> ColumnRows \cup {Gone}]
        /\ \A y \in Columns : board'.cols[y] = IF y = Target(c) THEN Gone ELSE board.cols[y]
        /\ \A r \in Cards : board'.cards[r] = IF board.cards[r] # Gone /\ board.cards[r].column = Target(c)
                                               THEN Gone ELSE board.cards[r]
    BY <1>1, <1>6, AfterRemoval
  <2> QED
    BY <1>2, <1>6, <2>1 DEF CardEffect, TaskKinds
<1> QED
  BY <1>2, <1>3, <1>4, <1>5, <1>6 DEF TaskKinds, ColumnKinds

LEMMA CommitColumns ==
  ASSUME TInv, HistoryInv, NEW c \in Calls, Commit(c), NEW x \in Columns
  PROVE  ColumnEffect(c, x, board.cols[x], board'.cols[x])
<1>1. /\ BodyOK /\ IsBoard(board) /\ Exists(c)
      /\ board' = After(board, c) /\ stage[c] # "committed" /\ Committed = Accepted
      /\ Committed \subseteq Calls
  BY DEF TInv, ServerOK, Commit, Arrived, Accepted
<1>2. /\ Kind(c) \in TaskKinds \cup ColumnKinds /\ c \notin Committed
      /\ board.cols[x] # Gone => board.cols[x] \in ColumnRows
  BY <1>1, BodyFacts, BoardFacts DEF Accepted
<1>3. CASE Kind(c) \in {"createColumn", "renameColumn", "moveColumn"}
  <2>1. /\ \A r \in Columns \ {Target(c)} : Reranked(board'.cols[r], board.cols[r], c)
        /\ board'.cols[Target(c)] \in ColumnRows
        /\ Kind(c) = "createColumn" => board'.cols[Target(c)].title = c /\ board'.cols[Target(c)].rank = c
        /\ Kind(c) # "createColumn" => board.cols[Target(c)] \in ColumnRows
        /\ Kind(c) = "renameColumn" => board'.cols[Target(c)].title = c /\ board'.cols[Target(c)].rank = board.cols[Target(c)].rank
        /\ Kind(c) = "moveColumn" => board'.cols[Target(c)].title = board.cols[Target(c)].title /\ board'.cols[Target(c)].rank = c
    BY <1>1, <1>3, AfterColumn
  <2>2. CASE x = Target(c)
    <3>1. board'.cols[x] # Gone /\ (Kind(c) # "createColumn" => board.cols[x] # Gone)
      BY <2>1, <2>2, IdAssumption
    <3>2. Kind(c) = "createColumn" => board.cols[x] = Gone
      BY <1>1, <1>2, <2>2, NewIsUnborn
    <3> QED
      BY <1>3, <2>1, <2>2, <3>1, <3>2 DEF ColumnEffect, ColumnKinds
  <2>3. CASE x # Target(c)
    <3>1. Reranked(board'.cols[x], board.cols[x], c)
      BY <2>1, <2>3
    <3>2. /\ board'.cols[x] = Gone <=> board.cols[x] = Gone
          /\ board.cols[x] \in ColumnRows => board'.cols[x].title = board.cols[x].title
          /\ ~body[c].respaces => board'.cols[x] = board.cols[x]
      BY <1>2, <3>1, RerankedRows
    <3>3. body[c].respaces \/ board'.cols[x].rank = board.cols[x].rank
      BY <3>2, Zenon
    <3> QED
      BY <1>2, <1>3, <2>3, <3>2, <3>3 DEF ColumnEffect, ColumnKinds
  <2> QED
    BY <2>2, <2>3
<1>4. CASE Kind(c) \in TaskKinds
  <2>1. board'.cols = board.cols
    <3>1. CASE Kind(c) = "deleteTask"
      <4>1. /\ DOMAIN board' = {"cols", "cards"} /\ board'.cols = board.cols
            /\ board'.cards = [r \in Cards |-> board'.cards[r]]
            /\ \A r \in Cards : board'.cards[r] = IF r = Card(c) THEN Gone ELSE board.cards[r]
        BY <1>1, <3>1, AfterRemoval
      <4> QED
        BY <4>1
    <3>2. CASE Kind(c) # "deleteTask"
      BY <1>1, <1>4, <3>2, AfterCard DEF TaskKinds
    <3> QED
      BY <3>1, <3>2
  <2> QED
    BY <1>2, <1>4, <2>1 DEF ColumnEffect, TaskKinds, ColumnKinds
<1>5. CASE Kind(c) = "deleteColumn"
  <2>1. /\ DOMAIN board' = {"cols", "cards"} /\ board'.cards = [r \in Cards |-> board'.cards[r]]
        /\ board'.cols \in [Columns -> ColumnRows \cup {Gone}]
        /\ \A y \in Columns : board'.cols[y] = IF y = Target(c) THEN Gone ELSE board.cols[y]
        /\ \A r \in Cards : board'.cards[r] = IF board.cards[r] # Gone /\ board.cards[r].column = Target(c)
                                               THEN Gone ELSE board.cards[r]
    BY <1>1, <1>5, AfterRemoval
  <2> QED
    BY <1>1, <1>2, <1>5, <2>1 DEF ColumnEffect, TaskKinds, ColumnKinds, Exists
<1> QED
  BY <1>2, <1>3, <1>4, <1>5 DEF TaskKinds, ColumnKinds
-----------------------------------------------------------------------------

LEMMA SameReranks ==
  ASSUME body' = body
  PROVE  \A c, d \in Calls : Reranks(c, d)' <=> Reranks(c, d)
BY SameCalls DEF Reranks

LEMMA CommitFacts ==
  ASSUME TInv, HistoryInv, NEW c \in Calls, Commit(c)
  PROVE  /\ BodyOK /\ body' = body /\ Exists(c)
         /\ c \notin Committed /\ Committed \subseteq Calls
         /\ Committed' = Committed \cup {c} /\ OnceEach'
         /\ \A d, e : Later(d, e)' <=> Later(d, e) \/ (d = c /\ e \in Committed)
         /\ \A d, e : Later(d, e) => d \in Committed /\ e \in Committed
         /\ \A d, e \in Committed : d = e \/ Later(d, e) \/ Later(e, d)
         /\ \A d \in Committed : payload'[d] = payload[d]
         /\ payload'[c] = Row(board', c)
<1>1. /\ BodyOK /\ body' = body /\ Exists(c) /\ OnceEach /\ order \in Seq(Calls)
      /\ DOMAIN payload = Calls
      /\ payload' = [payload EXCEPT ![c] = Row(board', c)] /\ order' = Append(order, c)
      /\ stage[c] # "committed" /\ Committed = Accepted
  BY DEF TInv, ServerOK, Commit, Arrived, HistoryInv
<1>2. c \notin Committed
  BY <1>1 DEF Accepted
<1>3. /\ \A d, e : Later(d, e) => d \in Committed /\ e \in Committed
      /\ Committed \subseteq Calls
      /\ \A d, e \in Committed : d = e \/ Later(d, e) \/ Later(e, d)
  BY <1>1, LaterFacts
<1>4. /\ OnceEach' /\ Committed' = Committed \cup {c}
      /\ \A d, e : Later(d, e)' <=> Later(d, e) \/ (d = c /\ e \in Committed)
  BY <1>1, <1>2, LaterAppended
<1>5. payload'[c] = Row(board', c) /\ \A d \in Committed : payload'[d] = payload[d]
  BY <1>1, <1>2, <1>3
<1> QED
  BY <1>1, <1>2, <1>3, <1>4, <1>5

\* What has been made stays made.
LEMMA BornKept ==
  ASSUME body' = body, Committed \subseteq Calls, Committed' \subseteq Calls, Committed \subseteq Committed'
  PROVE  /\ \A k : Born(k) => Born(k)'
         /\ \A x : BornColumn(x) => BornColumn(x)'
BY SameCalls DEF Born, BornColumn, OnCard, OnColumn

\* A row of an earlier call that is behind the card's version is behind a move.
LEMMA BehindAMove ==
  ASSUME TInv, HistoryInv, NEW k \in Cards, board.cards[k] # Gone,
         NEW e \in Committed, Card(e) = k, Kind(e) \in {"createTask", "editTask", "moveTask"},
         payload[e].version < board.cards[k].version
  PROVE  \E d \in Calls : Later(d, e) /\ Kind(d) = "moveTask" /\ Card(d) = k
<1>1. /\ CardPayload(e) /\ CardInv(k)
      /\ \A d \in Committed : Kind(d) \in {"createTask", "moveTask"} => CardPayload(d)
  BY DEF HistoryInv, PayloadInv
<1>2. /\ Committed \subseteq Calls
      /\ \A d, f : Later(d, f) => d \in Committed /\ f \in Committed
      /\ \A d, f \in Committed : d = f \/ Later(d, f) \/ Later(f, d)
  BY LaterFacts DEF TInv, ServerOK
<1>3. stage[e] = "committed" /\ CardRow(payload[e]) /\ CardRow(board.cards[k])
  BY <1>2, BoardFacts DEF TInv, ServerOK, Accepted, PayloadOK
<1>4. payload[e].version \in Nat /\ board.cards[k].version \in Nat
  BY <1>3 DEF CardRow, CardRows
<1>5. ~(InitialBoard.cards[k] # Gone /\ board.cards[k].version = InitialBoard.cards[k].version)
  BY <1>1, <1>4 DEF CardPayload, NoLess
<1>6. PICK d \in Committed : /\ Kind(d) \in {"createTask", "moveTask"} /\ Card(d) = k
                             /\ payload[d].version = board.cards[k].version
  BY <1>1, <1>5 DEF CardInv
<1>7. CardPayload(d) /\ d # e
  BY <1>1, <1>4, <1>6
<1>8. ~Later(e, d)
  BY <1>2, <1>4, <1>6, <1>7 DEF CardPayload
<1>9. Later(d, e)
  BY <1>2, <1>6, <1>7, <1>8
<1>10. Kind(d) = "moveTask"
  BY <1>1, <1>2, <1>6, <1>9 DEF CardPayload
<1> QED
  BY <1>2, <1>6, <1>9, <1>10

LEMMA CommitOldCard ==
  ASSUME TInv, HistoryInv, NEW c \in Calls, Commit(c), NEW e \in Committed,
         Kind(e) \in {"createTask", "editTask", "moveTask"}
  PROVE  CardPayload(e)'
<1> DEFINE k == Card(e)
           p == payload[e]
           t == board.cards[k]
           u == board'.cards[k]
<1>1. /\ BodyOK /\ body' = body /\ Exists(c)
      /\ c \notin Committed /\ Committed \subseteq Calls
      /\ Committed' = Committed \cup {c}
      /\ \A d, f : Later(d, f)' <=> Later(d, f) \/ (d = c /\ f \in Committed)
      /\ \A d, f : Later(d, f) => d \in Committed /\ f \in Committed
      /\ payload'[c] = Row(board', c) /\ \A d \in Committed : payload'[d] = payload[d]
  BY CommitFacts
<1>2. CardPayload(e) /\ Born(k) /\ k \in Cards /\ e \in Calls /\ Kind(e) \in TaskKinds
  BY <1>1, BodyFacts DEF HistoryInv, PayloadInv, TaskKinds
<1>3. CardEffect(c, k, t, u) /\ (Kind(c) = "createTask" => Card(c) # k)
  BY <1>1, <1>2, CommitCards, NewIsUnborn
<1>4. /\ \A d \in Calls : Kind(d)' = Kind(d) /\ Card(d)' = Card(d) /\ Target(d)' = Target(d)
      /\ \A d, f \in Calls : Reranks(d, f)' <=> Reranks(d, f)
      /\ \A x : BornColumn(x) => BornColumn(x)'
  BY <1>1, SameCalls, SameReranks, BornKept
<1>5. CardRow(p) /\ p.version \in Nat /\ p.column \in Columns
  BY <1>1, <1>2, RowFields DEF TInv, ServerOK, PayloadOK, Accepted
<1>6. t # Gone => CardRow(t) /\ t.version \in Nat
  BY <1>2, BoardFacts, RowFields DEF TInv, ServerOK
<1>7. Kind(e)' = Kind(e) /\ k' = k /\ Target(e)' = Target(e) /\ p' = p /\ t' = u
  BY <1>1, <1>2, <1>4
<1>8. ASSUME NEW d \in Calls, Later(d, e)', Card(d) = k
      PROVE  /\ Kind(d) = "moveTask" => payload'[d].version > p.version
             /\ Kind(d) = "editTask" => payload'[d].version >= p.version
             /\ Kind(d) # "createTask"
  <2>1. CASE d # c
    BY <1>1, <1>2, <1>8, <2>1 DEF CardPayload
  <2>2. CASE d = c
    <3>1. Kind(c) \in TaskKinds => payload'[c] = u
      BY <1>1, <1>8, <2>2 DEF Row
    <3>2. Kind(c) \in {"editTask", "moveTask"} => t # Gone
      BY <1>1, <1>8, <2>2 DEF Exists, TaskKinds
    <3>3. Kind(c) \in {"editTask", "moveTask"} => p.version <= t.version
      BY <1>2, <3>2 DEF CardPayload
    <3>4. Kind(c) = "moveTask" => payload'[c].version > p.version
      BY <1>3, <1>5, <1>6, <1>8, <2>2, <3>1, <3>2, <3>3 DEF CardEffect, TaskKinds
    <3>5. Kind(c) = "editTask" => payload'[c].version >= p.version
      BY <1>3, <1>5, <1>6, <1>8, <2>2, <3>1, <3>2, <3>3 DEF CardEffect, TaskKinds
    <3> QED
      BY <1>3, <1>8, <2>2, <3>4, <3>5
  <2> QED
    BY <2>1, <2>2
<1>9. ASSUME u # Gone
      PROVE  /\ p.version <= u.version
             /\ p.version = u.version =>
                  /\ p.column = u.column
                  /\ p.rank = u.rank \/ \E d \in Calls : Later(d, e)' /\ Reranks(e, d)
             /\ Kind(e) # "moveTask" =>
                  p.text = u.text \/ \E d \in Calls : Later(d, e)' /\ Kind(d) = "editTask" /\ Card(d) = k
  <2>0. t # Gone
    BY <1>3, <1>9, RowFields DEF CardEffect, TaskKinds
  <2>1. /\ p.version <= t.version
        /\ p.version = t.version =>
             /\ p.column = t.column
             /\ p.rank = t.rank \/ \E d \in Calls : Later(d, e) /\ Reranks(e, d)
        /\ Kind(e) # "moveTask" =>
             p.text = t.text \/ \E d \in Calls : Later(d, e) /\ Kind(d) = "editTask" /\ Card(d) = k
    BY <1>2, <2>0 DEF CardPayload
  <2>2. CASE Kind(c) = "editTask" /\ Card(c) = k
    <3>1. u.column = t.column /\ u.version = t.version /\ u.rank = t.rank
      BY <1>3, <2>2 DEF CardEffect
    <3> QED
      BY <1>1, <2>1, <2>2, <3>1
  <2>3. CASE Kind(c) = "moveTask" /\ Card(c) = k
    <3>1. u.version = t.version + 1 /\ u.text = t.text
      BY <1>3, <2>3 DEF CardEffect
    <3>2. p.version <= u.version /\ p.version # u.version
      BY <1>5, <1>6, <2>0, <2>1, <3>1
    <3> QED
      BY <1>1, <2>1, <3>1, <3>2
  <2>4. CASE ~(Kind(c) \in TaskKinds /\ Card(c) = k)
    <3>1. /\ u.column = t.column /\ u.version = t.version /\ u.text = t.text
          /\ u.rank = t.rank \/ (body[c].respaces /\ Kind(c) \in TaskKinds)
      BY <1>3, <1>9, <2>0, <2>4 DEF CardEffect
    <3>2. body[c].respaces /\ Kind(c) \in TaskKinds => Later(c, e)' /\ Reranks(e, c)
      BY <1>1, <1>2 DEF Reranks
    <3> QED
      BY <1>1, <2>1, <3>1, <3>2
  <2> QED
    BY <1>3, <1>9, <2>2, <2>3, <2>4 DEF CardEffect, TaskKinds
<1>10. ASSUME u = Gone
       PROVE  \/ \E d \in Calls : Later(d, e)' /\ Kind(d) \in {"deleteTask", "moveTask"} /\ Card(d) = k
              \/ board'.cols[p.column] = Gone
  <2>0. ColumnEffect(c, p.column, board.cols[p.column], board'.cols[p.column])
    BY <1>5, CommitColumns
  <2>1. CASE t = Gone
    <3>1. CASE \E d \in Calls : Later(d, e) /\ Kind(d) \in {"deleteTask", "moveTask"} /\ Card(d) = k
      BY <1>1, <3>1
    <3>2. CASE board.cols[p.column] = Gone
      <4>1. Kind(c) = "createColumn" => Target(c) # p.column
        BY <1>1, <1>2, NewIsUnborn DEF CardPayload
      <4> QED
        BY <2>0, <3>2, <4>1 DEF ColumnEffect, ColumnKinds
    <3> QED
      BY <1>2, <2>1, <3>1, <3>2 DEF CardPayload
  <2>2. CASE t # Gone
    <3>1. CASE Kind(c) = "deleteTask" /\ Card(c) = k
      BY <1>1, <3>1
    <3>2. CASE Kind(c) = "deleteColumn" /\ t.column = Target(c)
      <4>1. CASE p.version = t.version
        <5>1. p.column = Target(c)
          BY <1>2, <2>2, <3>2, <4>1 DEF CardPayload
        <5> QED
          BY <2>0, <3>2, <5>1 DEF ColumnEffect
      <4>2. CASE p.version # t.version
        <5>1. p.version < t.version
          BY <1>2, <1>5, <1>6, <2>2, <4>2 DEF CardPayload
        <5>2. \E d \in Calls : Later(d, e) /\ Kind(d) = "moveTask" /\ Card(d) = k
          BY <1>2, <2>2, <5>1, BehindAMove
        <5> QED
          BY <1>1, <5>2
      <4> QED
        BY <4>1, <4>2
    <3> QED
      BY <1>3, <1>6, <1>10, <2>2, <3>1, <3>2, RowFields DEF CardEffect, TaskKinds
  <2> QED
    BY <2>1, <2>2
<1>11. /\ (Kind(e) # "editTask" => p.column = Target(e))
       /\ BornColumn(p.column)' /\ NoLess(p.version, k)
  BY <1>2, <1>4, <1>7 DEF CardPayload
<1>12. NoLess(p.version, k)'
  BY <1>7, <1>11 DEF NoLess
<1>13. \A d \in Calls : Later(d, e)' /\ Card(d)' = k' =>
           /\ Kind(d)' = "moveTask" => payload'[d].version > p'.version
           /\ Kind(d)' = "editTask" => payload'[d].version >= p'.version
           /\ Kind(d)' # "createTask"
  BY <1>4, <1>7, <1>8
<1>14. t' # Gone =>
           /\ p'.version <= t'.version
           /\ p'.version = t'.version =>
                /\ p'.column = t'.column
                /\ p'.rank = t'.rank \/ \E d \in Calls : Later(d, e)' /\ Reranks(e, d)'
           /\ Kind(e)' # "moveTask" =>
                p'.text = t'.text \/ \E d \in Calls : Later(d, e)' /\ Kind(d)' = "editTask" /\ Card(d)' = k'
  BY <1>2, <1>4, <1>7, <1>9
<1>15. t' = Gone =>
           \/ \E d \in Calls : Later(d, e)' /\ Kind(d)' \in {"deleteTask", "moveTask"} /\ Card(d)' = k'
           \/ board'.cols[p'.column] = Gone
  BY <1>4, <1>7, <1>10
<1>16. (Kind(e)' # "editTask" => p'.column = Target(e)') /\ BornColumn(p.column)' /\ NoLess(p.version, k)'
  BY <1>7, <1>11, <1>12
<1> QED
  BY <1>13, <1>14, <1>15, <1>16 DEF CardPayload
-----------------------------------------------------------------------------

LEMMA CommitNewCard ==
  ASSUME TInv, HistoryInv, NEW c \in Calls, Commit(c), Kind(c) \in {"createTask", "editTask", "moveTask"}
  PROVE  CardPayload(c)'
<1> DEFINE k == Card(c)
           t == board.cards[k]
           u == board'.cards[k]
<1>1. /\ BodyOK /\ body' = body /\ Exists(c)
      /\ c \notin Committed /\ Committed \subseteq Calls
      /\ Committed' = Committed \cup {c}
      /\ \A d, f : Later(d, f)' <=> Later(d, f) \/ (d = c /\ f \in Committed)
      /\ \A d, f : Later(d, f) => d \in Committed /\ f \in Committed
      /\ payload'[c] = Row(board', c)
  BY CommitFacts
<1>2. k \in Cards /\ Kind(c) \in TaskKinds /\ payload'[c] = u
  BY <1>1, BodyFacts DEF TaskKinds, Row
<1>3. CardEffect(c, k, t, u)
  BY <1>2, CommitCards
<1>4. /\ Kind(c)' = Kind(c) /\ k' = k /\ Target(c)' = Target(c)
      /\ \A x : BornColumn(x) => BornColumn(x)'
  BY <1>1, SameCalls, BornKept
<1>5. u # Gone /\ board.cols[u.column] # Gone /\ u.column \in Columns
  <2>1. u # Gone /\ u.column \in Columns
    BY <1>3, RowFields DEF CardEffect
  <2>2. board.cols[u.column] # Gone
    <3>1. CASE Kind(c) = "editTask"
      BY <1>2, <1>3, <3>1, BoardFacts, RowFields DEF CardEffect, TInv, ServerOK
    <3>2. CASE Kind(c) # "editTask"
      BY <1>1, <1>3, <3>2 DEF CardEffect, Exists, TaskKinds
    <3> QED
      BY <3>1, <3>2
  <2> QED
    BY <2>1, <2>2
<1>6. BornColumn(u.column)
  BY <1>5 DEF HistoryInv, ColumnInv
<1>7. Kind(c) # "editTask" => u.column = Target(c)
  BY <1>3 DEF CardEffect
<1>8. NoLess(u.version, k)
  <2>1. CASE Kind(c) = "createTask"
    BY <1>1, <2>1 DEF BodyOK, NoLess
  <2>2. CASE Kind(c) # "createTask"
    <3>1. t # Gone /\ t.version \in Nat /\ u.version \in Nat /\ u.version >= t.version
      BY <1>3, <2>2, RowFields DEF CardEffect
    <3>2. InitialBoard.cards[k] # Gone => InitialBoard.cards[k].version \in Nat
      BY <1>2, BoardAssumption, BoardFacts, RowFields
    <3> QED
      BY <1>2, <3>1, <3>2 DEF HistoryInv, CardInv, NoLess
  <2> QED
    BY <2>1, <2>2
<1>9. \A d : ~Later(d, c)'
  BY <1>1
<1>10. NoLess(payload[c].version, k)' /\ BornColumn(payload[c].column)'
  <2>1. NoLess(payload[c].version, k)'
    BY <1>2, <1>4, <1>8 DEF NoLess
  <2>2. BornColumn(payload[c].column)'
    BY <1>2, <1>4, <1>6
  <2> QED
    BY <2>1, <2>2
<1>11. payload'[c] = u /\ board'.cards[k] = u /\ u.version <= u.version
  <2>1. u.version \in Nat
    BY <1>3, RowFields DEF CardEffect
  <2> QED
    BY <1>2, <2>1
<1> QED
  BY <1>4, <1>5, <1>7, <1>9, <1>10, <1>11 DEF CardPayload

LEMMA CommitNewColumn ==
  ASSUME TInv, HistoryInv, NEW c \in Calls, Commit(c), Kind(c) \in {"createColumn", "renameColumn", "moveColumn"}
  PROVE  ColumnPayload(c)'
<1> DEFINE x == Target(c)
           u == board'.cols[x]
<1>1. BodyOK /\ body' = body /\ payload'[c] = Row(board', c)
  BY CommitFacts
<1>2. x \in Columns /\ payload'[c] = u
  BY <1>1, BodyFacts DEF TaskKinds, Row
<1>3. u # Gone
  BY <1>2, CommitColumns DEF ColumnEffect
<1>4. Kind(c)' = Kind(c) /\ x' = x
  BY <1>1, SameCalls
<1> QED
  BY <1>2, <1>3, <1>4 DEF ColumnPayload

LEMMA CommitOldColumn ==
  ASSUME TInv, HistoryInv, NEW c \in Calls, Commit(c), NEW e \in Committed,
         Kind(e) \in {"createColumn", "renameColumn", "moveColumn"}
  PROVE  ColumnPayload(e)'
<1> DEFINE x == Target(e)
           p == payload[e]
           t == board.cols[x]
           u == board'.cols[x]
<1>1. /\ BodyOK /\ body' = body /\ Exists(c)
      /\ c \notin Committed /\ Committed \subseteq Calls
      /\ Committed' = Committed \cup {c}
      /\ \A d, f : Later(d, f)' <=> Later(d, f) \/ (d = c /\ f \in Committed)
      /\ \A d, f : Later(d, f) => d \in Committed /\ f \in Committed
      /\ \A d \in Committed : payload'[d] = payload[d]
  BY CommitFacts
<1>2. ColumnPayload(e) /\ BornColumn(x) /\ x \in Columns /\ e \in Calls /\ Kind(e) \notin TaskKinds
  BY <1>1, BodyFacts DEF HistoryInv, PayloadInv, TaskKinds
<1>3. ColumnEffect(c, x, t, u) /\ (Kind(c) = "createColumn" => Target(c) # x)
  BY <1>1, <1>2, CommitColumns, NewIsUnborn
<1>4. /\ \A d \in Calls : Kind(d)' = Kind(d) /\ Target(d)' = Target(d)
      /\ \A d, f \in Calls : Reranks(d, f)' <=> Reranks(d, f)
  BY <1>1, SameCalls, SameReranks
<1>5. Kind(e)' = Kind(e) /\ x' = x /\ p' = p /\ t' = u
  BY <1>1, <1>2, <1>4
<1>6. Later(c, e)' /\ \A d \in Calls : Later(d, e) => Later(d, e)'
  BY <1>1
<1>7. ASSUME u # Gone
      PROVE  /\ \/ p.title = u.title
                \/ \E d \in Calls : Later(d, e)' /\ Kind(d) = "renameColumn" /\ Target(d) = x
             /\ \/ p.rank = u.rank
                \/ \E d \in Calls : Later(d, e)' /\ Kind(d) = "moveColumn" /\ Target(d) = x
                \/ \E d \in Calls : Later(d, e)' /\ Reranks(e, d)
  <2>0. t # Gone
    BY <1>3, <1>7 DEF ColumnEffect, ColumnKinds
  <2>1. /\ \/ p.title = t.title
           \/ \E d \in Calls : Later(d, e) /\ Kind(d) = "renameColumn" /\ Target(d) = x
        /\ \/ p.rank = t.rank
           \/ \E d \in Calls : Later(d, e) /\ Kind(d) = "moveColumn" /\ Target(d) = x
           \/ \E d \in Calls : Later(d, e) /\ Reranks(e, d)
    BY <1>2, <2>0 DEF ColumnPayload
  <2>2. u.title = t.title \/ (Kind(c) = "renameColumn" /\ Target(c) = x)
    BY <1>3, <1>7, <2>0 DEF ColumnEffect, ColumnKinds
  <2>3. \/ u.rank = t.rank \/ (Kind(c) = "moveColumn" /\ Target(c) = x)
        \/ body[c].respaces /\ Kind(c) \in ColumnKinds
    BY <1>3, <1>7, <2>0 DEF ColumnEffect, ColumnKinds
  <2>4. body[c].respaces /\ Kind(c) \in ColumnKinds => Reranks(e, c)
    BY <1>2 DEF Reranks, TaskKinds, ColumnKinds
  <2> QED
    BY <1>6, <2>1, <2>2, <2>3, <2>4
<1>8. ASSUME u = Gone
      PROVE  \E d \in Calls : Later(d, e)' /\ Kind(d) = "deleteColumn" /\ Target(d) = x
  <2>1. CASE t = Gone
    BY <1>2, <1>6, <2>1 DEF ColumnPayload
  <2>2. CASE t # Gone
    <3>1. Kind(c) = "deleteColumn" /\ Target(c) = x
      BY <1>3, <1>8, <2>2 DEF ColumnEffect, ColumnKinds
    <3> QED
      BY <1>6, <3>1
  <2> QED
    BY <2>1, <2>2
<1>9. t' # Gone =>
           /\ \/ p'.title = t'.title
              \/ \E d \in Calls : Later(d, e)' /\ Kind(d)' = "renameColumn" /\ Target(d)' = x'
           /\ \/ p'.rank = t'.rank
              \/ \E d \in Calls : Later(d, e)' /\ Kind(d)' = "moveColumn" /\ Target(d)' = x'
              \/ \E d \in Calls : Later(d, e)' /\ Reranks(e, d)'
  BY <1>2, <1>4, <1>5, <1>7
<1>10. t' = Gone => \E d \in Calls : Later(d, e)' /\ Kind(d)' = "deleteColumn" /\ Target(d)' = x'
  BY <1>4, <1>5, <1>8
<1> QED
  BY <1>9, <1>10 DEF ColumnPayload

LEMMA CommitPayload ==
  ASSUME TInv, HistoryInv, NEW c \in Calls, Commit(c), NEW e \in Committed'
  PROVE  PayloadInv(e)'
<1>1. /\ BodyOK /\ body' = body /\ Exists(c)
      /\ c \notin Committed /\ Committed \subseteq Calls
      /\ Committed' = Committed \cup {c}
      /\ \A d, f : Later(d, f)' <=> Later(d, f) \/ (d = c /\ f \in Committed)
      /\ \A d, f : Later(d, f) => d \in Committed /\ f \in Committed
  BY CommitFacts
<1>2. /\ \A d \in Calls : Kind(d)' = Kind(d) /\ Card(d)' = Card(d) /\ Target(d)' = Target(d)
      /\ \A k : Born(k) => Born(k)'
      /\ \A x : BornColumn(x) => BornColumn(x)'
      /\ e \in Calls
  BY <1>1, SameCalls, BornKept
<1>3. (Kind(e) \in {"createTask", "editTask", "moveTask"})' => CardPayload(e)'
  BY <1>1, <1>2, CommitNewCard, CommitOldCard
<1>4. (Kind(e) \in {"createColumn", "renameColumn", "moveColumn"})' => ColumnPayload(e)'
  BY <1>1, <1>2, CommitNewColumn, CommitOldColumn
<1>5. ASSUME Kind(e) \in TaskKinds PROVE Born(Card(e))'
  <2>1. CASE e = c
    <3>1. CASE Kind(c) = "createTask"
      <4>1. c \in Committed' /\ Kind(c)' = "createTask" /\ Card(c)' = Card(e)'
        BY <1>1, <1>2, <2>1, <3>1
      <4> QED
        BY <4>1 DEF Born, OnCard
    <3>2. CASE Kind(c) # "createTask"
      <4>1. Card(c) \in Cards /\ board.cards[Card(c)] # Gone
        BY <1>1, <1>5, <2>1, <3>2, BodyFacts DEF Exists
      <4>2. Born(Card(c))
        BY <4>1 DEF HistoryInv, CardInv
      <4> QED
        BY <1>2, <2>1, <4>2
    <3> QED
      BY <3>1, <3>2
  <2>2. CASE e \in Committed
    BY <1>2, <1>5, <2>2 DEF HistoryInv, PayloadInv
  <2> QED
    BY <1>1, <2>1, <2>2
<1>6. ASSUME Kind(e) \in TaskKinds, NEW d \in Committed', Kind(d) = "deleteTask", Card(d) = Card(e), d # e
      PROVE  Later(d, e)'
  <2>1. CASE d = c
    BY <1>1, <1>6, <2>1
  <2>2. CASE d \in Committed /\ e \in Committed
    BY <1>1, <1>2, <1>6, <2>2 DEF HistoryInv, PayloadInv
  <2>3. CASE d \in Committed /\ e = c
    <3>1. Card(c) \in Cards /\ OnCard(Committed, {"deleteTask"}, Card(c)) /\ Born(Card(c))
      BY <1>1, <1>6, <2>3, BodyFacts DEF HistoryInv, PayloadInv, OnCard, TaskKinds
    <3>2. board.cards[Card(c)] = Gone
      BY <3>1 DEF HistoryInv, CardInv
    <3> QED
      BY <1>1, <1>6, <2>3, <3>1, <3>2, NewIsUnborn DEF Exists
  <2> QED
    BY <1>1, <2>1, <2>2, <2>3
<1>7. ASSUME Kind(e) \notin {"editTask", "deleteTask"} PROVE BornColumn(Target(e))'
  <2>1. CASE e = c
    <3>1. CASE Kind(c) = "createColumn"
      <4>1. c \in Committed' /\ Kind(c)' = "createColumn" /\ Target(c)' = Target(e)'
        BY <1>1, <1>2, <2>1, <3>1
      <4> QED
        BY <4>1 DEF BornColumn, OnColumn
    <3>2. CASE Kind(c) # "createColumn"
      <4>1. Target(c) \in Columns /\ board.cols[Target(c)] # Gone
        BY <1>1, <1>7, <2>1, <3>2, BodyFacts DEF Exists
      <4>2. BornColumn(Target(c))
        BY <4>1 DEF HistoryInv, ColumnInv
      <4> QED
        BY <1>2, <2>1, <4>2
    <3> QED
      BY <3>1, <3>2
  <2>2. CASE e \in Committed
    BY <1>2, <1>7, <2>2 DEF HistoryInv, PayloadInv
  <2> QED
    BY <1>1, <2>1, <2>2
<1>8. \A d \in Committed' : d \in Calls
  BY <1>1
<1> QED
  BY <1>2, <1>3, <1>4, <1>5, <1>6, <1>7, <1>8 DEF PayloadInv
-----------------------------------------------------------------------------

LEMMA CommitCardInv ==
  ASSUME TInv, HistoryInv, NEW c \in Calls, Commit(c), NEW k \in Cards
  PROVE  CardInv(k)'
<1> DEFINE t == board.cards[k]
           u == board'.cards[k]
<1> SUFFICES ASSUME u # Gone PROVE CardInv(k)'
  BY DEF CardInv
<1>1. /\ BodyOK /\ body' = body /\ Exists(c)
      /\ c \notin Committed /\ Committed \subseteq Calls
      /\ Committed' = Committed \cup {c}
      /\ \A d, f : Later(d, f)' <=> Later(d, f) \/ (d = c /\ f \in Committed)
      /\ \A d \in Committed : payload'[d] = payload[d]
      /\ payload'[c] = Row(board', c)
  BY CommitFacts
<1>2. /\ \A d \in Calls : Kind(d)' = Kind(d) /\ Card(d)' = Card(d) /\ Target(d)' = Target(d)
      /\ Born(k) => Born(k)'
      /\ \A x : BornColumn(x) => BornColumn(x)'
  BY <1>1, SameCalls, BornKept
<1>3. CardEffect(c, k, t, u) /\ Kind(c) \in TaskKinds \cup ColumnKinds
  BY <1>1, CommitCards, BodyFacts
<1>4. t' = u /\ (Kind(c) \in TaskKinds /\ Card(c) = k => payload'[c] = u)
  BY <1>1 DEF Row
<1>5. t # Gone => /\ CardRow(t) /\ t.version \in Nat
                  /\ board.cols[t.column] # Gone /\ t.column \in Columns
  BY BoardFacts, RowFields DEF TInv, ServerOK
<1>6. t # Gone => /\ Born(k) /\ NoLess(t.version, k) /\ ~OnCard(Committed, {"deleteTask"}, k)
                  /\ \/ InitialBoard.cards[k] # Gone /\ t.version = InitialBoard.cards[k].version
                     \/ \E d \in Committed : /\ Kind(d) \in {"createTask", "moveTask"} /\ Card(d) = k
                                             /\ payload[d].version = t.version
                                             /\ Kind(d) = "createTask" => t.version = 0
                  /\ \A e \in Committed : Kind(e) = "createColumn" /\ Target(e) = t.column =>
                       \E d \in Committed : /\ Kind(d) \in {"createTask", "moveTask"} /\ Card(d) = k
                                            /\ Later(d, e) /\ Target(d) = t.column
  BY DEF HistoryInv, CardInv
<1>7. ~OnCard(Committed, {"deleteTask"}, k)
  <2>1. CASE t # Gone
    BY <1>6, <2>1
  <2>2. CASE t = Gone
    <3>1. Kind(c) = "createTask" /\ Card(c) = k
      BY <1>3, <2>2, RowFields DEF CardEffect, TaskKinds
    <3>2. ~Born(k)
      BY <1>1, <3>1, NewIsUnborn
    <3>3. \A d \in Committed : Kind(d) = "deleteTask" /\ Card(d) = k => Born(k)
      BY DEF HistoryInv, PayloadInv, TaskKinds
    <3> QED
      BY <3>2, <3>3 DEF OnCard
  <2> QED
    BY <2>1, <2>2
<1>8. ~OnCard(Committed, {"deleteTask"}, k)'
  <2>1. ~(Kind(c) = "deleteTask" /\ Card(c) = k)
    BY <1>3 DEF CardEffect
  <2> QED
    BY <1>1, <1>2, <1>7, <2>1 DEF OnCard
<1>9. /\ Born(k)' /\ NoLess(u.version, k)
      /\ \/ InitialBoard.cards[k] # Gone /\ u.version = InitialBoard.cards[k].version
         \/ \E d \in Committed' : /\ Kind(d) \in {"createTask", "moveTask"} /\ Card(d) = k
                                  /\ payload'[d].version = u.version
                                  /\ Kind(d) = "createTask" => u.version = 0
      /\ \A e \in Committed' : Kind(e) = "createColumn" /\ Target(e) = u.column =>
           \E d \in Committed' : /\ Kind(d) \in {"createTask", "moveTask"} /\ Card(d) = k
                                 /\ Later(d, e)' /\ Target(d) = u.column
  <2>1. CASE Kind(c) = "createTask" /\ Card(c) = k
    <3>1. u.column = Target(c) /\ payload'[c] = u /\ u.version = 0
      BY <1>3, <1>4, <2>1 DEF CardEffect, TaskKinds
    <3>2. NoLess(u.version, k)
      BY <1>1, <2>1 DEF BodyOK, NoLess
    <3>3. Born(k)'
      <4>1. c \in Committed' /\ Kind(c)' = "createTask" /\ Card(c)' = k
        BY <1>1, <1>2, <2>1
      <4> QED
        BY <4>1 DEF Born, OnCard
    <3> QED
      BY <1>1, <2>1, <3>1, <3>2, <3>3
  <2>2. CASE Kind(c) = "moveTask" /\ Card(c) = k
    <3>1. u.column = Target(c) /\ payload'[c] = u /\ u.version = t.version + 1 /\ t # Gone
      BY <1>3, <1>4, <2>2, RowFields DEF CardEffect, TaskKinds
    <3>2. InitialBoard.cards[k] # Gone => InitialBoard.cards[k].version \in Nat
      BY BoardAssumption, BoardFacts, RowFields
    <3>3. NoLess(u.version, k)
      BY <1>5, <1>6, <3>1, <3>2 DEF NoLess
    <3> QED
      BY <1>1, <1>2, <1>6, <2>2, <3>1, <3>3
  <2>3. CASE ~(Kind(c) \in {"createTask", "moveTask"} /\ Card(c) = k)
    <3>1. t # Gone /\ u.column = t.column /\ u.version = t.version
      BY <1>3, <2>3, RowFields DEF CardEffect, TaskKinds, ColumnKinds
    <3>2. ~(Kind(c) = "createColumn" /\ Target(c) = u.column)
      <4>1. BornColumn(t.column)
        BY <1>5, <3>1 DEF HistoryInv, ColumnInv
      <4> QED
        BY <1>1, <3>1, <4>1, NewIsUnborn
    <3>3. \A e \in Committed' : Kind(e) = "createColumn" /\ Target(e) = u.column =>
           \E d \in Committed' : /\ Kind(d) \in {"createTask", "moveTask"} /\ Card(d) = k
                                 /\ Later(d, e)' /\ Target(d) = u.column
      BY <1>1, <1>6, <3>1, <3>2
    <3>4. \/ InitialBoard.cards[k] # Gone /\ u.version = InitialBoard.cards[k].version
          \/ \E d \in Committed' : /\ Kind(d) \in {"createTask", "moveTask"} /\ Card(d) = k
                                   /\ payload'[d].version = u.version
                                   /\ Kind(d) = "createTask" => u.version = 0
      BY <1>1, <1>6, <3>1
    <3> QED
      BY <1>2, <1>6, <3>1, <3>3, <3>4
  <2> QED
    BY <2>1, <2>2, <2>3
<1>10. NoLess(board.cards[k].version, k)'
  BY <1>9 DEF NoLess
<1>11. \A e \in Committed' : Kind(e)' = Kind(e) /\ Card(e)' = Card(e) /\ Target(e)' = Target(e)
  BY <1>1, <1>2
<1> QED
  BY <1>8, <1>9, <1>10, <1>11 DEF CardInv

LEMMA CommitColumnInv ==
  ASSUME TInv, HistoryInv, NEW c \in Calls, Commit(c), NEW x \in Columns
  PROVE  ColumnInv(x)'
<1> DEFINE t == board.cols[x]
           u == board'.cols[x]
<1> SUFFICES ASSUME u # Gone PROVE ColumnInv(x)'
  BY DEF ColumnInv
<1>1. /\ BodyOK /\ body' = body
      /\ c \notin Committed /\ Committed \subseteq Calls
      /\ Committed' = Committed \cup {c}
      /\ Kind(c) \in TaskKinds \cup ColumnKinds
  BY CommitFacts, BodyFacts
<1>2. /\ \A d \in Calls : Kind(d)' = Kind(d) /\ Card(d)' = Card(d) /\ Target(d)' = Target(d)
      /\ BornColumn(x) => BornColumn(x)'
  BY <1>1, SameCalls, BornKept
<1>3. ColumnEffect(c, x, t, u)
  BY CommitColumns
<1>4. CASE Kind(c) = "createColumn" /\ Target(c) = x
  <2>1. ~BornColumn(x)
    BY <1>1, <1>4, NewIsUnborn
  <2>2. \A d \in Committed : ~(Kind(d) = "deleteColumn" /\ Target(d) = x)
    BY <2>1 DEF HistoryInv, PayloadInv
  <2>3. BornColumn(x)'
    BY <1>1, <1>2, <1>4 DEF BornColumn, OnColumn
  <2>4. ~OnColumn(Committed, {"deleteColumn"}, x)'
    BY <1>1, <1>2, <1>4, <2>2 DEF OnColumn
  <2> QED
    BY <2>3, <2>4 DEF ColumnInv
<1>5. CASE ~(Kind(c) = "createColumn" /\ Target(c) = x)
  <2>1. t # Gone /\ ~(Kind(c) = "deleteColumn" /\ Target(c) = x)
    BY <1>3, <1>5 DEF ColumnEffect, ColumnKinds
  <2>2. BornColumn(x) /\ ~OnColumn(Committed, {"deleteColumn"}, x)
    BY <2>1 DEF HistoryInv, ColumnInv
  <2>3. ~OnColumn(Committed, {"deleteColumn"}, x)'
    BY <1>1, <1>2, <2>1, <2>2 DEF OnColumn
  <2> QED
    BY <1>2, <2>2, <2>3 DEF ColumnInv
<1> QED
  BY <1>4, <1>5

\* Only a commit changes the history.
LEMMA HistoryKept ==
  ASSUME TInv, HistoryInv, UNCHANGED <<board, order, body>>,
         \A c \in Committed : payload'[c] = payload[c]
  PROVE  HistoryInv'
<1>1. /\ Committed' = Committed /\ Committed \subseteq Calls /\ OnceEach'
      /\ \A d, c : Later(d, c)' <=> Later(d, c)
      /\ \A d, c : Later(d, c) => d \in Committed /\ c \in Committed
  BY LaterFacts DEF TInv, ServerOK, HistoryInv, Committed, Later, OnceEach
<1>2. /\ \A d \in Calls : Kind(d)' = Kind(d) /\ Card(d)' = Card(d) /\ Target(d)' = Target(d)
      /\ \A d, f \in Calls : Reranks(d, f)' <=> Reranks(d, f)
  BY SameCalls, SameReranks
<1>3. \A v, k : NoLess(v, k)' <=> NoLess(v, k)
  BY DEF NoLess
<1>4. (\A k : Born(k)' <=> Born(k)) /\ (\A x : BornColumn(x)' <=> BornColumn(x))
  BY <1>1, <1>2 DEF Born, BornColumn, OnCard, OnColumn
<1>5. ASSUME NEW k \in Cards PROVE CardInv(k)'
  <2>1. CardInv(k)
    BY DEF HistoryInv
  <2>2. OnCard(Committed, {"deleteTask"}, k)' <=> OnCard(Committed, {"deleteTask"}, k)
    BY <1>1, <1>2 DEF OnCard
  <2>3. NoLess(board.cards[k].version, k)' <=> NoLess(board.cards[k].version, k)
    BY DEF NoLess
  <2> QED
    BY <1>1, <1>2, <1>4, <2>1, <2>2, <2>3 DEF CardInv
<1>6. ASSUME NEW x \in Columns PROVE ColumnInv(x)'
  <2>1. OnColumn(Committed, {"deleteColumn"}, x)' <=> OnColumn(Committed, {"deleteColumn"}, x)
    BY <1>1, <1>2 DEF OnColumn
  <2> QED
    BY <1>4, <2>1 DEF HistoryInv, ColumnInv
<1>7. ASSUME NEW c \in Committed, CardPayload(c) PROVE CardPayload(c)'
  <2>1. payload'[c] = payload[c] /\ c \in Calls /\ \A d \in Committed : payload'[d] = payload[d]
    BY <1>1
  <2>2. NoLess(payload[c].version, Card(c))' /\ BornColumn(payload[c].column)'
    BY <1>2, <1>4, <1>7, <2>1 DEF CardPayload, NoLess
  <2> QED
    BY <1>1, <1>2, <1>7, <2>1, <2>2 DEF CardPayload
<1>8. ASSUME NEW c \in Committed, ColumnPayload(c) PROVE ColumnPayload(c)'
  <2>1. payload'[c] = payload[c] /\ c \in Calls
    BY <1>1
  <2> QED
    BY <1>1, <1>2, <1>8, <2>1 DEF ColumnPayload
<1>9. ASSUME NEW c \in Committed PROVE PayloadInv(c)'
  <2>1. PayloadInv(c) /\ c \in Calls
    BY <1>1 DEF HistoryInv
  <2>2. Born(Card(c)) => Born(Card(c))'
    BY <1>2, <1>4, <2>1
  <2>3. BornColumn(Target(c)) => BornColumn(Target(c))'
    BY <1>2, <1>4, <2>1
  <2>4. (Kind(c) \in TaskKinds)' <=> Kind(c) \in TaskKinds
    BY <1>2, <2>1
  <2> QED
    BY <1>1, <1>2, <1>7, <1>8, <2>1, <2>2, <2>3, <2>4 DEF PayloadInv
<1> QED
  BY <1>1, <1>5, <1>6, <1>9 DEF HistoryInv

LEMMA InitHistory == Init => HistoryInv
<1> SUFFICES ASSUME Init PROVE HistoryInv
  OBVIOUS
<1>1. Committed = {} /\ OnceEach
  BY DEF Init, Committed, OnceEach
<1>2. ASSUME NEW k \in Cards PROVE CardInv(k)
  <2>1. board.cards[k] # Gone => board.cards[k].version \in Nat
    BY BoardAssumption, BoardFacts, RowFields DEF Init
  <2> QED
    BY <1>1, <2>1 DEF Init, CardInv, Born, NoLess, OnCard
<1>3. \A x \in Columns : ColumnInv(x)
  BY <1>1 DEF Init, ColumnInv, BornColumn, OnColumn
<1> QED
  BY <1>1, <1>2, <1>3 DEF HistoryInv

\* Every step keeps what the committed history says of payloads, cards and columns.
LEMMA NextHistory == TInv /\ HistoryInv /\ [Next]_vars => HistoryInv'
<1> SUFFICES ASSUME TInv, HistoryInv, [Next]_vars PROVE HistoryInv'
  OBVIOUS
<1>1. ASSUME NEW c \in Calls, Commit(c) PROVE HistoryInv'
  BY <1>1, CommitFacts, CommitPayload, CommitCardInv, CommitColumnInv DEF HistoryInv
<1>2. ASSUME NEW c \in Calls, Refuse(c) PROVE HistoryInv'
  <2>1. c \notin Committed
    BY <1>2 DEF TInv, ServerOK, Accepted, Refuse, Arrived
  <2>2. \A d \in Committed : payload'[d] = payload[d]
    BY <1>2, <2>1, LaterFacts DEF TInv, ServerOK, Refuse
  <2> QED
    BY <1>2, <2>2, HistoryKept DEF Refuse
<1>3. ASSUME NEW m \in Calls, Announce(m) \/ Mutate(m) \/ Answer(m) \/ Refused(m) \/ Lose(m) PROVE HistoryInv'
  BY <1>3, HistoryKept DEF Announce, Mutate, Answer, Refused, Lose, Fail, server
<1>4. CASE \/ Deliver \/ Connect \/ Join \/ Disconnect \/ ReadColumns \/ ReadCards \/ Land \/ FetchFails
           \/ Idle \/ UNCHANGED vars
  BY <1>4, HistoryKept DEF Deliver, Connect, Join, Disconnect, ReadColumns, ReadCards, Land, FetchFails,
       Idle, vars, server
<1> QED
  BY <1>1, <1>2, <1>3, <1>4 DEF Next
-----------------------------------------------------------------------------

\* The row p, its text t.
Moved(s, p, t) ==
  s # Gone /\ s.column = p.column /\ s.version = p.version /\ s.rank = p.rank /\ s.text = t

\* The cards of a are b's but for k, which is row.
OnlyCard(a, b, k, row) ==
  /\ a.cols = b.cols /\ a.temps = b.temps
  /\ \A q \in Cards : a.cards[q] = IF q = k THEN row ELSE b.cards[q]

OnlyColumn(a, b, x, row) ==
  /\ a.cards = b.cards /\ a.temps = b.temps
  /\ \A q \in Columns : a.cols[q] = IF q = x THEN row ELSE b.cols[q]

LEMMA CopyDomains ==
  ASSUME NEW b, IsCopy(b)
  PROVE  /\ DOMAIN b = {"cols", "cards", "temps"} /\ b.cards = [q \in Cards |-> b.cards[q]]
         /\ b.cols \in [Columns -> ColumnRows \cup {Gone}]
         /\ b.temps \in [Calls -> Columns \cup {TopLevel, Gone}]
         /\ \A k \in Cards : b.cards[k] # Gone =>
              /\ b.cards[k] \in CardRows /\ b.cols[b.cards[k].column] # Gone
              /\ b.cards[k].column \in Columns /\ b.cards[k].version \in Nat
BY DEF IsCopy, IsCache, CardRows

LEMMA TaskWrites ==
  ASSUME NEW b, IsCopy(b), NEW k \in Cards, NEW p \in CardRows,
         NEW r, r = b.cards[k]
  PROVE  /\ OnlyCard(RemoveTask(b, k), b, k, Gone)
         /\ \E s : /\ OnlyCard(UpsertTask(b, k, p), b, k, s)
                   /\ r = Gone => s = Gone
                   /\ r # Gone /\ b.cols[p.column] = Gone => s = Gone
                   /\ r # Gone /\ b.cols[p.column] # Gone => Moved(s, p, r.text)
         /\ OnlyCard(UpsertOrInsertTask(b, k, p), b, k, IF b.cols[p.column] = Gone THEN Gone ELSE p)
         /\ \E s : /\ OnlyCard(PatchTask(b, k, p), b, k, s)
                   /\ r = Gone => s = Gone
                   /\ r # Gone =>
                        s # Gone /\ s.column = r.column /\ s.version = p.version /\ s.rank = p.rank /\ s.text = p.text
<1>1. DOMAIN b = {"cols", "cards", "temps"} /\ b.cards = [q \in Cards |-> b.cards[q]]
  BY CopyDomains
<1>2. ASSUME NEW s PROVE OnlyCard([b EXCEPT !.cards[k] = s], b, k, s)
  BY <1>1 DEF OnlyCard
<1>3. OnlyCard(RemoveTask(b, k), b, k, Gone)
  BY <1>2 DEF RemoveTask
<1>4. OnlyCard(UpsertOrInsertTask(b, k, p), b, k, IF b.cols[p.column] = Gone THEN Gone ELSE p)
  BY <1>2 DEF UpsertOrInsertTask
<1>5. \E s : /\ OnlyCard(UpsertTask(b, k, p), b, k, s)
             /\ r = Gone => s = Gone
             /\ r # Gone /\ b.cols[p.column] = Gone => s = Gone
             /\ r # Gone /\ b.cols[p.column] # Gone => Moved(s, p, r.text)
  <2>1. CASE r = Gone
    BY <2>1 DEF UpsertTask, OnlyCard
  <2>2. CASE r # Gone /\ b.cols[p.column] = Gone
    BY <1>3, <2>2 DEF UpsertTask
  <2>3. CASE r # Gone /\ b.cols[p.column] # Gone
    <3> DEFINE s == [p EXCEPT !.text = r.text]
    <3>1. r \in CardRows
      BY <2>3, CopyDomains
    <3>2. s \in CardRows /\ s.column = p.column /\ s.version = p.version /\ s.rank = p.rank /\ s.text = r.text
      BY <3>1 DEF CardRows
    <3>3. s # Gone
      BY <3>2, IdAssumption
    <3>4. UpsertTask(b, k, p) = [b EXCEPT !.cards[k] = s]
      BY <2>3 DEF UpsertTask
    <3> HIDE DEF s
    <3>5. OnlyCard(UpsertTask(b, k, p), b, k, s)
      BY <1>2, <3>4
    <3> QED
      BY <2>3, <3>2, <3>3, <3>5 DEF Moved
  <2> QED
    BY <2>1, <2>2, <2>3
<1>6. \E s : /\ OnlyCard(PatchTask(b, k, p), b, k, s)
             /\ r = Gone => s = Gone
             /\ r # Gone =>
                  s # Gone /\ s.column = r.column /\ s.version = p.version /\ s.rank = p.rank /\ s.text = p.text
  <2>1. CASE r = Gone
    BY <2>1 DEF PatchTask, OnlyCard
  <2>2. CASE r # Gone
    <3> DEFINE s == [p EXCEPT !.column = r.column]
    <3>1. r \in CardRows
      BY <2>2, CopyDomains
    <3>2. s \in CardRows /\ s.column = r.column /\ s.version = p.version /\ s.rank = p.rank /\ s.text = p.text
      BY <3>1 DEF CardRows
    <3>3. s # Gone
      BY <3>2, IdAssumption
    <3>4. PatchTask(b, k, p) = [b EXCEPT !.cards[k] = s]
      BY <2>2 DEF PatchTask
    <3> HIDE DEF s
    <3>5. OnlyCard(PatchTask(b, k, p), b, k, s)
      BY <1>2, <3>4
    <3> QED
      BY <2>2, <3>2, <3>3, <3>5
  <2> QED
    BY <2>1, <2>2
<1> QED
  BY <1>3, <1>4, <1>5, <1>6

LEMMA ColumnWrites ==
  ASSUME NEW b, IsCopy(b), NEW x \in Columns, NEW p \in ColumnRows,
         NEW r, r = b.cols[x]
  PROVE  /\ OnlyColumn(UpsertOrInsertColumn(b, x, p), b, x, p)
         /\ OnlyColumn(PatchColumn(b, x, p), b, x, IF r = Gone THEN Gone ELSE p)
         /\ \E s : /\ OnlyColumn(PatchColumn(b, x, [r EXCEPT !.rank = p.rank]), b, x, s)
                   /\ r = Gone => s = Gone
                   /\ r # Gone => s # Gone /\ s.title = r.title /\ s.rank = p.rank
<1>1. DOMAIN b = {"cols", "cards", "temps"} /\ b.cols \in [Columns -> ColumnRows \cup {Gone}]
  BY CopyDomains
<1>2. ASSUME NEW s PROVE OnlyColumn([b EXCEPT !.cols[x] = s], b, x, s)
  BY <1>1 DEF OnlyColumn
<1>3. ASSUME NEW s PROVE OnlyColumn(PatchColumn(b, x, s), b, x, IF r = Gone THEN Gone ELSE s)
  <2>1. CASE r = Gone
    BY <2>1 DEF PatchColumn, OnlyColumn
  <2>2. CASE r # Gone
    BY <1>2, <2>2 DEF PatchColumn
  <2> QED
    BY <2>1, <2>2
<1>4. OnlyColumn(UpsertOrInsertColumn(b, x, p), b, x, p)
  BY <1>2 DEF UpsertOrInsertColumn
<1>5. \E s : /\ OnlyColumn(PatchColumn(b, x, [r EXCEPT !.rank = p.rank]), b, x, s)
             /\ r = Gone => s = Gone
             /\ r # Gone => s # Gone /\ s.title = r.title /\ s.rank = p.rank
  <2> DEFINE s == [r EXCEPT !.rank = p.rank]
  <2>1. r # Gone => s \in ColumnRows /\ s.title = r.title /\ s.rank = p.rank
    BY <1>1 DEF ColumnRows
  <2>2. r # Gone => s # Gone
    BY <2>1, IdAssumption
  <2> HIDE DEF s
  <2>3. OnlyColumn(PatchColumn(b, x, s), b, x, IF r = Gone THEN Gone ELSE s)
    BY <1>3
  <2>4. OnlyColumn(PatchColumn(b, x, [r EXCEPT !.rank = p.rank]), b, x, IF r = Gone THEN Gone ELSE s)
    BY <2>3 DEF s
  <2> QED
    BY <2>1, <2>2, <2>4
<1> QED
  BY <1>3, <1>4, <1>5

LEMMA ColumnRemovals ==
  ASSUME NEW b, IsCopy(b), NEW x
  PROVE  /\ Empty(b, x).cols = b.cols
         /\ \A q \in Columns : RemoveColumn(b, x).cols[q] = IF q = x THEN Gone ELSE b.cols[q]
         /\ \A q \in Cards : /\ Empty(b, x).cards[q] = IF b.cards[q] # Gone /\ b.cards[q].column = x THEN Gone ELSE b.cards[q]
                             /\ RemoveColumn(b, x).cards[q] = Empty(b, x).cards[q]
         /\ \A m \in Calls : /\ Empty(b, x).temps[m] = IF b.temps[m] = x THEN Gone ELSE b.temps[m]
                             /\ RemoveColumn(b, x).temps[m] = Empty(b, x).temps[m]
<1> DEFINE e == Empty(b, x)
<1>1. /\ DOMAIN b = {"cols", "cards", "temps"}
      /\ b.cards = [q \in Cards |-> b.cards[q]] /\ b.temps \in [Calls -> Columns \cup {TopLevel, Gone}]
      /\ b.cols \in [Columns -> ColumnRows \cup {Gone}]
  BY CopyDomains
<1>2. /\ e.cols = b.cols /\ DOMAIN e = {"cols", "cards", "temps"}
      /\ e.cards = [k \in Cards |-> IF k \in InColumn(b, x) THEN Gone ELSE b.cards[k]]
      /\ e.temps = [m \in Calls |-> IF b.temps[m] = x THEN Gone ELSE b.temps[m]]
  BY <1>1 DEF Empty
<1>3. RemoveColumn(b, x) = [e EXCEPT !.cols[x] = Gone]
  BY DEF RemoveColumn
<1> HIDE DEF e
<1>4. /\ \A q \in Cards : e.cards[q] = IF b.cards[q] # Gone /\ b.cards[q].column = x THEN Gone ELSE b.cards[q]
      /\ \A m \in Calls : e.temps[m] = IF b.temps[m] = x THEN Gone ELSE b.temps[m]
  BY <1>2 DEF InColumn
<1> DEFINE d == RemoveColumn(b, x)
<1>5. /\ \A q \in Columns : d.cols[q] = IF q = x THEN Gone ELSE b.cols[q]
      /\ d.cards = e.cards /\ d.temps = e.temps
  BY <1>1, <1>2, <1>3
<1> HIDE DEF d
<1> QED
  BY <1>2, <1>4, <1>5 DEF e, d
-----------------------------------------------------------------------------

\* What card q, column x become in the cache b: by c's event, m's answer, m's optimistic write.
EventCard(b, c, q, s) ==
  LET r == b.cards[q]
      p == payload[c]
  IN  IF Kind(c) \in {"createTask", "editTask"} /\ Card(c) = q
      THEN s = IF b.cols[p.column] = Gone THEN Gone ELSE p
      ELSE IF Kind(c) = "moveTask" /\ Card(c) = q
      THEN IF r = Gone THEN s = Gone
           ELSE IF ~(p.version > r.version) THEN s = r
           ELSE IF b.cols[p.column] = Gone THEN s = Gone
           ELSE Moved(s, p, r.text)
      ELSE IF Kind(c) = "deleteTask" /\ Card(c) = q THEN s = Gone
      ELSE IF Kind(c) = "deleteColumn" /\ r # Gone /\ r.column = Target(c) THEN s = Gone
      ELSE s = r

Reordered(s, r, p) == IF r = Gone THEN s = Gone ELSE s # Gone /\ s.title = r.title /\ s.rank = p.rank

EventColumn(b, c, x, s) ==
  LET r == b.cols[x]
      p == payload[c]
  IN  IF Kind(c) = "createColumn" /\ Target(c) = x THEN s = p
      ELSE IF Kind(c) = "renameColumn" /\ Target(c) = x THEN s = IF r = Gone THEN Gone ELSE p
      ELSE IF Kind(c) = "moveColumn" /\ Target(c) = x THEN Reordered(s, r, p)
      ELSE IF Kind(c) = "deleteColumn" /\ Target(c) = x THEN s = Gone
      ELSE s = r

AnswerCard(b, m, q, s) ==
  LET r == b.cards[q]
      p == payload[m]
  IN  IF Kind(m) = "createTask" /\ Card(m) = q
      THEN IF b.temps[m] = Gone THEN s = Gone
           ELSE /\ Moved(s, [p EXCEPT !.column = Target(m)], p.text)
                /\ b.cols[Target(m)] # Gone
      ELSE IF Kind(m) = "editTask" /\ Card(m) = q
      THEN IF r = Gone THEN s = Gone
           ELSE s # Gone /\ s.column = r.column /\ s.version = p.version /\ s.rank = p.rank /\ s.text = p.text
      ELSE IF Kind(m) = "moveTask" /\ Card(m) = q
      THEN IF r = Gone \/ b.cols[p.column] = Gone THEN s = Gone ELSE Moved(s, p, r.text)
      ELSE IF Kind(m) = "createColumn" /\ r # Gone /\ r.column = Target(m) THEN s = Gone
      ELSE s = r

AnswerColumn(b, m, x, s) ==
  LET r == b.cols[x]
      p == payload[m]
  IN  IF Kind(m) = "createColumn" /\ Target(m) = x THEN s = IF b.temps[m] = Gone THEN Gone ELSE p
      ELSE IF Kind(m) = "moveColumn" /\ Target(m) = x THEN Reordered(s, r, p)
      ELSE s = r

MutateCard(b, m, q, s) ==
  LET r == b.cards[q]
  IN  IF Kind(m) = "editTask" /\ Card(m) = q
      THEN r # Gone /\ Moved(s, r, m)
      ELSE IF Kind(m) = "moveTask" /\ Card(m) = q
      THEN /\ r # Gone /\ s # Gone /\ s.column = Target(m) /\ s.version = r.version + 1
           /\ s.rank = Guess /\ s.text = r.text
      ELSE IF Kind(m) = "deleteTask" /\ Card(m) = q THEN s = Gone
      ELSE IF Kind(m) = "deleteColumn" /\ r # Gone /\ r.column = Target(m) THEN s = Gone
      ELSE s = r

MutateColumn(b, m, x, s) ==
  LET r == b.cols[x]
  IN  IF Kind(m) = "renameColumn" /\ Target(m) = x
      THEN r # Gone /\ s # Gone /\ s.title = m /\ s.rank = r.rank
      ELSE IF Kind(m) = "deleteColumn" /\ Target(m) = x THEN s = Gone
      ELSE s = r

LEMMA EventEffect ==
  ASSUME BodyOK, PayloadOK, NEW b, IsCopy(b), NEW c \in Calls, stage[c] = "committed"
  PROVE  /\ \A q \in Cards : EventCard(b, c, q, OnEvent(b, c).cards[q])
         /\ \A x \in Columns : EventColumn(b, c, x, OnEvent(b, c).cols[x])
         /\ Kind(c) # "deleteColumn" => OnEvent(b, c).temps = b.temps
<1> DEFINE k == Card(c) y == Target(c) p == payload[c] a == OnEvent(b, c)
<1>0. /\ Kind(c) \in TaskKinds \cup ColumnKinds
      /\ Kind(c) \in TaskKinds => k \in Cards
      /\ Kind(c) \notin {"editTask", "deleteTask"} => y \in Columns
  BY BodyFacts
<1>1. CASE Kind(c) \in {"createTask", "editTask"}
  <2>1. k \in Cards /\ p \in CardRows
    BY <1>0, <1>1 DEF PayloadOK, CardRow, TaskKinds
  <2>2. OnlyCard(a, b, k, IF b.cols[p.column] = Gone THEN Gone ELSE p)
    BY <1>1, <2>1, TaskWrites DEF OnEvent
  <2> HIDE DEF a
  <2> QED
    BY <1>1, <2>2 DEF OnlyCard, EventCard, EventColumn, a
<1>2. CASE Kind(c) = "moveTask"
  <2>1. k \in Cards /\ p \in CardRows
    BY <1>0, <1>2 DEF PayloadOK, CardRow, TaskKinds
  <2> DEFINE r == b.cards[k]
  <2>2. CASE Newer(b, c)
    <3>1. a = UpsertTask(b, k, p)
      BY <1>2, <2>2 DEF OnEvent
    <3>2. PICK s : /\ OnlyCard(UpsertTask(b, k, p), b, k, s)
                   /\ r = Gone => s = Gone
                   /\ r # Gone /\ b.cols[p.column] = Gone => s = Gone
                   /\ r # Gone /\ b.cols[p.column] # Gone => Moved(s, p, r.text)
      BY <2>1, TaskWrites
    <3> HIDE DEF a
    <3>3. OnlyCard(a, b, k, s)
      BY <3>1, <3>2
    <3> QED
      BY <1>2, <2>1, <2>2, <3>2, <3>3 DEF OnlyCard, EventCard, EventColumn, Newer, a
  <2>3. CASE ~Newer(b, c)
    <3>1. a = b
      BY <1>2, <2>3 DEF OnEvent
    <3> HIDE DEF a
    <3> QED
      BY <1>2, <2>3, <3>1 DEF EventCard, EventColumn, Newer, a
  <2> QED
    BY <2>2, <2>3
<1>3. CASE Kind(c) = "deleteTask"
  <2>1. k \in Cards
    BY <1>0, <1>3 DEF TaskKinds
  <2>2. a = RemoveTask(b, k)
    BY <1>3 DEF OnEvent
  <2> DEFINE d == RemoveTask(b, k)
  <2>3. OnlyCard(d, b, k, Gone)
    <3>1. DOMAIN b = {"cols", "cards", "temps"} /\ b.cards = [q \in Cards |-> b.cards[q]]
      BY CopyDomains
    <3> QED
      BY <3>1 DEF OnlyCard, RemoveTask
  <2> HIDE DEF a, d
  <2> QED
    BY <1>3, <2>2, <2>3 DEF OnlyCard, EventCard, EventColumn, a, d
<1>4. CASE Kind(c) \in {"createColumn", "renameColumn", "moveColumn"}
  <2>1. y \in Columns /\ p \in ColumnRows
    BY <1>0, <1>4 DEF PayloadOK
  <2> DEFINE r == b.cols[y]
  <2>2. /\ OnlyColumn(UpsertOrInsertColumn(b, y, p), b, y, p)
        /\ OnlyColumn(PatchColumn(b, y, p), b, y, IF r = Gone THEN Gone ELSE p)
        /\ \E s : /\ OnlyColumn(PatchColumn(b, y, [r EXCEPT !.rank = p.rank]), b, y, s)
                  /\ r = Gone => s = Gone
                  /\ r # Gone => s # Gone /\ s.title = r.title /\ s.rank = p.rank
    BY <2>1, ColumnWrites
  <2>3. /\ Kind(c) = "createColumn" => a = UpsertOrInsertColumn(b, y, p)
        /\ Kind(c) = "renameColumn" => a = PatchColumn(b, y, p)
        /\ Kind(c) = "moveColumn" => a = PatchColumn(b, y, [r EXCEPT !.rank = p.rank])
    BY DEF OnEvent
  <2> HIDE DEF a
  <2>4. CASE Kind(c) = "createColumn"
    BY <2>1, <2>2, <2>3, <2>4 DEF OnlyColumn, EventCard, EventColumn, a
  <2>5. CASE Kind(c) = "renameColumn"
    BY <2>1, <2>2, <2>3, <2>5 DEF OnlyColumn, EventCard, EventColumn, a
  <2>6. CASE Kind(c) = "moveColumn"
    <3>1. PICK s : /\ OnlyColumn(a, b, y, s)
                   /\ r = Gone => s = Gone
                   /\ r # Gone => s # Gone /\ s.title = r.title /\ s.rank = p.rank
      BY <2>2, <2>3, <2>6
    <3> QED
      BY <2>1, <2>6, <3>1 DEF OnlyColumn, EventCard, EventColumn, Reordered, a
  <2> QED
    BY <1>4, <2>4, <2>5, <2>6
<1>5. CASE Kind(c) = "deleteColumn"
  <2>1. a = RemoveColumn(b, y)
    BY <1>5 DEF OnEvent
  <2> DEFINE d == RemoveColumn(b, y)
  <2>2. /\ \A q \in Columns : d.cols[q] = IF q = y THEN Gone ELSE b.cols[q]
        /\ \A q \in Cards : d.cards[q] = IF b.cards[q] # Gone /\ b.cards[q].column = y THEN Gone ELSE b.cards[q]
    BY ColumnRemovals
  <2> HIDE DEF a, d
  <2> QED
    BY <1>5, <2>1, <2>2 DEF EventCard, EventColumn, a, d
<1> QED
  BY <1>0, <1>1, <1>2, <1>3, <1>4, <1>5 DEF TaskKinds, ColumnKinds
-----------------------------------------------------------------------------

LEMMA AnswerEffect ==
  ASSUME BodyOK, PayloadOK, NEW b, IsCopy(b), NEW m \in Calls, stage[m] = "committed"
  PROVE  /\ \A q \in Cards : AnswerCard(b, m, q, OnSuccess(b, m).cards[q])
         /\ \A x \in Columns : AnswerColumn(b, m, x, OnSuccess(b, m).cols[x])
<1> DEFINE k == Card(m) y == Target(m) p == payload[m] a == OnSuccess(b, m)
<1>0. /\ Kind(m) \in TaskKinds \cup ColumnKinds
      /\ Kind(m) \in TaskKinds => k \in Cards
      /\ Kind(m) \notin {"editTask", "deleteTask"} => y \in Columns
  BY BodyFacts
<1>d. /\ DOMAIN b = {"cols", "cards", "temps"} /\ b.cards = [q \in Cards |-> b.cards[q]]
      /\ b.cols \in [Columns -> ColumnRows \cup {Gone}]
      /\ b.temps \in [Calls -> Columns \cup {TopLevel, Gone}]
  BY CopyDomains
<1>1. CASE Kind(m) = "createTask"
  <2>1. k \in Cards /\ p \in CardRows
    BY <1>0, <1>1 DEF PayloadOK, CardRow, TaskKinds
  <2>2. b.temps[m] # Gone => b.temps[m] = y /\ b.cols[y] # Gone
    BY <1>1 DEF IsCopy, TempsOK
  <2> DEFINE row == [p EXCEPT !.column = y]
             s == IF b.temps[m] = Gone THEN Gone ELSE row
  <2>3. row \in CardRows /\ row # Gone
    BY <1>0, <1>1, <2>1, IdAssumption DEF CardRows
  <2>4. a = [b EXCEPT !.cards[k] = s, !.temps[m] = Gone]
    BY <1>1, <2>2 DEF OnSuccess, ReplaceTaskId
  <2> HIDE DEF a, s
  <2>5. a.cols = b.cols /\ \A q \in Cards : a.cards[q] = IF q = k THEN s ELSE b.cards[q]
    BY <1>d, <2>1, <2>4
  <2> HIDE DEF row
  <2>6. b.temps[m] # Gone => Moved(row, [p EXCEPT !.column = y], p.text) /\ b.cols[y] # Gone
    <3>1. row.text = p.text
      BY <2>1 DEF row, CardRows
    <3> QED
      BY <2>2, <2>3, <3>1 DEF Moved, row
  <2> QED
    BY <1>1, <2>5, <2>6 DEF AnswerCard, AnswerColumn, a, s
<1>2. CASE Kind(m) = "editTask"
  <2>1. k \in Cards /\ p \in CardRows
    BY <1>0, <1>2 DEF PayloadOK, CardRow, TaskKinds
  <2>2. PICK s : /\ OnlyCard(PatchTask(b, k, p), b, k, s)
                 /\ b.cards[k] = Gone => s = Gone
                 /\ b.cards[k] # Gone =>
                      s # Gone /\ s.column = b.cards[k].column /\ s.version = p.version /\ s.rank = p.rank /\ s.text = p.text
    BY <2>1, TaskWrites
  <2>3. a = PatchTask(b, k, p)
    BY <1>2 DEF OnSuccess
  <2> HIDE DEF a
  <2> QED
    BY <1>2, <2>2, <2>3 DEF OnlyCard, AnswerCard, AnswerColumn, a
<1>3. CASE Kind(m) = "moveTask"
  <2>1. k \in Cards /\ p \in CardRows
    BY <1>0, <1>3 DEF PayloadOK, CardRow, TaskKinds
  <2>2. PICK s : /\ OnlyCard(UpsertTask(b, k, p), b, k, s)
                 /\ b.cards[k] = Gone => s = Gone
                 /\ b.cards[k] # Gone /\ b.cols[p.column] = Gone => s = Gone
                 /\ b.cards[k] # Gone /\ b.cols[p.column] # Gone => Moved(s, p, b.cards[k].text)
    BY <2>1, TaskWrites
  <2>3. a = UpsertTask(b, k, p)
    BY <1>3 DEF OnSuccess
  <2> HIDE DEF a
  <2> QED
    BY <1>3, <2>2, <2>3 DEF OnlyCard, AnswerCard, AnswerColumn, a
<1>4. CASE Kind(m) = "createColumn"
  <2>1. y \in Columns
    BY <1>0, <1>4
  <2> DEFINE e == Empty(b, y)
             s == IF b.temps[m] = Gone THEN Gone ELSE p
  <2>2. /\ e.cols = b.cols
        /\ \A q \in Cards : e.cards[q] = IF b.cards[q] # Gone /\ b.cards[q].column = y THEN Gone ELSE b.cards[q]
    BY ColumnRemovals
  <2>3. DOMAIN e = {"cols", "cards", "temps"} /\ DOMAIN e.temps = Calls
    BY <1>d DEF Empty
  <2>4. a = [e EXCEPT !.cols[y] = s, !.temps[m] = Gone]
    BY <1>4 DEF OnSuccess, ReplaceColumnId
  <2> HIDE DEF a, e, s
  <2>5. a.cards = e.cards /\ \A x \in Columns : a.cols[x] = IF x = y THEN s ELSE b.cols[x]
    BY <1>d, <2>2, <2>3, <2>4
  <2> QED
    BY <1>4, <2>2, <2>5 DEF AnswerCard, AnswerColumn, a, s
<1>5. CASE Kind(m) = "moveColumn"
  <2>1. y \in Columns /\ p \in ColumnRows
    BY <1>0, <1>5 DEF PayloadOK
  <2> DEFINE r == b.cols[y]
  <2>2. PICK s : /\ OnlyColumn(PatchColumn(b, y, [r EXCEPT !.rank = p.rank]), b, y, s)
                 /\ r = Gone => s = Gone
                 /\ r # Gone => s # Gone /\ s.title = r.title /\ s.rank = p.rank
    BY <2>1, ColumnWrites
  <2>3. a = PatchColumn(b, y, [r EXCEPT !.rank = p.rank])
    BY <1>5 DEF OnSuccess
  <2> HIDE DEF a
  <2> QED
    BY <1>5, <2>2, <2>3 DEF OnlyColumn, AnswerCard, AnswerColumn, Reordered, a
<1>6. CASE Kind(m) \in {"deleteTask", "renameColumn", "deleteColumn"}
  <2>1. a = b
    BY <1>6 DEF OnSuccess
  <2> QED
    BY <1>6, <2>1 DEF AnswerCard, AnswerColumn
<1> QED
  BY <1>0, <1>1, <1>2, <1>3, <1>4, <1>5, <1>6 DEF TaskKinds, ColumnKinds

LEMMA MutateEffect ==
  ASSUME BodyOK, IsCopy(cache), NEW m \in Calls, Shown(m)
  PROVE  /\ \A q \in Cards : MutateCard(cache, m, q, OnMutate(cache, m).cards[q])
         /\ \A x \in Columns : MutateColumn(cache, m, x, OnMutate(cache, m).cols[x])
<1> DEFINE k == Card(m) y == Target(m) a == OnMutate(cache, m)
<1>0. /\ Kind(m) \in TaskKinds \cup ColumnKinds
      /\ Kind(m) \in TaskKinds => k \in Cards
      /\ Kind(m) \notin {"editTask", "deleteTask"} => y \in Columns
  BY BodyFacts
<1>d. /\ DOMAIN cache = {"cols", "cards", "temps"} /\ cache.cards = [q \in Cards |-> cache.cards[q]]
      /\ cache.cols \in [Columns -> ColumnRows \cup {Gone}]
      /\ \A q \in Cards : cache.cards[q] # Gone => cache.cards[q] \in CardRows
  BY CopyDomains
<1>1. CASE Kind(m) \in {"createTask", "createColumn", "moveColumn"}
  <2>1. a.cols = cache.cols /\ a.cards = cache.cards
    BY <1>d, <1>1 DEF OnMutate, CreateTaskOptimistic, CreateColumnOptimistic, ReorderColumns
  <2> HIDE DEF a
  <2> QED
    BY <1>1, <2>1 DEF MutateCard, MutateColumn, a
<1>2. CASE Kind(m) = "editTask"
  <2>1. k \in Cards /\ cache.cards[k] # Gone
    BY <1>0, <1>2 DEF Shown, TaskKinds
  <2> DEFINE s == [cache.cards[k] EXCEPT !.text = m]
  <2>2. s \in CardRows
    BY <1>d, <2>1 DEF CardRows
  <2>3. s # Gone /\ Moved(s, cache.cards[k], m)
    BY <1>d, <2>1, <2>2, IdAssumption DEF CardRows, Moved
  <2>4. a = [cache EXCEPT !.cards[k] = s]
    BY <1>d, <1>2, <2>1 DEF OnMutate, EditTaskOptimistic
  <2> HIDE DEF a, s
  <2>5. a.cols = cache.cols /\ \A q \in Cards : a.cards[q] = IF q = k THEN s ELSE cache.cards[q]
    BY <1>d, <2>1, <2>4
  <2> QED
    BY <1>2, <2>1, <2>3, <2>5 DEF MutateCard, MutateColumn, a
<1>3. CASE Kind(m) = "moveTask"
  <2>1. k \in Cards /\ cache.cards[k] # Gone /\ y \in Columns /\ cache.cols[y] # Gone
    BY <1>0, <1>3 DEF Shown, TaskKinds
  <2> DEFINE r == cache.cards[k]
             row == [r EXCEPT !.column = y, !.rank = Guess, !.version = @ + 1]
  <2>2. row \in CardRows
    BY <1>d, <2>1, Rows, IdAssumption
  <2>3. row.column = y /\ row.version = r.version + 1 /\ row.rank = Guess /\ row.text = r.text
    BY <1>d, <2>1 DEF CardRows
  <2>4. a = UpsertTask(cache, k, row)
    BY <1>3, <2>1 DEF OnMutate, MoveTaskOptimistic
  <2> HIDE DEF a, row
  <2>5. PICK s : /\ OnlyCard(UpsertTask(cache, k, row), cache, k, s)
                 /\ r # Gone /\ cache.cols[row.column] # Gone => Moved(s, row, r.text)
    BY <2>1, <2>2, TaskWrites
  <2>6. /\ a.cols = cache.cols /\ \A q \in Cards : a.cards[q] = IF q = k THEN s ELSE cache.cards[q]
        /\ s # Gone /\ s.column = y /\ s.version = r.version + 1 /\ s.rank = Guess /\ s.text = r.text
    BY <2>1, <2>3, <2>4, <2>5 DEF OnlyCard, Moved
  <2> QED
    BY <1>3, <2>1, <2>6 DEF MutateCard, MutateColumn, a
<1>4. CASE Kind(m) = "deleteTask"
  <2>1. k \in Cards
    BY <1>0, <1>4 DEF TaskKinds
  <2>2. a = [cache EXCEPT !.cards[k] = Gone]
    BY <1>4 DEF OnMutate, RemoveTask
  <2> HIDE DEF a
  <2>3. a.cols = cache.cols /\ \A q \in Cards : a.cards[q] = IF q = k THEN Gone ELSE cache.cards[q]
    BY <1>d, <2>1, <2>2
  <2> QED
    BY <1>4, <2>3 DEF MutateCard, MutateColumn, a
<1>5. CASE Kind(m) = "renameColumn"
  <2>1. y \in Columns /\ cache.cols[y] # Gone
    BY <1>0, <1>5 DEF Shown, TaskKinds
  <2> DEFINE s == [cache.cols[y] EXCEPT !.title = m]
  <2>2. s \in ColumnRows /\ s.title = m /\ s.rank = cache.cols[y].rank
    BY <1>d, <2>1 DEF ColumnRows
  <2>3. s # Gone
    BY <2>2, IdAssumption
  <2>4. a = [cache EXCEPT !.cols[y] = s]
    BY <1>d, <1>5, <2>1 DEF OnMutate, RenameColumnOptimistic
  <2> HIDE DEF a, s
  <2>5. a.cards = cache.cards /\ \A x \in Columns : a.cols[x] = IF x = y THEN s ELSE cache.cols[x]
    BY <1>d, <2>1, <2>4
  <2> QED
    BY <1>5, <2>1, <2>2, <2>3, <2>5 DEF MutateCard, MutateColumn, a
<1>6. CASE Kind(m) = "deleteColumn"
  <2>1. a = RemoveColumn(cache, y)
    BY <1>6 DEF OnMutate
  <2> DEFINE d == RemoveColumn(cache, y)
  <2>2. /\ \A q \in Columns : d.cols[q] = IF q = y THEN Gone ELSE cache.cols[q]
        /\ \A q \in Cards : d.cards[q] = IF cache.cards[q] # Gone /\ cache.cards[q].column = y THEN Gone ELSE cache.cards[q]
    BY ColumnRemovals
  <2> HIDE DEF a, d
  <2> QED
    BY <1>6, <2>1, <2>2 DEF MutateCard, MutateColumn, a, d
<1> QED
  BY <1>0, <1>1, <1>2, <1>3, <1>4, <1>5, <1>6 DEF TaskKinds, ColumnKinds
-----------------------------------------------------------------------------

\* A row that is shown is of a card that was made, and is not ahead of the board's.
Known(r, k) == r # Gone => Born(k)
NoNewer(r, k) == r # Gone /\ board.cards[k] # Gone => r.version <= board.cards[k].version

\* The page's own moves of a card that the board may still not have, while one is open.
Uncommitted(k) ==
  IF newest[k] \in Pending
  THEN {m \in Mine : Kind(m) = "moveTask" /\ Card(m) = k /\ stage[m] \notin {"idle", "committed"}}
  ELSE {}

NoFurther(r, k) ==
  r # Gone /\ board.cards[k] # Gone =>
    r.version <= board.cards[k].version + Cardinality(Uncommitted(k))

NewestInv == \A k \in Cards : newest[k] # Gone =>
  newest[k] \in Mine /\ Kind(newest[k]) = "moveTask" /\ Card(newest[k]) = k

AnsweredInv == \A m \in Mine : answer[m] = "ok" => stage[m] = "committed"

ConflictInv == \A c \in Calls : stage[c] = "conflict" =>
  Born(Card(c)) /\ NoNewer(payload[c], Card(c))

KnownInv ==
  /\ fetch.stage = "read" => \A k \in Cards : Known(fetch.cards[k], k) /\ NoNewer(fetch.cards[k], k)
  /\ \A m \in Pending, k \in Cards : Known(snapshot[m].cards[k], k)
  /\ Loaded => \A k \in Cards : Known(cache.cards[k], k)

FurtherInv == trouble = {} =>
  /\ Loaded => \A k \in Cards : NoFurther(cache.cards[k], k)
  /\ \A m \in Pending \ touched : \A k \in Cards : NoNewer(snapshot[m].cards[k], k)

AInv == NewestInv /\ AnsweredInv /\ ConflictInv /\ KnownInv /\ FurtherInv

-----------------------------------------------------------------------------
LEMMA Counted ==
  ASSUME NEW k
  PROVE  IsFiniteSet(Uncommitted(k)) /\ Cardinality(Uncommitted(k)) \in Nat
<1>1. Uncommitted(k) \subseteq Calls
  BY DEF Uncommitted, Mine
<1>2. IsFiniteSet(Uncommitted(k))
  BY <1>1, IdAssumption, FS_Subset
<1> QED
  BY <1>2, FS_CardinalityType

LEMMA AInvImplies == TInv /\ AInv => AheadByOwnMovesOnly
<1> SUFFICES ASSUME TInv, AInv, cache # NoBoard, trouble = {},
                    NEW k \in Cards, cache.cards[k] # Gone, board.cards[k] # Gone
             PROVE  cache.cards[k].version <= board.cards[k].version
                      + Cardinality({m \in Mine : /\ Kind(m) = "moveTask" /\ Card(m) = k
                                                  /\ \/ m \in Pending
                                                     \/ answer[m] = "failed" /\ newest[k] \in Pending})
  BY DEF AheadByOwnMovesOnly
<1> DEFINE open == {m \in Mine : /\ Kind(m) = "moveTask" /\ Card(m) = k
                                 /\ \/ m \in Pending
                                    \/ answer[m] = "failed" /\ newest[k] \in Pending}
<1>1. Uncommitted(k) \subseteq open
  <2>1. \A m \in Mine : answer[m] \in {"none", "ok", "failed"}
    BY DEF TInv, PageOK, Mine
  <2> QED
    BY <2>1 DEF Uncommitted, Pending, AInv, AnsweredInv
<1>2. open \subseteq Calls
  BY DEF Mine
<1> HIDE DEF open
<1>3. IsFiniteSet(open) /\ Cardinality(open) \in Nat /\ Cardinality(Uncommitted(k)) <= Cardinality(open)
  BY <1>1, <1>2, IdAssumption, FS_Subset, FS_CardinalityType
<1>4. cache.cards[k].version \in Nat /\ board.cards[k].version \in Nat
  <2>1. IsCopy(cache)
    BY DEF TInv, PageOK, Loaded
  <2> QED
    BY <2>1, CopyDomains, BoardFacts, RowFields DEF TInv, ServerOK
<1>5. cache.cards[k].version <= board.cards[k].version + Cardinality(Uncommitted(k))
  BY DEF AInv, FurtherInv, NoFurther, Loaded
<1> QED
  BY <1>3, <1>4, <1>5, Counted DEF open

LEMMA InitAInv == Init => AInv
<1> SUFFICES ASSUME Init PROVE AInv
  OBVIOUS
<1>1. NewestInv /\ AnsweredInv /\ ConflictInv
  BY DEF Init, NewestInv, AnsweredInv, ConflictInv, Mine
<1>2. Pending = {}
  BY DEF Init, Pending, Mine
<1>3. KnownInv /\ FurtherInv
  BY <1>2 DEF Init, KnownInv, FurtherInv, Asked, NoFetch, Loaded, Mine
<1> QED
  BY <1>1, <1>3 DEF AInv

\* The same history.
LEMMA SameKnown ==
  ASSUME TInv, UNCHANGED <<board, order, body>>
  PROVE  /\ \A r, k : Known(r, k)' <=> Known(r, k)
         /\ \A r, k : NoNewer(r, k)' <=> NoNewer(r, k)
         /\ \A k : Born(k)' <=> Born(k)
         /\ Mine' = Mine /\ \A c \in Calls : Kind(c)' = Kind(c) /\ Card(c)' = Card(c) /\ Target(c)' = Target(c)
<1>1. Committed' = Committed /\ Committed \subseteq Calls
  BY LaterFacts DEF TInv, ServerOK, Committed
<1>2. Mine' = Mine /\ \A c \in Calls : Kind(c)' = Kind(c) /\ Card(c)' = Card(c) /\ Target(c)' = Target(c)
  BY SameCalls
<1>3. \A k : Born(k)' <=> Born(k)
  BY <1>1, <1>2 DEF Born, OnCard
<1>4. \A r, k : Known(r, k)' <=> Known(r, k)
  BY <1>3 DEF Known
<1>5. \A r, k : NoNewer(r, k)' <=> NoNewer(r, k)
  BY DEF NoNewer
<1> QED
  BY <1>2, <1>3, <1>4, <1>5

\* The same open calls.
LEMMA SameCount ==
  ASSUME UNCHANGED <<body, stage, answer, newest>>
  PROVE  Pending' = Pending /\ \A k : Uncommitted(k)' = Uncommitted(k)
<1>1. Mine' = Mine /\ \A c \in Calls : Kind(c)' = Kind(c) /\ Card(c)' = Card(c)
  BY SameCalls
<1>2. Pending' = Pending
  BY <1>1 DEF Pending, Mine
<1> QED
  BY <1>1, <1>2 DEF Uncommitted, Mine

\* A commit leaves no row ahead.
LEMMA CommitBounds ==
  ASSUME TInv, HistoryInv, NEW c \in Calls, Commit(c), NEW k \in Cards
  PROVE  /\ Born(k) => Born(k)'
         /\ Born(k) /\ board'.cards[k] # Gone =>
              /\ board.cards[k] # Gone
              /\ board.cards[k].version \in Nat /\ board'.cards[k].version \in Nat
              /\ board'.cards[k].version =
                   IF Kind(c) = "moveTask" /\ Card(c) = k THEN board.cards[k].version + 1 ELSE board.cards[k].version
<1> DEFINE t == board.cards[k]
           u == board'.cards[k]
<1>1. /\ BodyOK /\ body' = body /\ c \notin Committed /\ Committed \subseteq Calls
      /\ Committed' = Committed \cup {c}
  BY CommitFacts
<1>2. Born(k) => Born(k)'
  BY <1>1, BornKept
<1>3. CardEffect(c, k, t, u)
  BY CommitCards
<1>4. Born(k) => ~(Kind(c) = "createTask" /\ Card(c) = k)
  BY <1>1, NewIsUnborn
<1>5. ASSUME Born(k), u # Gone
      PROVE  /\ t # Gone /\ t.version \in Nat
             /\ u.version = IF Kind(c) = "moveTask" /\ Card(c) = k THEN t.version + 1 ELSE t.version
  BY <1>3, <1>4, <1>5, RowFields DEF CardEffect, TaskKinds
<1>6. ASSUME Born(k), u # Gone PROVE u.version \in Nat
  BY <1>5, <1>6
<1> QED
  BY <1>2, <1>5, <1>6
-----------------------------------------------------------------------------

LEMMA CommitAInv ==
  ASSUME TInv, HistoryInv, AInv, NEW c \in Calls, Commit(c)
  PROVE  AInv'
<1>1. /\ BodyOK /\ body' = body /\ c \notin Committed /\ Committed \subseteq Calls
      /\ \A k : Born(k) => Born(k)'
  BY CommitFacts, BornKept, Zenon
<1>2. /\ stage' = [stage EXCEPT ![c] = "committed"] /\ DOMAIN stage = Calls
      /\ payload' = [payload EXCEPT ![c] = Row(board', c)] /\ DOMAIN payload = Calls
      /\ stage[c] \in {"idle", "sent"} /\ (c \in Mine <=> stage[c] = "sent")
      /\ UNCHANGED <<cache, snapshot, newest, expected, answer, touched>>
      /\ trouble \subseteq trouble'
      /\ fetch'.stage = fetch.stage /\ fetch'.cards = fetch.cards
  BY DEF TInv, ServerOK, FetchOK, Commit, Arrived, Mine, page, ghosts
<1>3. Mine' = Mine /\ \A d \in Calls : Kind(d)' = Kind(d) /\ Card(d)' = Card(d)
  BY <1>1, SameCalls
<1>4. Pending' = Pending /\ (Loaded' => Loaded)
  BY <1>2, <1>3 DEF Pending, Mine, Loaded
<1>5. ASSUME NEW r, NEW k \in Cards, Known(r, k), r # Gone => r.version \in Nat
      PROVE  /\ Known(r, k)'
             /\ NoNewer(r, k) => NoNewer(r, k)'
             /\ NoFurther(r, k) => NoFurther(r, k)'
  <2>1. Known(r, k)'
    BY <1>1, <1>5 DEF Known
  <2> SUFFICES ASSUME r # Gone, board'.cards[k] # Gone
               PROVE  /\ NoNewer(r, k) => NoNewer(r, k)'
                      /\ NoFurther(r, k) => NoFurther(r, k)'
    BY <2>1 DEF NoNewer, NoFurther
  <2>2. /\ board.cards[k] # Gone
        /\ board.cards[k].version \in Nat /\ board'.cards[k].version \in Nat
        /\ board'.cards[k].version =
             IF Kind(c) = "moveTask" /\ Card(c) = k THEN board.cards[k].version + 1 ELSE board.cards[k].version
    BY <1>5, CommitBounds DEF Known
  <2>3. NoNewer(r, k) => NoNewer(r, k)'
    BY <1>5, <2>2 DEF NoNewer
  <2>4. Uncommitted(k)' = Uncommitted(k) \/ (Kind(c) = "moveTask" /\ Card(c) = k /\ Uncommitted(k)' = Uncommitted(k) \ {c})
    BY <1>2, <1>3, <1>4 DEF Uncommitted, Mine
  <2> DEFINE S == Uncommitted(k)
             n == Cardinality(S)
             p == Cardinality(S')
  <2>5. /\ IsFiniteSet(S) /\ n \in Nat /\ IsFiniteSet(S \ {c})
        /\ Cardinality(S \ {c}) = IF c \in S THEN n - 1 ELSE n
    BY Counted, FS_RemoveElement
  <2>6. /\ n \in Nat /\ p \in Nat /\ n <= p + 1
        /\ n = p \/ (Kind(c) = "moveTask" /\ Card(c) = k)
    <3>1. CASE S' = S
      BY <2>5, <3>1
    <3>2. CASE Kind(c) = "moveTask" /\ Card(c) = k /\ S' = S \ {c}
      <4>1. p = Cardinality(S \ {c}) /\ Cardinality(S \ {c}) \in Nat
        BY <2>5, <3>2, FS_CardinalityType
      <4> HIDE DEF n, p, S
      <4> QED
        BY <2>5, <3>2, <4>1
    <3> QED
      BY <2>4, <3>1, <3>2
  <2> HIDE DEF n, p, S
  <2>7. NoFurther(r, k) => r.version <= board.cards[k].version + n
    BY <2>2 DEF NoFurther, n, S
  <2>8. NoFurther(r, k) => r.version <= board'.cards[k].version + p
    BY <1>5, <2>2, <2>6, <2>7
  <2>9. NoFurther(r, k)' <=> r.version <= board'.cards[k].version + p
    BY DEF NoFurther, p, S
  <2> QED
    BY <2>3, <2>8, <2>9
<1>6. ASSUME NEW b, IsCopy(b), NEW k \in Cards
      PROVE  b.cards[k] # Gone => b.cards[k].version \in Nat
  BY <1>6, CopyDomains
<1>7. NewestInv'
  BY <1>2, <1>3 DEF AInv, NewestInv, Mine
<1>8. AnsweredInv'
  BY <1>2, <1>3 DEF AInv, AnsweredInv, Mine
<1>9. ConflictInv'
  <2> SUFFICES ASSUME NEW d \in Calls, stage'[d] = "conflict"
               PROVE  (Born(Card(d)) /\ NoNewer(payload[d], Card(d)))'
    BY DEF ConflictInv
  <2>1. stage[d] = "conflict" /\ payload'[d] = payload[d]
    BY <1>2
  <2>2. Kind(d) = "moveTask" /\ payload[d].version \in Nat /\ Card(d) \in Cards
    BY <1>1, <2>1, RowFields, BodyFacts DEF TInv, ServerOK, PayloadOK, TaskKinds
  <2>3. Born(Card(d)) /\ NoNewer(payload[d], Card(d))
    BY <2>1 DEF AInv, ConflictInv
  <2>4. Known(payload[d], Card(d))
    BY <2>3 DEF Known
  <2> DEFINE r == payload[d] q == Card(d)
  <2> HIDE DEF r, q
  <2>5. NoNewer(payload[d], Card(d)) =>
          (board'.cards[Card(d)] # Gone /\ payload[d] # Gone =>
             payload[d].version <= board'.cards[Card(d)].version)
    <3>1. Born(Card(d)) /\ board'.cards[Card(d)] # Gone =>
              /\ board.cards[Card(d)] # Gone
              /\ board.cards[Card(d)].version \in Nat /\ board'.cards[Card(d)].version \in Nat
              /\ board'.cards[Card(d)].version =
                   IF Kind(c) = "moveTask" /\ Card(c) = Card(d) THEN board.cards[Card(d)].version + 1
                   ELSE board.cards[Card(d)].version
      BY <2>2, CommitBounds
    <3> QED
      BY <2>2, <2>3, <3>1 DEF NoNewer
  <2> QED
    BY <1>1, <1>3, <2>1, <2>3, <2>5 DEF NoNewer
<1>10. KnownInv'
  <2>1. ASSUME fetch.stage = "read", NEW k \in Cards
        PROVE  Known(fetch.cards[k], k)' /\ NoNewer(fetch.cards[k], k)'
    <3>1. Known(fetch.cards[k], k) /\ NoNewer(fetch.cards[k], k)
      BY <2>1 DEF AInv, KnownInv
    <3>2. fetch.cards[k] # Gone => fetch.cards[k].version \in Nat
      BY <2>1, RowFields DEF TInv, FetchOK
    <3> DEFINE r == fetch.cards[k]
    <3>3. r' = r
      BY <1>2
    <3>4. \A s : s = r => Known(s, k)' /\ NoNewer(s, k)'
      BY <1>5, <3>1, <3>2
    <3> QED
      BY <3>3, <3>4 DEF Known, NoNewer
  <2>2. ASSUME NEW m \in Pending, NEW k \in Cards
        PROVE  Known(snapshot[m].cards[k], k)'
    BY <1>1, <1>2, <2>2 DEF AInv, KnownInv, Known
  <2>3. ASSUME Loaded, NEW k \in Cards
        PROVE  Known(cache.cards[k], k)'
    BY <1>1, <1>2, <2>3 DEF AInv, KnownInv, Known
  <2> QED
    BY <1>2, <1>4, <2>1, <2>2, <2>3 DEF KnownInv
<1>11. FurtherInv'
  <2> SUFFICES ASSUME trouble' = {} PROVE FurtherInv'
    BY DEF FurtherInv
  <2>1. trouble = {}
    BY <1>2
  <2>2. ASSUME Loaded, NEW k \in Cards
        PROVE  NoFurther(cache.cards[k], k)'
    <3> DEFINE r == cache.cards[k]
    <3>1. Known(r, k) /\ NoFurther(r, k) /\ (r # Gone => r.version \in Nat)
      BY <1>6, <2>1, <2>2 DEF AInv, KnownInv, FurtherInv, TInv, PageOK
    <3>2. \A s : s = r => NoFurther(s, k)'
      BY <1>5, <3>1
    <3> QED
      BY <1>2, <3>2 DEF NoFurther
  <2>3. ASSUME NEW m \in Pending \ touched, NEW k \in Cards
        PROVE  NoNewer(snapshot[m].cards[k], k)'
    <3> DEFINE r == snapshot[m].cards[k]
    <3>1. Known(r, k) /\ NoNewer(r, k) /\ (r # Gone => r.version \in Nat)
      BY <1>6, <2>1, <2>3 DEF AInv, KnownInv, FurtherInv, TInv, PageOK
    <3>2. \A s : s = r => NoNewer(s, k)'
      BY <1>5, <3>1
    <3> QED
      BY <1>2, <3>2 DEF NoNewer
  <2> QED
    BY <1>2, <1>4, <2>2, <2>3 DEF FurtherInv
<1> QED
  BY <1>7, <1>8, <1>9, <1>10, <1>11 DEF AInv
-----------------------------------------------------------------------------

\* The page, its calls and the board stay.
LEMMA StillAInv ==
  ASSUME TInv, AInv, UNCHANGED <<board, order, body, cache, snapshot, newest, answer, touched>>,
         trouble \subseteq trouble',
         DOMAIN stage' = Calls,
         \A c \in Calls : stage'[c] = stage[c] \/ (stage[c] # "committed" /\ stage'[c] \in {"conflict", "refused"}),
         \A m \in Mine : /\ stage[m] = "idle" <=> stage'[m] = "idle"
                         /\ stage[m] = "committed" <=> stage'[m] = "committed",
         ConflictInv',
         fetch'.stage = "read" =>
           /\ \A k \in Cards : Known(fetch'.cards[k], k) /\ NoNewer(fetch'.cards[k], k)
  PROVE  AInv'
<1>1. /\ \A r, k : Known(r, k)' <=> Known(r, k)
      /\ \A r, k : NoNewer(r, k)' <=> NoNewer(r, k)
      /\ Mine' = Mine /\ \A c \in Calls : Kind(c)' = Kind(c) /\ Card(c)' = Card(c)
  BY SameKnown
<1>2. Pending' = Pending /\ (Loaded' => Loaded)
  BY <1>1 DEF Pending, Mine, Loaded
<1>3. \A k : Uncommitted(k)' = Uncommitted(k)
  <2> SUFFICES ASSUME NEW k PROVE Uncommitted(k)' = Uncommitted(k)
    OBVIOUS
  <2>1. \A m \in Mine : stage'[m] \notin {"idle", "committed"} <=> stage[m] \notin {"idle", "committed"}
    OBVIOUS
  <2>2. \A m \in Mine : Kind(m)' = Kind(m) /\ Card(m)' = Card(m)
    BY <1>1 DEF Mine
  <2>3. {m \in Mine : Kind(m) = "moveTask" /\ Card(m) = k /\ stage[m] \notin {"idle", "committed"}}
          = {m \in Mine' : Kind(m)' = "moveTask" /\ Card(m)' = k /\ stage'[m] \notin {"idle", "committed"}}
    BY <1>1, <2>1, <2>2
  <2> QED
    BY <1>2, <2>3 DEF Uncommitted
<1>4. NewestInv'
  BY <1>1 DEF AInv, NewestInv, Mine
<1>5. AnsweredInv'
  BY <1>1 DEF AInv, AnsweredInv, Mine
<1>6. KnownInv'
  BY <1>1, <1>2 DEF AInv, KnownInv
<1>7. \A k : NoFurther(cache.cards[k], k)' <=> NoFurther(cache.cards[k], k)
  BY <1>3 DEF NoFurther
<1>8. FurtherInv'
  BY <1>1, <1>2, <1>7 DEF AInv, FurtherInv
<1> QED
  BY <1>4, <1>5, <1>6, <1>8 DEF AInv

\* The rows of the board are of cards that were made.
LEMMA BoardKnown ==
  ASSUME TInv, HistoryInv, NEW k \in Cards
  PROVE  Known(board.cards[k], k) /\ NoNewer(board.cards[k], k)
<1>1. board.cards[k] # Gone => board.cards[k].version \in Nat
  BY BoardFacts, RowFields DEF TInv, ServerOK
<1> QED
  BY <1>1 DEF HistoryInv, CardInv, Known, NoNewer

LEMMA RefuseAInv ==
  ASSUME TInv, HistoryInv, AInv, NEW c \in Calls, Refuse(c)
  PROVE  AInv'
<1>1. /\ BodyOK /\ DOMAIN stage = Calls /\ DOMAIN payload = Calls
      /\ stage[c] \in {"idle", "sent"} /\ (c \in Mine => stage[c] = "sent")
      /\ UNCHANGED <<board, order, body, cache, snapshot, newest, answer, touched, fetch, trouble>>
      /\ \/ /\ c \in Mine /\ Kind(c) = "moveTask" /\ Exists(c)
            /\ stage' = [stage EXCEPT ![c] = "conflict"]
            /\ payload' = [payload EXCEPT ![c] = board.cards[Card(c)]]
         \/ stage' = [stage EXCEPT ![c] = "refused"] /\ payload' = payload
  BY DEF TInv, ServerOK, Refuse, Arrived, page, ghosts
<1>2. /\ \A r, k : Known(r, k)' <=> Known(r, k)
      /\ \A r, k : NoNewer(r, k)' <=> NoNewer(r, k)
      /\ \A k : Born(k)' <=> Born(k)
      /\ \A d \in Calls : Card(d)' = Card(d)
  BY <1>1, SameKnown
<1>3. ConflictInv'
  <2> SUFFICES ASSUME NEW d \in Calls, stage'[d] = "conflict"
               PROVE  Born(Card(d)) /\ NoNewer(payload'[d], Card(d))
    BY <1>2 DEF ConflictInv
  <2>1. CASE d = c
    <3>1. Kind(c) = "moveTask" /\ Exists(c) /\ payload'[c] = board.cards[Card(c)] /\ Card(c) \in Cards
      BY <1>1, <2>1, BodyFacts DEF TaskKinds
    <3>2. Known(payload'[c], Card(c)) /\ NoNewer(payload'[c], Card(c)) /\ payload'[c] # Gone
      BY <3>1, BoardKnown DEF Exists, TaskKinds
    <3> QED
      BY <2>1, <3>2 DEF Known
  <2>2. CASE d # c
    BY <1>1, <2>2 DEF AInv, ConflictInv
  <2> QED
    BY <2>1, <2>2
<1>4. fetch'.stage = "read" => \A k \in Cards : Known(fetch'.cards[k], k) /\ NoNewer(fetch'.cards[k], k)
  BY <1>1 DEF AInv, KnownInv
<1> QED
  BY <1>1, <1>3, <1>4, StillAInv DEF Mine

LEMMA SameConflicts ==
  ASSUME TInv, AInv, UNCHANGED <<board, order, body, payload>>,
         \A c \in Calls : stage'[c] = "conflict" => stage[c] = "conflict"
  PROVE  ConflictInv'
<1>1. /\ \A r, k : NoNewer(r, k)' <=> NoNewer(r, k)
      /\ \A k : Born(k)' <=> Born(k)
      /\ \A d \in Calls : Card(d)' = Card(d)
  BY SameKnown
<1> QED
  BY <1>1 DEF AInv, ConflictInv

LEMMA WireAInv ==
  ASSUME TInv, HistoryInv, AInv,
         \/ \E c \in Calls : Announce(c)
         \/ Connect \/ Join \/ Disconnect \/ ReadColumns \/ ReadCards \/ FetchFails \/ Idle \/ UNCHANGED vars
  PROVE  AInv'
<1>1. /\ UNCHANGED <<board, order, body, cache, snapshot, newest, answer, touched, stage, payload>>
      /\ trouble \subseteq trouble' /\ DOMAIN stage = Calls
  <2>1. DOMAIN stage = Calls
    BY DEF TInv, ServerOK
  <2>2. CASE \E c \in Calls : Announce(c)
    BY <2>1, <2>2 DEF Announce, page, ghosts
  <2>3. CASE Connect \/ Join \/ Disconnect \/ ReadColumns \/ ReadCards \/ FetchFails \/ Idle \/ UNCHANGED vars
    BY <2>1, <2>3 DEF Connect, Join, Disconnect, ReadColumns, ReadCards, FetchFails, Idle, vars, page, ghosts, server
  <2> QED
    BY <2>2, <2>3
<1>2. ConflictInv'
  BY <1>1, SameConflicts
<1>3. ASSUME fetch'.stage = "read", NEW k \in Cards
      PROVE  Known(fetch'.cards[k], k) /\ NoNewer(fetch'.cards[k], k)
  <2>1. DOMAIN fetch = {"stage", "cols", "cards", "before", "read", "missed"}
    BY DEF TInv, FetchOK
  <2>2. CASE ReadCards
    <3>1. fetch'.cards[k] \in {board.cards[k], Gone}
      BY <2>1, <2>2 DEF ReadCards
    <3> QED
      BY <3>1, BoardKnown DEF Known, NoNewer
  <2>3. CASE fetch'.stage = fetch.stage /\ fetch'.cards = fetch.cards
    BY <1>3, <2>3 DEF AInv, KnownInv
  <2>4. CASE ~ReadCards
    <3>1. fetch' = fetch \/ fetch' = Asked \/ fetch' = NoFetch \/ (\E x : fetch' = [fetch EXCEPT !.missed = x])
           \/ (\E x, y : fetch' = [fetch EXCEPT !.stage = "half", !.cols = x, !.before = y])
      <4>1. CASE \E c \in Calls : Announce(c)
        BY <4>1 DEF Announce
      <4>2. CASE Connect \/ FetchFails
        BY <4>2 DEF Connect, FetchFails
      <4>3. CASE Join \/ Idle \/ UNCHANGED vars
        BY <4>3 DEF Join, Idle, vars
      <4>4. CASE Disconnect
        BY <4>4 DEF Disconnect
      <4>5. CASE ReadColumns
        BY <4>5 DEF ReadColumns
      <4> QED
        BY <2>4, <4>1, <4>2, <4>3, <4>4, <4>5
    <3>2. fetch'.stage = fetch.stage /\ fetch'.cards = fetch.cards
      <4>1. CASE fetch' = Asked \/ fetch' = NoFetch
        BY <1>3, <4>1 DEF Asked, NoFetch
      <4>2. ASSUME NEW x, fetch' = [fetch EXCEPT !.missed = x]
            PROVE  fetch'.stage = fetch.stage /\ fetch'.cards = fetch.cards
        BY <2>1, <4>2
      <4>3. ASSUME NEW x, NEW y, fetch' = [fetch EXCEPT !.stage = "half", !.cols = x, !.before = y]
            PROVE  fetch'.stage = "half"
        BY <2>1, <4>3
      <4> QED
        BY <1>3, <3>1, <4>1, <4>2, <4>3
    <3> QED
      BY <2>3, <3>2
  <2> QED
    BY <2>2, <2>4
<1> QED
  BY <1>1, <1>2, <1>3, StillAInv
-----------------------------------------------------------------------------

\* The same calls, the same rows.
LEMMA Within ==
  ASSUME TInv, board' = board, NEW k \in Cards, NEW r, r # Gone => r.version \in Nat
  PROVE  /\ NoNewer(r, k) => NoFurther(r, k)'
         /\ Uncommitted(k)' = Uncommitted(k) /\ NoFurther(r, k) => NoFurther(r, k)'
         /\ Uncommitted(k) = {} /\ NoFurther(r, k) => NoNewer(r, k)
<1>1. board.cards[k] # Gone => board.cards[k].version \in Nat
  BY BoardFacts, RowFields DEF TInv, ServerOK
<1> DEFINE S == Uncommitted(k) n == Cardinality(S) p == Cardinality(S') v == board.cards[k].version
<1>2. S \subseteq Calls /\ S' \subseteq Calls
  BY DEF Uncommitted, Mine
<1>3. n \in Nat /\ p \in Nat /\ (S = {} => n = 0) /\ (S' = S => p = n)
  BY <1>2, IdAssumption, FS_Subset, FS_CardinalityType, FS_EmptySet
<1>4. /\ NoFurther(r, k) <=> (r # Gone /\ board.cards[k] # Gone => r.version <= v + n)
      /\ NoFurther(r, k)' <=> (r # Gone /\ board.cards[k] # Gone => r.version <= v + p)
      /\ NoNewer(r, k) <=> (r # Gone /\ board.cards[k] # Gone => r.version <= v)
  BY DEF NoFurther, NoNewer
<1>5. S = Uncommitted(k) /\ S' = Uncommitted(k)'
  OBVIOUS
<1> HIDE DEF S, n, p
<1>6. ASSUME r # Gone, board.cards[k] # Gone
      PROVE  r.version \in Nat /\ v \in Nat
  BY <1>1, <1>6
<1>7. NoNewer(r, k) => NoFurther(r, k)'
  BY <1>3, <1>4, <1>6
<1>8. S' = S /\ NoFurther(r, k) => NoFurther(r, k)'
  BY <1>3, <1>4
<1>9. S = {} /\ NoFurther(r, k) => NoNewer(r, k)
  BY <1>3, <1>4, <1>6
<1> QED
  BY <1>5, <1>7, <1>8, <1>9

\* A step of the page.
LEMMA PageAInv ==
  ASSUME TInv, AInv, UNCHANGED <<board, order, body, payload>>,
         fetch' = fetch \/ fetch' = NoFetch,
         \A c \in Calls : stage'[c] = "conflict" => stage[c] = "conflict",
         NewestInv', AnsweredInv',
         Loaded' => \A k \in Cards : Known(cache'.cards[k], k),
         \A m \in Pending', k \in Cards : Known(snapshot'[m].cards[k], k),
         trouble' = {} =>
           /\ Loaded' => \A k \in Cards : NoFurther(cache.cards[k], k)'
           /\ \A m \in Pending' \ touched' : \A k \in Cards : NoNewer(snapshot'[m].cards[k], k)
  PROVE  AInv'
<1>1. /\ \A r, k : Known(r, k)' <=> Known(r, k)
      /\ \A r, k : NoNewer(r, k)' <=> NoNewer(r, k)
  BY SameKnown
<1>2. ConflictInv'
  BY SameConflicts
<1>3. fetch'.stage = "read" => fetch' = fetch
  BY DEF NoFetch
<1>4. KnownInv'
  BY <1>1, <1>3 DEF AInv, KnownInv
<1>5. FurtherInv'
  BY <1>1 DEF FurtherInv
<1> QED
  BY <1>2, <1>4, <1>5 DEF AInv

LEMMA LandAInv ==
  ASSUME TInv, AInv, Land
  PROVE  AInv'
<1>1. /\ UNCHANGED <<board, order, body, payload, stage, answer, newest, snapshot>>
      /\ fetch.stage = "read" /\ fetch' = NoFetch
      /\ cache' = Landed(fetch.cols, fetch.cards)
      /\ touched' = touched \cup Pending
  BY DEF Land, server
<1>2. Pending' = Pending /\ Mine' = Mine
  BY <1>1, SameCount, SameCalls
<1>3. \A k \in Cards : Known(cache'.cards[k], k) /\ NoNewer(cache'.cards[k], k)
  BY <1>1 DEF AInv, KnownInv, Landed
<1>4. \A k \in Cards : cache'.cards[k] # Gone => cache'.cards[k].version \in Nat
  BY <1>1, RowFields DEF TInv, FetchOK, Landed
<1>5. \A k \in Cards : NoFurther(cache.cards[k], k)'
  <2> SUFFICES ASSUME NEW k \in Cards PROVE NoFurther(cache.cards[k], k)'
    OBVIOUS
  <2>1. \A r : r = cache'.cards[k] => NoFurther(r, k)'
    BY <1>1, <1>3, <1>4, Within
  <2> QED
    BY <2>1 DEF NoFurther
<1>6. NewestInv' /\ AnsweredInv'
  BY <1>1, <1>2, SameCalls DEF AInv, NewestInv, AnsweredInv, Mine
<1>7. \A m \in Pending', k \in Cards : Known(snapshot'[m].cards[k], k)
  BY <1>1, <1>2 DEF AInv, KnownInv
<1> QED
  BY <1>1, <1>2, <1>3, <1>5, <1>6, <1>7, PageAInv

LEMMA DeliverAInv ==
  ASSUME TInv, HistoryInv, AInv, Deliver
  PROVE  AInv'
<1> DEFINE c == Head(inbox)
<1>1. /\ UNCHANGED <<board, order, body, payload, stage, answer, newest, snapshot, fetch>>
      /\ inbox # <<>>
      /\ cache' = IF cache = NoBoard THEN NoBoard ELSE OnEvent(cache, c)
      /\ touched \subseteq touched' /\ trouble \subseteq trouble'
  BY DEF Deliver, server
<1>2. Pending' = Pending /\ Mine' = Mine /\ \A k : Uncommitted(k)' = Uncommitted(k)
  BY <1>1, SameCount, SameCalls
<1>3. c \in Committed /\ c \in Calls /\ stage[c] = "committed"
  BY <1>1 DEF TInv, WireOK, ServerOK, Accepted
<1> HIDE DEF c
<1>4. ASSUME NEW k \in Cards, cache # NoBoard, Loaded
      PROVE  Known(cache'.cards[k], k) /\ (trouble' = {} => NoFurther(cache.cards[k], k)')
  <2> DEFINE r == cache.cards[k] s == OnEvent(cache, c).cards[k] p == payload[c]
  <2>1. IsCopy(cache) /\ cache' = OnEvent(cache, c)
    BY <1>1, <1>4 DEF TInv, PageOK
  <2>2. EventCard(cache, c, k, s)
    BY <1>3, <2>1, EventEffect DEF TInv, ServerOK
  <2>3. Known(r, k) /\ (r # Gone => r.version \in Nat) /\ (trouble = {} => NoFurther(r, k))
    BY <1>4, <2>1, CopyDomains DEF AInv, KnownInv, FurtherInv
  <2>4. ASSUME Kind(c) \in {"createTask", "editTask", "moveTask"}, Card(c) = k
        PROVE  Known(p, k) /\ NoNewer(p, k) /\ p # Gone /\ p.version \in Nat /\ Born(k)
    <3>1. CardPayload(c) /\ Born(k)
      BY <1>3, <2>4 DEF HistoryInv, PayloadInv, TaskKinds
    <3>2. p # Gone /\ p.version \in Nat
      BY <1>3, <2>4, RowFields DEF TInv, ServerOK, PayloadOK
    <3> QED
      BY <2>4, <3>1, <3>2 DEF CardPayload, NoNewer, Known
  <2>5. s = Gone \/ s = r \/ (/\ Kind(c) \in {"createTask", "editTask", "moveTask"} /\ Card(c) = k
                              /\ s # Gone /\ s.version = p.version)
    BY <2>2 DEF EventCard, Moved
  <2> HIDE DEF s
  <2>6. Known(s, k) /\ (s # Gone => s.version \in Nat) /\ (s = r \/ NoNewer(s, k))
    BY <2>3, <2>4, <2>5 DEF Known, NoNewer
  <2>7. trouble' = {} => \A q : q = s => NoFurther(q, k)'
    <3>1. trouble' = {} => (s = r => NoFurther(s, k)) /\ (s # Gone => s.version \in Nat)
      BY <1>1, <2>3, <2>6
    <3> QED
      BY <1>1, <1>2, <2>6, <3>1, Within
  <2>8. cache'.cards[k] = s
    BY <2>1 DEF s
  <2> QED
    BY <2>6, <2>7, <2>8 DEF NoFurther
<1>5. NewestInv' /\ AnsweredInv'
  BY <1>1, <1>2, SameCalls DEF AInv, NewestInv, AnsweredInv, Mine
<1>6. /\ \A m \in Pending', k \in Cards : Known(snapshot'[m].cards[k], k)
      /\ trouble' = {} => \A m \in Pending' \ touched' : \A k \in Cards : NoNewer(snapshot'[m].cards[k], k)
  BY <1>1, <1>2 DEF AInv, KnownInv, FurtherInv
<1>7. (Loaded' => Loaded) /\ (cache # NoBoard => Loaded)
  BY <1>1, <1>2 DEF Loaded
<1>8. ASSUME Loaded, cache = NoBoard, NEW k \in Cards
      PROVE  Known(cache'.cards[k], k) /\ (trouble' = {} => NoFurther(cache.cards[k], k)')
  <2>1. cache' = cache
    BY <1>1, <1>8
  <2>2. Known(cache.cards[k], k) /\ (trouble = {} => NoFurther(cache.cards[k], k))
    BY <1>8 DEF AInv, KnownInv, FurtherInv
  <2> QED
    BY <1>1, <1>2, <2>1, <2>2 DEF NoFurther
<1>9. ASSUME Loaded', NEW k \in Cards
      PROVE  Known(cache'.cards[k], k) /\ (trouble' = {} => NoFurther(cache.cards[k], k)')
  BY <1>4, <1>7, <1>8, <1>9
<1> QED
  BY <1>1, <1>5, <1>6, <1>9, PageAInv
-----------------------------------------------------------------------------

LEMMA MutateAInv ==
  ASSUME TInv, AInv, NEW m \in Calls, Mutate(m)
  PROVE  AInv'
<1>1. /\ UNCHANGED <<board, order, body, payload, answer, trouble>>
      /\ m \in Mine /\ stage[m] = "idle" /\ cache # NoBoard /\ Shown(m)
      /\ stage' = [stage EXCEPT ![m] = "sent"]
      /\ snapshot' = [snapshot EXCEPT ![m] = cache]
      /\ cache' = OnMutate(cache, m)
      /\ fetch' = NoFetch
      /\ newest' = IF Kind(m) = "moveTask" THEN [newest EXCEPT ![Card(m)] = m] ELSE newest
      /\ touched' = touched \cup Pending \cup (IF Pending = {} THEN {} ELSE {m})
  BY DEF Mutate, wire
<1>2. /\ BodyOK /\ IsCopy(cache) /\ DOMAIN stage = Calls /\ DOMAIN snapshot = Calls /\ DOMAIN newest = Cards
      /\ answer[m] = "none"
      /\ Kind(m) \in TaskKinds => Card(m) \in Cards
  BY <1>1, BodyFacts DEF TInv, ServerOK, PageOK
<1>3. Mine' = Mine /\ \A d \in Calls : Kind(d)' = Kind(d) /\ Card(d)' = Card(d)
  BY <1>1, SameCalls
<1>4. Pending' = Pending \cup {m} /\ m \notin Pending
  BY <1>1, <1>2, <1>3 DEF Pending, Mine
<1>5. NewestInv'
  <2> SUFFICES ASSUME NEW k \in Cards, newest'[k] # Gone
               PROVE  newest'[k] \in Mine /\ Kind(newest'[k]) = "moveTask" /\ Card(newest'[k]) = k
    BY <1>3 DEF NewestInv, Mine
  <2>1. CASE newest'[k] = newest[k]
    BY <2>1 DEF AInv, NewestInv
  <2>2. CASE newest'[k] # newest[k]
    <3>1. Kind(m) = "moveTask" /\ k = Card(m) /\ newest'[k] = m
      BY <1>1, <1>2, <2>2
    <3> QED
      BY <1>1, <3>1
  <2> QED
    BY <2>1, <2>2
<1>6. AnsweredInv'
  BY <1>1, <1>2, <1>3 DEF AInv, AnsweredInv, Mine
<1>7. ASSUME NEW k \in Cards
      PROVE  /\ Known(cache.cards[k], k)
             /\ cache.cards[k] # Gone => cache.cards[k].version \in Nat
             /\ trouble = {} => NoFurther(cache.cards[k], k)
  BY <1>1, <1>2, CopyDomains DEF AInv, KnownInv, FurtherInv, Loaded
<1>8. ASSUME NEW k \in Cards, ~(Kind(m) = "moveTask" /\ Card(m) = k)
      PROVE  Uncommitted(k)' = Uncommitted(k)
  <2>1. newest'[k] = newest[k] /\ newest[k] # m
    <3>1. m # Gone
      BY IdAssumption
    <3> QED
      BY <1>1, <1>2, <1>8, <3>1 DEF AInv, NewestInv
  <2>2. newest'[k] \in Pending' <=> newest[k] \in Pending
    BY <1>4, <2>1
  <2>3. {d \in Mine' : Kind(d)' = "moveTask" /\ Card(d)' = k /\ stage'[d] \notin {"idle", "committed"}}
          = {d \in Mine : Kind(d) = "moveTask" /\ Card(d) = k /\ stage[d] \notin {"idle", "committed"}}
    BY <1>1, <1>2, <1>3, <1>8 DEF Mine
  <2> QED
    BY <2>2, <2>3 DEF Uncommitted
<1>9. ASSUME Kind(m) = "moveTask", NEW k, k = Card(m)
      PROVE  /\ Uncommitted(k) \cup {m} \subseteq Uncommitted(k)' /\ m \notin Uncommitted(k)
  <2>1. newest'[k] = m
    BY <1>1, <1>2, <1>9 DEF TaskKinds
  <2>2. Uncommitted(k)' = {d \in Mine' : Kind(d)' = "moveTask" /\ Card(d)' = k /\ stage'[d] \notin {"idle", "committed"}}
    BY <1>4, <2>1 DEF Uncommitted
  <2>3. Uncommitted(k) \subseteq {d \in Mine : Kind(d) = "moveTask" /\ Card(d) = k /\ stage[d] \notin {"idle", "committed"}}
    BY DEF Uncommitted
  <2> QED
    BY <1>1, <1>2, <1>3, <1>9, <2>2, <2>3 DEF Mine
<1>10. ASSUME NEW k \in Cards
       PROVE  Known(cache'.cards[k], k) /\ (trouble' = {} => NoFurther(cache.cards[k], k)')
  <2> DEFINE r == cache.cards[k] s == OnMutate(cache, m).cards[k]
  <2>1. MutateCard(cache, m, k, s)
    BY <1>1, <1>2, MutateEffect
  <2>2. s = cache'.cards[k]
    BY <1>1
  <2> HIDE DEF s
  <2>3. Known(s, k)
    BY <1>7, <2>1 DEF Known, MutateCard
  <2>4. CASE Kind(m) = "moveTask" /\ Card(m) = k
    <3>1. r # Gone /\ s # Gone /\ s.version = r.version + 1 /\ r.version \in Nat
      BY <1>7, <2>1, <2>4 DEF MutateCard
    <3> DEFINE n == Cardinality(Uncommitted(k)) p == Cardinality(Uncommitted(k)') v == board.cards[k].version
    <3>2. n \in Nat /\ p \in Nat /\ n + 1 <= p
      <4>1. /\ IsFiniteSet(Uncommitted(k)) /\ n \in Nat
            /\ IsFiniteSet(Uncommitted(k) \cup {m}) /\ Cardinality(Uncommitted(k) \cup {m}) = n + 1
        BY <1>9, <2>4, Counted, FS_AddElement
      <4>2. Uncommitted(k)' \subseteq Calls
        BY DEF Uncommitted, Mine
      <4>3. IsFiniteSet(Uncommitted(k)') /\ p \in Nat
        BY <4>2, IdAssumption, FS_Subset, FS_CardinalityType
      <4>4. Cardinality(Uncommitted(k) \cup {m}) <= p
        BY <1>9, <2>4, <4>3, FS_Subset
      <4> QED
        BY <4>1, <4>3, <4>4
    <3>3. board.cards[k] # Gone => v \in Nat
      BY BoardFacts, RowFields DEF TInv, ServerOK
    <3>4. /\ NoFurther(r, k) => (board.cards[k] # Gone => r.version <= v + n)
          /\ NoFurther(cache.cards[k], k)' <=> (cache'.cards[k] # Gone /\ board'.cards[k] # Gone =>
                  cache'.cards[k].version <= board'.cards[k].version + p)
      BY <3>1 DEF NoFurther
    <3> HIDE DEF n, p
    <3> QED
      BY <1>1, <1>7, <2>2, <2>3, <3>1, <3>2, <3>3, <3>4
  <2>5. CASE ~(Kind(m) = "moveTask" /\ Card(m) = k)
    <3>1. s = Gone \/ (s # Gone /\ r # Gone /\ s.version = r.version)
      BY <2>1, <2>5 DEF MutateCard, Moved
    <3>2. (s # Gone => s.version \in Nat) /\ (trouble' = {} => NoFurther(s, k))
      BY <1>1, <1>7, <3>1 DEF NoFurther
    <3>3. trouble' = {} => \A q : q = s => NoFurther(q, k)'
      BY <1>1, <1>8, <2>5, <3>2, Within
    <3> QED
      BY <2>2, <2>3, <3>3 DEF NoFurther
  <2> QED
    BY <2>4, <2>5
<1>11. \A d \in Pending', k \in Cards : Known(snapshot'[d].cards[k], k)
  <2> SUFFICES ASSUME NEW d \in Pending', NEW k \in Cards PROVE Known(snapshot'[d].cards[k], k)
    OBVIOUS
  <2>1. CASE d = m
    BY <1>1, <1>2, <1>7, <2>1
  <2>2. CASE d # m
    BY <1>1, <1>4, <2>2 DEF AInv, KnownInv, Pending, Mine
  <2> QED
    BY <2>1, <2>2
<1>12. ASSUME trouble' = {}, NEW d \in Pending' \ touched', NEW k \in Cards
       PROVE  NoNewer(snapshot'[d].cards[k], k)
  <2>1. d = m /\ Pending = {}
    BY <1>1, <1>4, <1>12
  <2>2. Uncommitted(k) = {}
    BY <2>1 DEF Uncommitted
  <2>3. snapshot'[d] = cache
    BY <1>1, <1>2, <2>1
  <2>4. NoNewer(cache.cards[k], k)
    BY <1>1, <1>7, <1>12, <2>2, Within
  <2> QED
    BY <2>3, <2>4
<1> QED
  <2>1. \A c \in Calls : stage'[c] = "conflict" => stage[c] = "conflict"
    BY <1>1, <1>2
  <2> QED
    BY <1>1, <1>5, <1>6, <1>10, <1>11, <1>12, <2>1, PageAInv

\* An answer, whichever it is: of an open call, that is open no more.
LEMMA SettleAInv ==
  ASSUME TInv, AInv, NEW m \in Pending, NEW v \in {"ok", "failed"}, v = "ok" => stage[m] = "committed",
         answer' = [answer EXCEPT ![m] = v],
         UNCHANGED <<board, order, body, payload, stage, newest, snapshot, fetch>>,
         touched \subseteq touched', trouble \subseteq trouble',
         \A k \in Cards : Known(cache'.cards[k], k),
         \A k \in Cards : cache'.cards[k] # Gone => cache'.cards[k].version \in Nat,
         \A k \in Cards : trouble' = {} =>
            \/ NoNewer(cache'.cards[k], k)
            \/ newest[k] # m /\ NoFurther(cache'.cards[k], k)
  PROVE  AInv'
<1>1. Mine' = Mine /\ \A d \in Calls : Kind(d)' = Kind(d) /\ Card(d)' = Card(d)
  BY SameCalls
<1>2. DOMAIN answer = Calls
  BY DEF TInv, PageOK
<1>3. Pending' = Pending \ {m}
  BY <1>1, <1>2 DEF Pending, Mine
<1>4. NewestInv'
  BY <1>1 DEF AInv, NewestInv, Mine
<1>5. AnsweredInv'
  BY <1>1, <1>2 DEF AInv, AnsweredInv, Mine
<1>6. ASSUME NEW k \in Cards, trouble' = {}
      PROVE  NoFurther(cache.cards[k], k)'
  <2> DEFINE s == cache'.cards[k]
  <2>1. newest[k] # m => Uncommitted(k)' = Uncommitted(k)
    BY <1>1, <1>3 DEF Uncommitted, Mine
  <2>2. NoNewer(s, k) \/ (newest[k] # m /\ NoFurther(s, k))
    BY <1>6
  <2>3. s # Gone => s.version \in Nat
    OBVIOUS
  <2> HIDE DEF s
  <2>4. \A q : q = s => NoFurther(q, k)'
    BY <2>1, <2>2, <2>3, Within
  <2> QED
    BY <2>4 DEF NoFurther, s
<1>7. \A d \in Pending', k \in Cards : Known(snapshot'[d].cards[k], k)
  BY <1>3 DEF AInv, KnownInv
<1>8. trouble' = {} => \A d \in Pending' \ touched' : \A k \in Cards : NoNewer(snapshot'[d].cards[k], k)
  BY <1>3 DEF AInv, FurtherInv
<1> QED
  BY <1>4, <1>5, <1>6, <1>7, <1>8, PageAInv

LEMMA AnswerAInv ==
  ASSUME TInv, HistoryInv, AInv, NEW m \in Calls, Answer(m)
  PROVE  AInv'
<1>1. /\ UNCHANGED <<board, order, body, payload, stage, newest, snapshot, fetch>>
      /\ m \in Mine /\ stage[m] = "committed" /\ answer[m] = "none"
      /\ answer' = [answer EXCEPT ![m] = "ok"]
      /\ cache' = IF IsCurrent(m) THEN OnSuccess(cache, m) ELSE cache
      /\ touched \subseteq touched' /\ trouble \subseteq trouble'
  BY DEF Answer, server
<1>2. /\ m \in Pending /\ m \in Committed /\ IsCopy(cache) /\ Loaded /\ BodyOK
      /\ m # Gone
  BY <1>1, IdAssumption DEF Pending, TInv, ServerOK, PageOK, Accepted, Loaded
<1>3. \A q \in Cards : newest[q] = m => Kind(m) = "moveTask" /\ Card(m) = q
  BY <1>2 DEF AInv, NewestInv
<1>4. ASSUME NEW k \in Cards
      PROVE  /\ Known(cache'.cards[k], k)
             /\ cache'.cards[k] # Gone => cache'.cards[k].version \in Nat
             /\ trouble' = {} => \/ NoNewer(cache'.cards[k], k)
                                 \/ newest[k] # m /\ NoFurther(cache'.cards[k], k)
  <2> DEFINE r == cache.cards[k] s == cache'.cards[k] p == payload[m]
  <2>1. Known(r, k) /\ (r # Gone => r.version \in Nat) /\ (trouble = {} => NoFurther(r, k))
    BY <1>2, CopyDomains DEF AInv, KnownInv, FurtherInv
  <2>2. CASE ~IsCurrent(m)
    <3>1. newest[k] # m
      BY <1>3, <2>2 DEF IsCurrent
    <3> QED
      BY <1>1, <2>1, <2>2, <3>1
  <2>3. CASE IsCurrent(m)
    <3>1. AnswerCard(cache, m, k, s)
      BY <1>1, <1>2, <2>3, AnswerEffect DEF TInv, ServerOK
    <3>2. ASSUME Kind(m) \in {"createTask", "editTask", "moveTask"}, Card(m) = k
          PROVE  Born(k) /\ p.version \in Nat /\ (board.cards[k] # Gone => p.version <= board.cards[k].version)
      <4>1. CardPayload(m) /\ Born(k)
        BY <1>2, <3>2 DEF HistoryInv, PayloadInv, TaskKinds
      <4>2. p.version \in Nat
        BY <1>1, <3>2, RowFields DEF TInv, ServerOK, PayloadOK
      <4> QED
        BY <3>2, <4>1, <4>2 DEF CardPayload
    <3> DEFINE row == [p EXCEPT !.column = Target(m)]
    <3>3. Kind(m) = "createTask" => row.version = p.version
      <4>1. Kind(m) = "createTask" => p \in CardRows
        BY <1>1, RowFields DEF TInv, ServerOK, PayloadOK
      <4> QED
        BY <4>1 DEF CardRows
    <3>a. AnswerCard(cache, m, k, s) /\ Kind(m) = "createTask" /\ Card(m) = k =>
            s = Gone \/ (s # Gone /\ s.version = row.version)
      BY DEF AnswerCard, Moved
    <3> HIDE DEF row
    <3>4. \/ s = Gone
          \/ s = r /\ ~(Kind(m) = "moveTask" /\ Card(m) = k)
          \/ /\ Kind(m) \in {"createTask", "editTask", "moveTask"} /\ Card(m) = k
             /\ s # Gone /\ s.version = p.version
      <4>1. CASE Kind(m) = "createTask" /\ Card(m) = k
        BY <3>1, <3>3, <3>a, <4>1
      <4>2. CASE ~(Kind(m) = "createTask" /\ Card(m) = k)
        <5>1. CASE Kind(m) \in {"editTask", "moveTask"} /\ Card(m) = k
          BY <3>1, <5>1 DEF AnswerCard, Moved
        <5>2. CASE ~(Kind(m) \in {"editTask", "moveTask"} /\ Card(m) = k)
          <6>1. s = Gone \/ s = r
            BY <3>1, <4>2, <5>2 DEF AnswerCard
          <6> QED
            BY <5>2, <6>1
        <5> QED
          BY <5>1, <5>2
      <4> QED
        BY <4>1, <4>2
    <3> HIDE DEF s
    <3>5. CASE s = Gone
      BY <3>5 DEF Known, NoNewer, s
    <3>6. CASE s = r /\ ~(Kind(m) = "moveTask" /\ Card(m) = k)
      BY <1>1, <1>3, <2>1, <3>6 DEF s
    <3>7. CASE /\ Kind(m) \in {"createTask", "editTask", "moveTask"} /\ Card(m) = k
               /\ s # Gone /\ s.version = p.version
      BY <3>2, <3>7 DEF Known, NoNewer, s
    <3> QED
      BY <3>4, <3>5, <3>6, <3>7 DEF s
  <2> QED
    BY <2>2, <2>3
<1> QED
  BY <1>1, <1>2, <1>4, SettleAInv
-----------------------------------------------------------------------------

LEMMA FailAInv ==
  ASSUME TInv, AInv, NEW m \in Pending, NEW conflict \in BOOLEAN, conflict => stage[m] = "conflict",
         Fail(m, conflict)
  PROVE  AInv'
<1>1. /\ UNCHANGED <<board, order, body, payload, stage, newest, snapshot, fetch>>
      /\ answer' = [answer EXCEPT ![m] = "failed"]
      /\ cache' = RolledBack(m, conflict)
      /\ touched \subseteq touched' /\ trouble \subseteq trouble'
      /\ IsCurrent(m) /\ m \in touched => "rollback" \in trouble'
  BY DEF Fail, server
<1>2. /\ m \in Mine /\ m \in Calls /\ IsCopy(cache) /\ Loaded /\ BodyOK /\ IsCopy(snapshot[m])
      /\ m # Gone
  BY IdAssumption DEF Pending, Mine, TInv, ServerOK, PageOK, Loaded
<1>3. \A q \in Cards : newest[q] = m => Kind(m) = "moveTask" /\ Card(m) = q
  BY <1>2 DEF AInv, NewestInv
<1>4. ASSUME NEW k \in Cards
      PROVE  /\ Known(cache'.cards[k], k)
             /\ cache'.cards[k] # Gone => cache'.cards[k].version \in Nat
             /\ trouble' = {} => \/ NoNewer(cache'.cards[k], k)
                                 \/ newest[k] # m /\ NoFurther(cache'.cards[k], k)
  <2> DEFINE r == cache.cards[k] s == cache'.cards[k] p == payload[m] o == snapshot[m].cards[k]
  <2>1. CASE ~IsCurrent(m)
    <3>1. newest[k] # m
      BY <1>3, <2>1 DEF IsCurrent
    <3>2. Known(r, k) /\ (r # Gone => r.version \in Nat) /\ (trouble = {} => NoFurther(r, k))
      BY <1>2, CopyDomains DEF AInv, KnownInv, FurtherInv
    <3>3. cache' = cache
      BY <1>1, <2>1 DEF RolledBack
    <3> QED
      BY <1>1, <3>1, <3>2, <3>3
  <2>2. CASE IsCurrent(m)
    <3>1. Known(o, k) /\ (o # Gone => o.version \in Nat) /\ (trouble' = {} => NoNewer(o, k))
      BY <1>1, <1>2, <2>2, CopyDomains DEF AInv, KnownInv, FurtherInv
    <3>2. CASE ~conflict
      <4>1. cache' = snapshot[m]
        BY <1>1, <2>2, <3>2 DEF RolledBack
      <4> QED
        BY <3>1, <4>1
    <3>3. CASE conflict
      <4>1. /\ Kind(m) = "moveTask" /\ Card(m) \in Cards /\ p \in CardRows /\ p.version \in Nat
            /\ cache' = UpsertTask(snapshot[m], Card(m), p)
        BY <1>1, <1>2, <2>2, <3>3, BodyFacts, RowFields DEF RolledBack, TInv, ServerOK, PayloadOK, TaskKinds
      <4>2. Born(Card(m)) /\ NoNewer(p, Card(m)) /\ p # Gone
        BY <1>2, <3>3, <4>1, IdAssumption DEF AInv, ConflictInv
      <4> DEFINE w == snapshot[m].cards[Card(m)]
      <4>3. PICK t : /\ OnlyCard(UpsertTask(snapshot[m], Card(m), p), snapshot[m], Card(m), t)
                     /\ w = Gone => t = Gone
                     /\ w # Gone /\ snapshot[m].cols[p.column] = Gone => t = Gone
                     /\ w # Gone /\ snapshot[m].cols[p.column] # Gone => Moved(t, p, w.text)
        BY <1>2, <4>1, TaskWrites
      <4>4. s = IF k = Card(m) THEN t ELSE o
        BY <4>1, <4>3 DEF OnlyCard
      <4>5. t # Gone => t.version = p.version
        BY <4>3 DEF Moved
      <4> HIDE DEF s
      <4>6. CASE k = Card(m)
        <5>1. s = Gone \/ (s # Gone /\ s.version = p.version)
          BY <4>4, <4>5, <4>6
        <5>2. NoNewer(s, k) /\ Known(s, k) /\ (s # Gone => s.version \in Nat)
          BY <4>1, <4>2, <4>6, <5>1 DEF NoNewer, Known
        <5> QED
          BY <5>2 DEF s
      <4>7. CASE k # Card(m)
        BY <3>1, <4>4, <4>7 DEF s
      <4> QED
        BY <4>6, <4>7
    <3> QED
      BY <3>2, <3>3
  <2> QED
    BY <2>1, <2>2
<1> QED
  BY <1>1, <1>4, SettleAInv

\* Every step keeps the versions of every copy the page may still put back.
LEMMA NextAInv == TInv /\ HistoryInv /\ AInv /\ [Next]_vars => AInv'
<1> SUFFICES ASSUME TInv, HistoryInv, AInv, [Next]_vars PROVE AInv'
  OBVIOUS
<1>1. ASSUME NEW c \in Calls, Commit(c) \/ Refuse(c) \/ Announce(c) PROVE AInv'
  BY <1>1, CommitAInv, RefuseAInv, WireAInv
<1>2. ASSUME NEW m \in Calls, Mutate(m) \/ Answer(m) PROVE AInv'
  BY <1>2, MutateAInv, AnswerAInv
<1>3. ASSUME NEW m \in Calls, Refused(m) PROVE AInv'
  <2>1. m \in Pending
    BY <1>3 DEF Refused, Pending
  <2>2. Fail(m, stage[m] = "conflict")
    BY <1>3 DEF Refused
  <2>3. (stage[m] = "conflict") \in BOOLEAN
    OBVIOUS
  <2> QED
    BY <2>1, <2>2, <2>3, FailAInv
<1>4. ASSUME NEW m \in Calls, Lose(m) PROVE AInv'
  BY <1>4, FailAInv DEF Lose
<1>5. CASE Deliver
  BY <1>5, DeliverAInv
<1>6. CASE Land
  BY <1>6, LandAInv
<1>7. CASE Connect \/ Join \/ Disconnect \/ ReadColumns \/ ReadCards \/ FetchFails \/ Idle \/ UNCHANGED vars
  BY <1>7, WireAInv
<1> QED
  BY <1>1, <1>2, <1>3, <1>4, <1>5, <1>6, <1>7 DEF Next

\* The version a drag sends is ahead of the committed one by the page's own open moves of
\* the card at most, until one of the cases happens that the protocol does not cover
\* (tasks.ts 138, realtime.ts 139-140).
THEOREM AheadByOwnMoves == Spec => []AheadByOwnMovesOnly
<1> DEFINE IInv == TInv /\ HistoryInv /\ AInv
<1>1. Init => IInv
  BY InitTInv, InitHistory, InitAInv
<1>2. IInv /\ [Next]_vars => IInv'
  BY NextTInv, NextHistory, NextAInv
<1>3. IInv => AheadByOwnMovesOnly
  BY AInvImplies
<1> QED
  BY <1>1, <1>2, <1>3, PTL DEF Spec
-----------------------------------------------------------------------------

\* Committed calls whose event has not been delivered: still to be emitted, or on its way.
Coming == {d \in Committed : d \notin told \/ \E i \in 1 .. Len(inbox) : inbox[i] = d}

\* What a copy of the board may lack of it, when A is yet to come, H has come, and open are
\* the page's open calls.
SyncColumn(r, x, A, open) ==
  LET t == board.cols[x]
  IN  /\ r # Gone => BornColumn(x)
      /\ r # Gone /\ t = Gone => OnColumn(A, {"deleteColumn"}, x)
      /\ r = Gone /\ t # Gone =>
           \/ OnColumn(A, {"createColumn"}, x)
           \/ OnColumn(open \ Committed, {"deleteColumn"}, x)
      /\ r # Gone /\ t # Gone =>
           /\ \/ r.title = t.title
              \/ OnColumn(A, {"createColumn", "renameColumn"}, x)
              \/ OnColumn(open \ Committed, {"renameColumn"}, x)
           /\ r.rank = t.rank \/ OnColumn(A, {"createColumn", "moveColumn"}, x)

Fresh(v, k, A) == \A d \in Committed \ A : Kind(d) = "moveTask" /\ Card(d) = k => payload[d].version <= v

\* An edit's answer leaves the card in its column, and its event is still to put that right.
Edited(k, A) == \E d \in A : Kind(d) = "editTask" /\ Card(d) = k /\ payload[d].version = board.cards[k].version

SyncRow(r, k, A, open) ==
  LET t == board.cards[k]
      m == newest[k]
  IN  \/ r.version < t.version
      \/ r.version = t.version /\ r.rank = t.rank /\ (r.column = t.column \/ Edited(k, A))
      \/ m \in open \ Committed /\ (r.column = Target(m) \/ r.version <= t.version)
      \/ /\ m \in open \cap Committed
         /\ \/ r.column = t.column
            \/ Edited(k, A)
            \/ \E d \in Committed : Kind(d) = "moveTask" /\ Card(d) = k /\ Later(d, m)

\* What will take a card away that the board has no more.
Doomed(r, k, A, open) ==
  \/ OnCard(A, {"deleteTask", "editTask"}, k)
  \/ board.cols[r.column] = Gone
  \/ \E d \in A : Kind(d) = "moveTask" /\ Card(d) = k /\ payload[d].version > r.version
  \/ newest[k] \in open

\* What will bring a card that the copy does not have.
Missing(k, A, H, open) ==
  LET x == board.cards[k].column
      m == newest[k]
  IN  \/ OnCard(A, {"createTask", "editTask", "moveTask"}, k)
      \/ OnCard(open \ Committed, {"deleteTask"}, k)
      \/ OnColumn(open \ Committed, {"deleteColumn"}, x)
      \/ \E e \in A : /\ Kind(e) = "createColumn" /\ Target(e) = x
                      /\ \E d \in H : Later(d, e) /\ Undoes(e, d)
      \/ m \in open \ Committed
      \/ m \in open /\ \E d \in H : Kind(d) = "moveTask" /\ Card(d) = k /\ Later(d, m)

SyncText(r, k, A, open) ==
  board.cards[k] # Gone =>
  \/ r.text = board.cards[k].text
  \/ OnCard(A, {"createTask", "editTask"}, k)
  \/ OnCard(open \ Committed, {"editTask"}, k)

\* A card but for its text.
SyncPlace(r, k, A, open) ==
  LET t == board.cards[k]
  IN /\ Born(k) /\ BornColumn(r.column) /\ NoLess(r.version, k)
     /\ \A d \in Committed : Kind(d) = "deleteTask" /\ Card(d) = k => d \in A
     /\ Fresh(r.version, k, A)
     /\ t = Gone => Doomed(r, k, A, open)
     /\ t # Gone => SyncRow(r, k, A, open)

SyncCard(r, k, A, H, open) ==
  /\ r # Gone => SyncPlace(r, k, A, open) /\ SyncText(r, k, A, open)
  /\ r = Gone /\ board.cards[k] # Gone => Missing(k, A, H, open)

HeardInv == trouble = {} =>
  /\ Committed \ Coming \subseteq heard
  /\ \A d \in Committed : body[d].respaces => d \in heard

CacheSync == trouble = {} /\ cache # NoBoard =>
  /\ \A x \in Columns : SyncColumn(cache.cols[x], x, Coming, Pending)
  /\ \A k \in Cards : SyncCard(cache.cards[k], k, Coming, heard, Pending)

FetchSync ==
  /\ fetch.stage \in {"half", "read"} /\ fetch.missed = {} =>
       /\ \A d \in Committed \ fetch.before : (d \in Coming \/ d \in heard) /\ ~body[d].respaces
       /\ \A x \in Columns : SyncColumn(fetch.cols[x], x, Committed \ fetch.before, {})
  /\ fetch.stage = "read" /\ fetch.missed = {} =>
       \A k \in Cards : SyncCard(fetch.cards[k], k, Committed \ fetch.before, fetch.read, {})

\* The moves that the page may have ignored because of m's estimate.
Seen(m) == IF m \in ignored
           THEN {d \in Committed : /\ Kind(d) = "moveTask" /\ Card(d) = Card(m)
                                   /\ payload[d].version <= snapshot[m].cards[Card(m)].version + 1}
           ELSE {}

\* What m's failure would put back.
Restorable(m) ==
  LET b == snapshot[m]
      k == Card(m)
  IN  /\ Pending = {m}
      /\ \A q \in Cards : MutateCard(b, m, q, cache.cards[q])
      /\ \A x \in Columns : MutateColumn(b, m, x, cache.cols[x])
      /\ m \notin ignored =>
           /\ \A x \in Columns : SyncColumn(b.cols[x], x, Coming, {})
           /\ \A q \in Cards : SyncCard(b.cards[q], q, Coming, heard, {})
      /\ Kind(m) = "moveTask" =>
           /\ newest[k] = m
           /\ stage[m] = "conflict" => SyncPlace(payload[m], k, Coming \cup Seen(m), {})

SnapshotSync == trouble = {} => \A m \in Pending \ touched : Restorable(m)

SInv == HeardInv /\ CacheSync /\ FetchSync /\ SnapshotSync

-----------------------------------------------------------------------------
LEMMA SameHistory ==
  ASSUME UNCHANGED <<board, order, body>>
  PROVE  /\ Committed' = Committed
         /\ \A d, e : Later(d, e)' <=> Later(d, e)
         /\ \A k : Born(k)' <=> Born(k)
         /\ \A x : BornColumn(x)' <=> BornColumn(x)
         /\ \A d, e : Undoes(e, d)' <=> Undoes(e, d)
<1>1. Committed' = Committed /\ \A d, e : Later(d, e)' <=> Later(d, e)
  BY DEF Committed, Later
<1>2. /\ \A k : Born(k)' <=> Born(k)
      /\ \A x : BornColumn(x)' <=> BornColumn(x)
  BY <1>1 DEF Born, BornColumn, OnCard, OnColumn, Kind, Card, Target
<1>3. \A d, e : Undoes(e, d)' <=> Undoes(e, d)
  BY DEF Undoes, Reranks, Kind, Card, Target
<1> QED
  BY <1>1, <1>2, <1>3

\* A copy stays one while more is to come, more has come, more is open; and when calls
\* are no longer open on which nothing of it rests.
LEMMA ColumnStays ==
  ASSUME UNCHANGED <<board, order, body>>, NEW A, NEW B, NEW open, NEW o, NEW x, NEW r,
         SyncColumn(r, x, A, open),
         \A d \in A : Kind(d) \in ColumnKinds /\ Target(d) = x => d \in B,
         \A q \in open \ o : q \in Committed \/ Kind(q) = "moveTask"
  PROVE  SyncColumn(r, x, B, o)'
<1>1. Committed' = Committed /\ (BornColumn(x)' <=> BornColumn(x))
  BY SameHistory
<1>2. \A K \in SUBSET ColumnKinds : /\ OnColumn(A, K, x) => OnColumn(B, K, x)'
                                    /\ OnColumn(open \ Committed, K, x) => OnColumn(o \ Committed, K, x)'
  BY <1>1 DEF OnColumn, Kind, Target, ColumnKinds
<1>3. {"deleteColumn"} \in SUBSET ColumnKinds /\ {"createColumn"} \in SUBSET ColumnKinds
      /\ {"renameColumn"} \in SUBSET ColumnKinds /\ {"createColumn", "renameColumn"} \in SUBSET ColumnKinds
      /\ {"createColumn", "moveColumn"} \in SUBSET ColumnKinds
  BY DEF ColumnKinds
<1> QED
  BY <1>1, <1>2, <1>3 DEF SyncColumn
-----------------------------------------------------------------------------

LEMMA PlaceStays ==
  ASSUME UNCHANGED <<board, order, body>>, \A d \in Committed : payload'[d] = payload[d],
         NEW A, A \subseteq Committed, NEW B, NEW open, NEW o, NEW k, NEW r,
         SyncPlace(r, k, A, open),
         \A d \in A : Kind(d) \in TaskKinds /\ Card(d) = k => d \in B,
         newest[k] \in open => newest[k] \in o /\ newest'[k] = newest[k]
  PROVE  SyncPlace(r, k, B, o)'
<1>1. /\ Committed' = Committed /\ (Born(k)' <=> Born(k)) /\ (BornColumn(r.column)' <=> BornColumn(r.column))
      /\ \A d, e : Later(d, e)' <=> Later(d, e)
  BY SameHistory
<1>2. \A d : Kind(d)' = Kind(d) /\ Card(d)' = Card(d) /\ Target(d)' = Target(d)
  BY DEF Kind, Card, Target
<1>3. {"deleteTask", "editTask"} \subseteq TaskKinds /\ "moveTask" \in TaskKinds
  BY DEF TaskKinds
<1>4. Fresh(r.version, k, B)'
  BY <1>1, <1>2, <1>3 DEF SyncPlace, Fresh
<1>5. Edited(k, A) => Edited(k, B)'
  BY <1>1, <1>2, <1>3 DEF Edited
<1>6. board.cards[k] = Gone => Doomed(r, k, B, o)'
  <2> SUFFICES ASSUME board.cards[k] = Gone PROVE Doomed(r, k, B, o)'
    OBVIOUS
  <2>1. Doomed(r, k, A, open)
    BY DEF SyncPlace
  <2>2. OnCard(A, {"deleteTask", "editTask"}, k) => OnCard(B, {"deleteTask", "editTask"}, k)'
    BY <1>2, <1>3 DEF OnCard
  <2>3. ASSUME NEW d \in A, Kind(d) = "moveTask", Card(d) = k, payload[d].version > r.version
        PROVE  d \in B /\ Kind(d)' = "moveTask" /\ Card(d)' = k /\ payload'[d].version > r.version
    BY <1>2, <1>3, <2>3
  <2> QED
    BY <2>1, <2>2, <2>3 DEF Doomed
<1>7. board.cards[k] # Gone => SyncRow(r, k, B, o)'
  <2> SUFFICES ASSUME board.cards[k] # Gone PROVE SyncRow(r, k, B, o)'
    OBVIOUS
  <2>1. SyncRow(r, k, A, open)
    BY DEF SyncPlace
  <2> QED
    BY <1>1, <1>2, <1>5, <2>1 DEF SyncRow
<1>8. \A d \in Committed : Kind(d) = "deleteTask" /\ Card(d) = k => d \in B
  BY <1>3 DEF SyncPlace
<1> QED
  BY <1>1, <1>2, <1>4, <1>6, <1>7, <1>8 DEF SyncPlace, NoLess

LEMMA TextStays ==
  ASSUME UNCHANGED <<board, order, body>>, NEW A, NEW B, NEW open, NEW o, NEW k, NEW r,
         SyncText(r, k, A, open),
         \A d \in A : Kind(d) \in TaskKinds /\ Card(d) = k => d \in B,
         \A q \in open \ o : q \in Committed \/ Kind(q) = "moveTask"
  PROVE  SyncText(r, k, B, o)'
<1>1. Committed' = Committed
  BY SameHistory
<1>2. \A d : Kind(d)' = Kind(d) /\ Card(d)' = Card(d)
  BY DEF Kind, Card
<1>3. /\ OnCard(A, {"createTask", "editTask"}, k) => OnCard(B, {"createTask", "editTask"}, k)'
      /\ OnCard(open \ Committed, {"editTask"}, k) => OnCard(o \ Committed, {"editTask"}, k)'
  BY <1>1, <1>2 DEF OnCard, TaskKinds
<1> QED
  BY <1>3 DEF SyncText

LEMMA MissingStays ==
  ASSUME UNCHANGED <<board, order, body>>, NEW A, NEW B, NEW open, NEW o, NEW H, NEW J, H \subseteq J,
         NEW k,
         Missing(k, A, H, open),
         \A d \in A : Kind(d) \in TaskKinds /\ Card(d) = k => d \in B,
         \A e \in A : Kind(e) = "createColumn" /\ (\E d \in H : Later(d, e) /\ Undoes(e, d)) => e \in B,
         newest[k] \in open => newest[k] \in o /\ newest'[k] = newest[k],
         \A q \in open \ o : q \in Committed \/ Kind(q) = "moveTask"
  PROVE  Missing(k, B, J, o)'
<1>1. /\ Committed' = Committed
      /\ \A d, e : Later(d, e)' <=> Later(d, e)
      /\ \A d, e : Undoes(e, d)' <=> Undoes(e, d)
  BY SameHistory
<1>2. \A d : Kind(d)' = Kind(d) /\ Card(d)' = Card(d) /\ Target(d)' = Target(d)
  BY DEF Kind, Card, Target
<1> DEFINE x == board.cards[k].column
<1>3. /\ OnCard(A, {"createTask", "editTask", "moveTask"}, k) => OnCard(B, {"createTask", "editTask", "moveTask"}, k)'
      /\ OnCard(open \ Committed, {"deleteTask"}, k) => OnCard(o \ Committed, {"deleteTask"}, k)'
      /\ OnColumn(open \ Committed, {"deleteColumn"}, x) => OnColumn(o \ Committed, {"deleteColumn"}, x)'
  BY <1>1, <1>2 DEF OnCard, OnColumn, TaskKinds
<1>4. ASSUME NEW e \in A, Kind(e) = "createColumn", Target(e) = x, NEW d \in H, Later(d, e), Undoes(e, d)
      PROVE  Missing(k, B, J, o)'
  <2>1. e \in B /\ d \in J /\ Later(d, e)' /\ Undoes(e, d)' /\ Kind(e)' = "createColumn" /\ Target(e)' = x'
    BY <1>1, <1>2, <1>4
  <2> QED
    BY <2>1 DEF Missing
<1>5. ASSUME newest[k] \in open \ Committed PROVE Missing(k, B, J, o)'
  BY <1>1, <1>5 DEF Missing
<1>6. ASSUME newest[k] \in open, NEW d \in H, Kind(d) = "moveTask", Card(d) = k, Later(d, newest[k])
      PROVE  Missing(k, B, J, o)'
  <2>1. newest'[k] = newest[k] /\ newest'[k] \in o /\ d \in J /\ Kind(d)' = "moveTask" /\ Card(d)' = k
    BY <1>2, <1>6
  <2>2. \A e, f : e = d /\ f = newest'[k] => Later(e, f)'
    BY <1>1, <1>6, <2>1
  <2> QED
    BY <1>6, <2>1, <2>2 DEF Missing
<1> QED
  BY <1>3, <1>4, <1>5, <1>6 DEF Missing
-----------------------------------------------------------------------------

LEMMA CardStays ==
  ASSUME UNCHANGED <<board, order, body>>, \A d \in Committed : payload'[d] = payload[d],
         NEW A, A \subseteq Committed, NEW B, NEW open, NEW o, NEW H, NEW J, H \subseteq J,
         NEW k, NEW r,
         SyncCard(r, k, A, H, open),
         \A d \in A : Kind(d) \in TaskKinds /\ Card(d) = k => d \in B,
         \A e \in A : Kind(e) = "createColumn" /\ (\E d \in H : Later(d, e) /\ Undoes(e, d)) => e \in B,
         newest[k] \in open => newest[k] \in o /\ newest'[k] = newest[k],
         \A q \in open \ o : q \in Committed \/ Kind(q) = "moveTask"
  PROVE  SyncCard(r, k, B, J, o)'
<1>1. CASE r # Gone
  <2>1. SyncPlace(r, k, A, open) /\ SyncText(r, k, A, open)
    BY <1>1 DEF SyncCard
  <2>2. SyncPlace(r, k, B, o)'
    BY <2>1, PlaceStays
  <2>3. SyncText(r, k, B, o)'
    BY <2>1, TextStays
  <2> QED
    BY <1>1, <2>2, <2>3 DEF SyncCard
<1>2. CASE r = Gone /\ board.cards[k] # Gone
  <2>1. Missing(k, A, H, open)
    BY <1>2 DEF SyncCard
  <2>2. Missing(k, B, J, o)'
    BY <2>1, MissingStays
  <2> QED
    BY <1>2, <2>2 DEF SyncCard
<1>3. CASE r = Gone /\ board.cards[k] = Gone
  BY <1>3 DEF SyncCard
<1> QED
  BY <1>1, <1>2, <1>3

\* What is behind the card is behind a move that is still to come.
LEMMA BehindMove ==
  ASSUME TInv, HistoryInv, NEW k \in Cards, board.cards[k] # Gone,
         NEW v \in Nat, v < board.cards[k].version, NoLess(v, k), NEW A, Fresh(v, k, A)
  PROVE  \E d \in A : /\ d \in Committed /\ Kind(d) = "moveTask" /\ Card(d) = k
                      /\ payload[d].version = board.cards[k].version
<1>1. CardInv(k) /\ board.cards[k].version \in Nat
  BY BoardFacts, RowFields DEF HistoryInv, TInv, ServerOK
<1>2. CASE InitialBoard.cards[k] # Gone /\ board.cards[k].version = InitialBoard.cards[k].version
  BY <1>1, <1>2 DEF NoLess
<1>3. CASE \E d \in Committed : /\ Kind(d) \in {"createTask", "moveTask"} /\ Card(d) = k
                                /\ payload[d].version = board.cards[k].version
                                /\ Kind(d) = "createTask" => board.cards[k].version = 0
  <2>1. PICK d \in Committed : /\ Kind(d) \in {"createTask", "moveTask"} /\ Card(d) = k
                               /\ payload[d].version = board.cards[k].version
                               /\ Kind(d) = "createTask" => board.cards[k].version = 0
    BY <1>3
  <2>2. Kind(d) = "moveTask"
    BY <1>1, <2>1
  <2>3. d \in A
    <3>1. SUFFICES ASSUME d \notin A PROVE FALSE
      OBVIOUS
    <3>2. payload[d].version <= v
      BY <2>1, <2>2, <3>1 DEF Fresh
    <3> QED
      BY <1>1, <2>1, <3>2
  <2> QED
    BY <2>1, <2>2, <2>3
<1> QED
  BY <1>1, <1>2, <1>3 DEF CardInv

\* The board is a copy of itself.
LEMMA OwnPlace ==
  ASSUME TInv, HistoryInv, NEW k \in Cards, board.cards[k] # Gone, NEW A, NEW open
  PROVE  SyncPlace(board.cards[k], k, A, open) /\ SyncText(board.cards[k], k, A, open)
<1>1. /\ CardInv(k) /\ board.cards[k].column \in Columns /\ board.cols[board.cards[k].column] # Gone
  BY BoardFacts, RowFields DEF HistoryInv, TInv, ServerOK
<1>2. BornColumn(board.cards[k].column)
  BY <1>1 DEF HistoryInv, ColumnInv
<1>3. Fresh(board.cards[k].version, k, A)
  BY DEF Fresh, HistoryInv, PayloadInv, CardPayload
<1>4. \A d \in Committed : ~(Kind(d) = "deleteTask" /\ Card(d) = k)
  BY <1>1 DEF CardInv, OnCard
<1> QED
  BY <1>1, <1>2, <1>3, <1>4 DEF SyncPlace, SyncRow, SyncText, CardInv

LEMMA OwnColumn ==
  ASSUME TInv, HistoryInv, NEW x \in Columns, NEW A, NEW open
  PROVE  SyncColumn(board.cols[x], x, A, open)
  BY DEF SyncColumn, HistoryInv, ColumnInv

\* A card of a column that the copy does not have is brought, or will be missed.
LEMMA NoColumn ==
  ASSUME TInv, HistoryInv, NEW k \in Cards, board.cards[k] # Gone,
         NEW A, A \subseteq Committed, NEW H, NEW open, SyncColumn(Gone, board.cards[k].column, A, open),
         Committed \subseteq A \cup H
  PROVE  Missing(k, A, H, open)
<1> DEFINE x == board.cards[k].column
<1>1. CardInv(k) /\ x \in Columns /\ board.cols[x] # Gone
  BY BoardFacts, RowFields DEF HistoryInv, TInv, ServerOK
<1>2. CASE OnColumn(open \ Committed, {"deleteColumn"}, x)
  BY <1>2 DEF Missing
<1>3. ASSUME NEW e \in A, Kind(e) = "createColumn", Target(e) = x PROVE Missing(k, A, H, open)
  <2>1. PICK d \in Committed : /\ Kind(d) \in {"createTask", "moveTask"} /\ Card(d) = k
                               /\ Later(d, e) /\ Target(d) = x
    BY <1>1, <1>3 DEF CardInv
  <2>2. CASE d \in A
    BY <2>1, <2>2 DEF Missing, OnCard
  <2>3. CASE d \in H
    <3>1. Undoes(e, d)
      BY <1>3, <2>1 DEF Undoes
    <3> QED
      BY <1>3, <2>1, <2>3, <3>1 DEF Missing
  <2> QED
    BY <2>2, <2>3
<1> QED
  BY <1>1, <1>2, <1>3 DEF SyncColumn, OnColumn
-----------------------------------------------------------------------------

LEMMA CommitNames ==
  ASSUME TInv, HistoryInv, NEW c \in Calls, Commit(c)
  PROVE  /\ Committed' = Committed \cup {c} /\ c \notin Committed /\ newest' = newest
         /\ \A d \in Committed : payload'[d] = payload[d]
         /\ \A d, e : Later(d, e) => Later(d, e)'
         /\ \A e \in Committed : Later(c, e)'
         /\ \A d : Kind(d)' = Kind(d) /\ Card(d)' = Card(d) /\ Target(d)' = Target(d)
         /\ \A d, e : Undoes(e, d)' <=> Undoes(e, d)
         /\ \A k : Born(k) => Born(k)'
         /\ \A x : BornColumn(x) => BornColumn(x)'
<1>1. /\ body' = body /\ Committed \subseteq Calls
      /\ Committed' = Committed \cup {c} /\ c \notin Committed
      /\ \A d \in Committed : payload'[d] = payload[d]
      /\ \A d, e : Later(d, e) => Later(d, e)'
      /\ \A e \in Committed : Later(c, e)'
  BY CommitFacts
<1>2. newest' = newest
  BY DEF Commit, page
<1>3. \A d : Kind(d)' = Kind(d) /\ Card(d)' = Card(d) /\ Target(d)' = Target(d)
  BY <1>1 DEF Kind, Card, Target
<1>4. \A d, e : Undoes(e, d)' <=> Undoes(e, d)
  BY <1>1 DEF Undoes, Reranks, Kind, Card, Target
<1>5. /\ \A k : Born(k) => Born(k)'
      /\ \A x : BornColumn(x) => BornColumn(x)'
  BY <1>1, BornKept
<1> QED
  BY <1>1, <1>2, <1>3, <1>4, <1>5

\* With the call to come that the commit announces, a column's copy stays one.
LEMMA CommitColumnSync ==
  ASSUME TInv, HistoryInv, NEW c \in Calls, Commit(c), ~body[c].respaces, NEW x \in Columns,
         NEW A, A \subseteq Committed, NEW B, A \subseteq B, c \in B, NEW open, NEW r,
         SyncColumn(r, x, A, open)
  PROVE  SyncColumn(r, x, B, open)'
<1> DEFINE t == board.cols[x]
           u == board'.cols[x]
<1>1. /\ Committed' = Committed \cup {c} /\ c \notin Committed
      /\ \A d : Kind(d)' = Kind(d) /\ Card(d)' = Card(d) /\ Target(d)' = Target(d)
      /\ BornColumn(x) => BornColumn(x)'
  BY CommitNames
<1>2. /\ Kind(c) = "createColumn" /\ Target(c) = x => t = Gone
      /\ Kind(c) = "deleteColumn" /\ Target(c) = x => u = Gone
      /\ \/ Kind(c) \in ColumnKinds /\ Target(c) = x
         \/ u = Gone /\ t = Gone
         \/ u # Gone /\ t # Gone /\ u.title = t.title /\ u.rank = t.rank
      /\ Kind(c) = "renameColumn" /\ Target(c) = x => t # Gone /\ u # Gone /\ u.rank = t.rank
      /\ Kind(c) = "moveColumn" /\ Target(c) = x => t # Gone /\ u # Gone /\ u.title = t.title
      /\ Kind(c) = "deleteColumn" /\ Target(c) = x => t # Gone
  BY CommitColumns DEF ColumnEffect
<1>3. \A K : OnColumn(A, K, x) => OnColumn(B, K, x)'
  BY <1>1 DEF OnColumn
<1>4. \A K : OnColumn(open \ Committed, K, x) =>
        OnColumn(open \ Committed, K, x)' \/ (Kind(c) \in K /\ Target(c) = x)
  BY <1>1 DEF OnColumn
<1>5. \A K : Kind(c) \in K /\ Target(c) = x => OnColumn(B, K, x)'
  BY <1>1 DEF OnColumn
<1> HIDE DEF t, u
<1>6. CASE Kind(c) \in ColumnKinds /\ Target(c) = x
  BY <1>1, <1>2, <1>3, <1>4, <1>5, <1>6 DEF SyncColumn, ColumnKinds, t, u
<1>7. CASE ~(Kind(c) \in ColumnKinds /\ Target(c) = x)
  BY <1>1, <1>2, <1>3, <1>4, <1>7 DEF SyncColumn, ColumnKinds, t, u
<1> QED
  BY <1>6, <1>7
-----------------------------------------------------------------------------

LEMMA CommitRow ==
  ASSUME TInv, HistoryInv, NEW c \in Calls, Commit(c), ~body[c].respaces, NEW k \in Cards,
         NEW t, t = board.cards[k], NEW STATE u, u = board'.cards[k]
  PROVE  /\ t # Gone => t.version \in Nat /\ t.column \in Columns
         /\ t = Gone /\ u # Gone => Kind(c) = "createTask" /\ Card(c) = k
         /\ t # Gone /\ u = Gone =>
              \/ Kind(c) = "deleteTask" /\ Card(c) = k
              \/ Kind(c) = "deleteColumn" /\ board'.cols[t.column] = Gone
         /\ t # Gone /\ u # Gone =>
              /\ \/ Kind(c) = "moveTask" /\ Card(c) = k /\ u.column = Target(c) /\ u.version = t.version + 1
                 \/ /\ ~(Kind(c) = "moveTask" /\ Card(c) = k)
                    /\ u.column = t.column /\ u.version = t.version /\ u.rank = t.rank
              /\ u.text = t.text \/ (Kind(c) = "editTask" /\ Card(c) = k)
         /\ Kind(c) = "deleteTask" /\ Card(c) = k => u = Gone
         /\ Kind(c) = "deleteColumn" /\ t # Gone /\ t.column = Target(c) => u = Gone
<1>1. /\ t # Gone => CardRow(t)
      /\ Kind(c) \in TaskKinds \cup ColumnKinds
  BY BoardFacts, BodyFacts DEF TInv, ServerOK
<1>2. t # Gone => t.version \in Nat /\ t.column \in Columns
  BY <1>1, RowFields
<1>3. CardEffect(c, k, t, u)
  BY CommitCards
<1>4. ASSUME t # Gone, Kind(c) = "deleteColumn", t.column = Target(c) PROVE board'.cols[t.column] = Gone
  BY <1>2, <1>4, CommitColumns DEF ColumnEffect
<1>5. CASE Kind(c) \in TaskKinds /\ Card(c) = k
  <2>1. CASE Kind(c) = "createTask"
    BY <1>2, <1>3, <1>5, <2>1 DEF CardEffect
  <2>2. CASE Kind(c) = "deleteTask"
    BY <1>2, <1>3, <1>5, <2>2 DEF CardEffect
  <2>3. CASE Kind(c) \in {"editTask", "moveTask"}
    <3>1. CardRow(t) /\ CardRow(u)
      BY <1>3, <1>5, <2>3 DEF CardEffect
    <3>2. t # Gone /\ u # Gone
      BY <3>1, RowFields
    <3> QED
      BY <1>2, <1>3, <1>5, <2>3, <3>2 DEF CardEffect
  <2> QED
    BY <1>5, <2>1, <2>2, <2>3 DEF TaskKinds
<1>6. CASE ~(Kind(c) \in TaskKinds /\ Card(c) = k)
  <2>1. \/ Kind(c) = "deleteColumn" /\ t # Gone /\ t.column = Target(c) /\ u = Gone
        \/ /\ u = Gone <=> t = Gone
           /\ t # Gone => u.column = t.column /\ u.version = t.version /\ u.text = t.text /\ u.rank = t.rank
    BY <1>3, <1>6 DEF CardEffect, TaskKinds
  <2>2. Kind(c) = "deleteColumn" /\ t # Gone /\ t.column = Target(c) => u = Gone
    BY <1>3 DEF CardEffect
  <2> QED
    BY <1>2, <1>4, <1>6, <2>1, <2>2 DEF TaskKinds
<1> QED
  BY <1>5, <1>6

LEMMA CommitPlace ==
  ASSUME TInv, HistoryInv, NewestInv, NEW c \in Calls, Commit(c), ~body[c].respaces, NEW k \in Cards,
         NEW A, A \subseteq Committed, NEW B, A \subseteq B, c \in B, NEW open, NEW r \in CardRows,
         SyncPlace(r, k, A, open)
  PROVE  SyncPlace(r, k, B, open)'
<1> DEFINE t == board.cards[k]
           u == board'.cards[k]
           m == newest[k]
<1>1. /\ Committed' = Committed \cup {c} /\ c \notin Committed /\ newest' = newest
      /\ \A d \in Committed : payload'[d] = payload[d]
      /\ \A d, e : Later(d, e) => Later(d, e)'
      /\ \A e \in Committed : Later(c, e)'
      /\ \A d : Kind(d)' = Kind(d) /\ Card(d)' = Card(d) /\ Target(d)' = Target(d)
      /\ Born(k) => Born(k)'
      /\ \A x : BornColumn(x) => BornColumn(x)'
  BY CommitNames
<1>2. /\ t # Gone => t.version \in Nat /\ t.column \in Columns
      /\ t = Gone /\ u # Gone => Kind(c) = "createTask" /\ Card(c) = k
      /\ t # Gone /\ u = Gone =>
           \/ Kind(c) = "deleteTask" /\ Card(c) = k
           \/ Kind(c) = "deleteColumn" /\ board'.cols[t.column] = Gone
      /\ t # Gone /\ u # Gone =>
           /\ \/ Kind(c) = "moveTask" /\ Card(c) = k /\ u.column = Target(c) /\ u.version = t.version + 1
              \/ /\ ~(Kind(c) = "moveTask" /\ Card(c) = k)
                 /\ u.column = t.column /\ u.version = t.version /\ u.rank = t.rank
           /\ u.text = t.text \/ (Kind(c) = "editTask" /\ Card(c) = k)
      /\ Kind(c) = "deleteTask" /\ Card(c) = k => u = Gone
      /\ Kind(c) = "deleteColumn" /\ t # Gone /\ t.column = Target(c) => u = Gone
  BY CommitRow
<1>3. r.column \in Columns /\ r.version \in Nat
  BY DEF CardRows
<1>4. /\ Born(k) /\ BornColumn(r.column) /\ NoLess(r.version, k)
      /\ \A d \in Committed : Kind(d) = "deleteTask" /\ Card(d) = k => d \in A
      /\ Fresh(r.version, k, A)
      /\ t = Gone => Doomed(r, k, A, open)
      /\ t # Gone => SyncRow(r, k, A, open)
  BY DEF SyncPlace
<1>5. m # Gone => m # c \/ (Kind(c) = "moveTask" /\ Card(c) = k)
  BY DEF NewestInv
<1> HIDE DEF t, u, m
<1>6. Fresh(r.version, k, B)'
  BY <1>1, <1>4 DEF Fresh
<1>7. u = Gone => Doomed(r, k, B, open)'
  <2>0. \A K : OnCard(A, K, k) => OnCard(B, K, k)'
    BY <1>1 DEF OnCard
  <2>1. CASE t = Gone
    <3>1. Doomed(r, k, A, open)
      BY <1>4, <2>1
    <3>2. board.cols[r.column] = Gone => board'.cols[r.column] = Gone
      <4> SUFFICES ASSUME board.cols[r.column] = Gone, board'.cols[r.column] # Gone PROVE FALSE
        OBVIOUS
      <4>1. ColumnEffect(c, r.column, board.cols[r.column], board'.cols[r.column])
        BY <1>3, CommitColumns
      <4>2. Kind(c) = "createColumn" /\ Target(c) = r.column
        BY <4>1 DEF ColumnEffect, ColumnKinds
      <4> QED
        BY <1>1, <1>4, <4>2, NewIsUnborn DEF TInv, ServerOK, Accepted
    <3>3. ASSUME NEW d \in A, Kind(d) = "moveTask", Card(d) = k, payload[d].version > r.version
          PROVE  d \in B /\ Kind(d)' = "moveTask" /\ Card(d)' = k /\ payload'[d].version > r.version
      BY <1>1, <3>3
    <3> QED
      BY <1>1, <2>0, <3>1, <3>2, <3>3 DEF Doomed
  <2>2. CASE t # Gone /\ u = Gone
    <3>1. CASE Kind(c) = "deleteTask" /\ Card(c) = k
      BY <1>1, <3>1 DEF Doomed, OnCard
    <3>2. CASE Kind(c) = "deleteColumn" /\ board'.cols[t.column] = Gone
      <4>1. CASE r.version < t.version
        <5>1. PICK d \in A : d \in Committed /\ Kind(d) = "moveTask" /\ Card(d) = k /\ payload[d].version = t.version
          BY <1>3, <1>4, <2>2, <4>1, BehindMove DEF t
        <5>2. d \in B /\ Kind(d)' = "moveTask" /\ Card(d)' = k /\ payload'[d].version > r.version
          BY <1>1, <1>2, <1>3, <2>2, <4>1, <5>1
        <5> QED
          BY <5>2 DEF Doomed
      <4>2. CASE r.column = t.column
        BY <3>2, <4>2 DEF Doomed
      <4>3. CASE Edited(k, A)
        <5>1. OnCard(A, {"deleteTask", "editTask"}, k)
          BY <4>3 DEF Edited, OnCard
        <5> QED
          BY <2>0, <5>1 DEF Doomed
      <4>4. CASE m \in open
        BY <1>1, <4>4 DEF Doomed, m
      <4> QED
        BY <1>4, <2>2, <4>1, <4>2, <4>3, <4>4 DEF SyncRow, t, m
    <3> QED
      BY <1>2, <2>2, <3>1, <3>2
  <2> QED
    BY <2>1, <2>2
<1>8. u # Gone => SyncRow(r, k, B, open)'
  <2> SUFFICES ASSUME u # Gone PROVE SyncRow(r, k, B, open)'
    OBVIOUS
  <2>1. t # Gone
    BY <1>1, <1>2, <1>4, NewIsUnborn DEF TInv, ServerOK, Accepted
  <2>2. SyncRow(r, k, A, open)
    BY <1>4, <2>1
  <2>3. CASE Kind(c) = "moveTask" /\ Card(c) = k /\ u.column = Target(c) /\ u.version = t.version + 1
    <3>1. CASE r.version <= t.version
      BY <1>2, <1>3, <2>1, <2>3, <3>1 DEF SyncRow, u
    <3>2. CASE m \in open \ Committed /\ r.column = Target(m)
      <4>1. CASE m = c
        BY <1>1, <2>3, <3>2, <4>1 DEF SyncRow, u, m
      <4>2. CASE m # c
        BY <1>1, <3>2, <4>2 DEF SyncRow, m
      <4> QED
        BY <4>1, <4>2
    <3>3. CASE m \in open \cap Committed
      BY <1>1, <2>3, <3>3 DEF SyncRow, m
    <3> QED
      BY <1>2, <1>3, <2>1, <2>2, <3>1, <3>2, <3>3 DEF SyncRow, t, m
  <2>4. CASE /\ u.column = t.column /\ u.version = t.version /\ u.rank = t.rank
             /\ ~(Kind(c) = "moveTask" /\ Card(c) = k)
    <3>1. Edited(k, A) => Edited(k, B)'
      BY <1>1, <2>4 DEF Edited, t, u
    <3>2. m \in open /\ m # Gone => m # c
      BY <1>5, <2>4
    <3>3. m \in open \ Committed => m \in open \ Committed'
      BY <1>1, <1>5, <2>4, IdAssumption
    <3> QED
      BY <1>1, <2>2, <2>4, <3>1, <3>3 DEF SyncRow, t, u, m
  <2> QED
    BY <1>2, <2>1, <2>3, <2>4
<1>9. \A d \in Committed' : Kind(d) = "deleteTask" /\ Card(d) = k => d \in B
  BY <1>1, <1>4
<1> QED
  BY <1>1, <1>4, <1>6, <1>7, <1>8, <1>9 DEF SyncPlace, NoLess, u
-----------------------------------------------------------------------------

LEMMA CommitText ==
  ASSUME TInv, HistoryInv, NEW c \in Calls, Commit(c), ~body[c].respaces, NEW k \in Cards,
         NEW A, A \subseteq Committed, NEW B, A \subseteq B, c \in B, NEW open, NEW r,
         SyncText(r, k, A, open)
  PROVE  SyncText(r, k, B, open)'
<1> DEFINE t == board.cards[k]
           u == board'.cards[k]
<1>1. /\ Committed' = Committed \cup {c}
      /\ \A d : Kind(d)' = Kind(d) /\ Card(d)' = Card(d)
  BY CommitNames
<1>2. /\ t = Gone /\ u # Gone => Kind(c) = "createTask" /\ Card(c) = k
      /\ t # Gone /\ u # Gone => u.text = t.text \/ (Kind(c) = "editTask" /\ Card(c) = k)
  BY CommitRow
<1>3. /\ OnCard(A, {"createTask", "editTask"}, k) => OnCard(B, {"createTask", "editTask"}, k)'
      /\ Kind(c) \in {"createTask", "editTask"} /\ Card(c) = k => OnCard(B, {"createTask", "editTask"}, k)'
      /\ OnCard(open \ Committed, {"editTask"}, k) =>
           OnCard(open \ Committed, {"editTask"}, k)' \/ (Kind(c) = "editTask" /\ Card(c) = k)
  BY <1>1 DEF OnCard
<1> HIDE DEF t, u
<1> QED
  BY <1>2, <1>3 DEF SyncText, t, u

LEMMA CommitMissing ==
  ASSUME TInv, HistoryInv, NewestInv, NEW c \in Calls, Commit(c), ~body[c].respaces, NEW k \in Cards,
         NEW A, A \subseteq Committed, NEW B, A \subseteq B, c \in B, NEW open, NEW H,
         board'.cards[k] # Gone, board.cards[k] # Gone => Missing(k, A, H, open)
  PROVE  Missing(k, B, H, open)'
<1> DEFINE t == board.cards[k]
           u == board'.cards[k]
           m == newest[k]
<1>1. /\ Committed' = Committed \cup {c} /\ c \notin Committed /\ newest' = newest
      /\ \A d, e : Later(d, e) => Later(d, e)'
      /\ \A d : Kind(d)' = Kind(d) /\ Card(d)' = Card(d) /\ Target(d)' = Target(d)
      /\ \A d, e : Undoes(e, d)' <=> Undoes(e, d)
  BY CommitNames
<1>2. /\ t = Gone /\ u # Gone => Kind(c) = "createTask" /\ Card(c) = k
      /\ t # Gone /\ u # Gone =>
           \/ Kind(c) = "moveTask" /\ Card(c) = k
           \/ u.column = t.column
      /\ Kind(c) = "deleteTask" /\ Card(c) = k => u = Gone
      /\ Kind(c) = "deleteColumn" /\ t # Gone /\ t.column = Target(c) => u = Gone
  BY CommitRow
<1>3. m # Gone => m # c \/ (Kind(c) = "moveTask" /\ Card(c) = k)
  BY DEF NewestInv
<1> HIDE DEF t, u, m
<1>4. CASE Kind(c) \in {"createTask", "moveTask"} /\ Card(c) = k
  <2>1. OnCard(B, {"createTask", "editTask", "moveTask"}, k)'
    BY <1>1, <1>4 DEF OnCard
  <2> QED
    BY <2>1 DEF Missing
<1>5. CASE ~(Kind(c) \in {"createTask", "moveTask"} /\ Card(c) = k)
  <2>1. u # Gone /\ t # Gone /\ u.column = t.column /\ Missing(k, A, H, open)
    BY <1>2, <1>5 DEF t, u
  <2>2. OnCard(A, {"createTask", "editTask", "moveTask"}, k) => OnCard(B, {"createTask", "editTask", "moveTask"}, k)'
    BY <1>1 DEF OnCard
  <2>3. OnCard(open \ Committed, {"deleteTask"}, k) => OnCard(open \ Committed, {"deleteTask"}, k)'
    BY <1>1, <1>2, <2>1 DEF OnCard
  <2>4. OnColumn(open \ Committed, {"deleteColumn"}, t.column) =>
          \E e \in open \ Committed' : Kind(e)' = "deleteColumn" /\ Target(e)' = u.column
    BY <1>1, <1>2, <2>1 DEF OnColumn
  <2>5. ASSUME NEW e \in A, Kind(e) = "createColumn", Target(e) = t.column, NEW d \in H, Later(d, e), Undoes(e, d)
        PROVE  Missing(k, B, H, open)'
    <3>1. e \in B /\ Later(d, e)' /\ Undoes(e, d)' /\ Kind(e)' = "createColumn" /\ Target(e)' = u.column
      BY <1>1, <2>1, <2>5
    <3> QED
      BY <3>1 DEF Missing, u
  <2>6. ASSUME m \in open \ Committed PROVE Missing(k, B, H, open)'
    <3>1. m \notin Committed'
      BY <1>1, <1>3, <1>5, <2>6, IdAssumption
    <3> QED
      BY <1>1, <2>6, <3>1 DEF Missing, m
  <2>7. ASSUME m \in open, NEW d \in H, Kind(d) = "moveTask", Card(d) = k, Later(d, m)
        PROVE  Missing(k, B, H, open)'
    <3>1. newest'[k] \in open /\ Kind(d)' = "moveTask" /\ Card(d)' = k
      BY <1>1, <2>7 DEF m
    <3>2. Later(d, newest[k]) /\ newest'[k] = newest[k]
      BY <1>1, <2>7 DEF m
    <3>3. \A n : n = newest'[k] => Later(d, n)'
      BY <1>1, <3>2
    <3>4. Later(d, newest[k])'
      BY <3>3
    <3> QED
      BY <2>7, <3>1, <3>4 DEF Missing
  <2> QED
    BY <2>1, <2>2, <2>3, <2>4, <2>5, <2>6, <2>7 DEF Missing, OnColumn, t, u, m
<1> QED
  BY <1>4, <1>5

LEMMA CommitCardSync ==
  ASSUME TInv, HistoryInv, NewestInv, NEW c \in Calls, Commit(c), ~body[c].respaces, NEW k \in Cards,
         NEW A, A \subseteq Committed, NEW B, A \subseteq B, c \in B, NEW open, NEW H,
         NEW r, r = Gone \/ r \in CardRows,
         SyncCard(r, k, A, H, open)
  PROVE  SyncCard(r, k, B, H, open)'
<1>1. CASE r # Gone
  <2>1. r \in CardRows /\ SyncPlace(r, k, A, open) /\ SyncText(r, k, A, open)
    BY <1>1 DEF SyncCard
  <2>2. SyncPlace(r, k, B, open)'
    BY <2>1, CommitPlace
  <2>3. SyncText(r, k, B, open)'
    BY <2>1, CommitText
  <2> QED
    BY <1>1, <2>2, <2>3 DEF SyncCard
<1>2. CASE r = Gone
  <2>1. board.cards[k] # Gone => Missing(k, A, H, open)
    BY <1>2 DEF SyncCard
  <2>2. board'.cards[k] # Gone => Missing(k, B, H, open)'
    BY <2>1, CommitMissing
  <2> QED
    BY <1>2, <2>2 DEF SyncCard
<1> QED
  BY <1>1, <1>2
-----------------------------------------------------------------------------

LEMMA ComingFacts ==
  ASSUME TInv
  PROVE  Coming \subseteq Committed /\ Committed \subseteq Calls /\ told \subseteq Committed
  BY DEF Coming, TInv, ServerOK, Accepted

LEMMA CommitComing ==
  ASSUME TInv, HistoryInv, NEW c \in Calls, Commit(c)
  PROVE  /\ Coming' = Coming \cup {c} /\ Pending' = Pending
         /\ trouble' = {} => trouble = {} /\ ~body[c].respaces
         /\ UNCHANGED <<body, cache, snapshot, newest, answer, heard, touched, ignored>>
         /\ \A m \in Calls : stage'[m] = "conflict" => m # c /\ stage[m] = "conflict"
<1>1. /\ Committed' = Committed \cup {c} /\ c \notin Committed
      /\ told' = told /\ inbox' = inbox /\ c \notin told
      /\ UNCHANGED <<body, cache, snapshot, newest, answer, heard, touched, ignored>>
      /\ stage' = [stage EXCEPT ![c] = "committed"] /\ c \in DOMAIN stage
      /\ trouble' = trouble \cup (IF body[c].respaces THEN {"respaced"} ELSE {})
      /\ c \in Mine => stage[c] = "sent"
  BY CommitNames, ComingFacts DEF Commit, page, ghosts, wire, TInv, ServerOK, Arrived
<1>2. Coming' = Coming \cup {c}
  BY <1>1 DEF Coming
<1>3. Pending' = Pending
  <2>1. Mine' = Mine /\ \A m \in Mine : stage'[m] = "idle" <=> stage[m] = "idle"
    BY <1>1 DEF Mine, TInv, ServerOK
  <2> QED
    BY <1>1, <2>1 DEF Pending
<1>4. \A m \in Calls : stage'[m] = "conflict" => m # c /\ stage[m] = "conflict"
  BY <1>1
<1> QED
  BY <1>1, <1>2, <1>3, <1>4

LEMMA CommitCacheSync ==
  ASSUME TInv, HistoryInv, NewestInv, HeardInv, CacheSync, NEW c \in Calls, Commit(c)
  PROVE  HeardInv' /\ CacheSync'
<1>1. /\ Coming' = Coming \cup {c} /\ Pending' = Pending /\ Committed' = Committed \cup {c}
      /\ trouble' = {} => trouble = {} /\ ~body[c].respaces
      /\ body' = body /\ cache' = cache /\ heard' = heard
  BY CommitComing, CommitNames
<1>2. HeardInv'
  BY <1>1 DEF HeardInv
<1> SUFFICES ASSUME trouble' = {}, cache # NoBoard PROVE CacheSync'
  BY <1>1, <1>2 DEF CacheSync
<1>3. IsCopy(cache) /\ Coming \subseteq Committed
  BY ComingFacts DEF TInv, PageOK
<1>4. ASSUME NEW x \in Columns PROVE SyncColumn(cache.cols[x], x, Coming, Pending)'
  <2>1. SyncColumn(cache.cols[x], x, Coming, Pending)
    BY <1>1 DEF CacheSync
  <2>2. \A r, B, o : r = cache'.cols[x] /\ B = Coming' /\ o = Pending' => SyncColumn(r, x, B, o)'
    BY <1>1, <1>3, <2>1, CommitColumnSync
  <2> QED
    BY <2>2
<1>5. ASSUME NEW k \in Cards PROVE SyncCard(cache.cards[k], k, Coming, heard, Pending)'
  <2>1. SyncCard(cache.cards[k], k, Coming, heard, Pending)
    BY <1>1 DEF CacheSync
  <2>2. cache.cards[k] = Gone \/ cache.cards[k] \in CardRows
    BY <1>3, CopyDomains
  <2>3. \A r, B, H, o : r = cache'.cards[k] /\ B = Coming' /\ H = heard' /\ o = Pending' => SyncCard(r, k, B, H, o)'
    BY <1>1, <1>3, <2>1, <2>2, CommitCardSync
  <2> QED
    BY <2>3
<1> QED
  BY <1>1, <1>4, <1>5 DEF CacheSync

LEMMA CommitFetchSync ==
  ASSUME TInv, HistoryInv, NewestInv, FetchSync, NEW c \in Calls, Commit(c)
  PROVE  FetchSync'
<1>1. /\ Coming' = Coming \cup {c} /\ Committed' = Committed \cup {c} /\ c \notin Committed
      /\ body' = body /\ heard' = heard
  BY CommitComing, CommitNames
<1>2. /\ fetch'.stage = fetch.stage /\ fetch'.cols = fetch.cols /\ fetch'.cards = fetch.cards
      /\ fetch'.before = fetch.before /\ fetch'.read = fetch.read
      /\ fetch.stage \in {"half", "read"} /\ fetch'.missed = {} => fetch.missed = {} /\ ~body[c].respaces
  <2>1. DOMAIN fetch = {"stage", "cols", "cards", "before", "read", "missed"}
    BY DEF TInv, FetchOK
  <2>2. CASE fetch.stage \in {"half", "read"} /\ body[c].respaces
    <3>1. fetch' = [fetch EXCEPT !.missed = @ \cup {"respaced"}]
      BY <2>2 DEF Commit
    <3> QED
      BY <2>1, <2>2, <3>1
  <2>3. CASE ~(fetch.stage \in {"half", "read"} /\ body[c].respaces)
    <3>1. fetch' = fetch
      BY <2>3 DEF Commit
    <3> QED
      BY <2>3, <3>1
  <2> QED
    BY <2>2, <2>3
<1>3. ASSUME fetch'.stage \in {"half", "read"}, fetch'.missed = {}
      PROVE  /\ \A d \in Committed' \ fetch'.before : (d \in Coming' \/ d \in heard') /\ ~body'[d].respaces
             /\ \A x \in Columns : SyncColumn(fetch.cols[x], x, Committed \ fetch.before, {})'
  <2>1. fetch.missed = {} /\ ~body[c].respaces /\ fetch.before \subseteq Committed
    BY <1>2, <1>3 DEF TInv, FetchOK
  <2>2. \A d \in Committed' \ fetch'.before : (d \in Coming' \/ d \in heard') /\ ~body'[d].respaces
    BY <1>1, <1>2, <1>3, <2>1 DEF FetchSync
  <2>3. ASSUME NEW x \in Columns PROVE SyncColumn(fetch.cols[x], x, Committed \ fetch.before, {})'
    <3>1. SyncColumn(fetch.cols[x], x, Committed \ fetch.before, {})
      BY <1>2, <1>3, <2>1 DEF FetchSync
    <3>2. \A r, B : r = fetch'.cols[x] /\ B = Committed' \ fetch'.before => SyncColumn(r, x, B, {})'
      BY <1>1, <1>2, <2>1, <3>1, CommitColumnSync
    <3> QED
      BY <3>2
  <2> QED
    BY <2>2, <2>3
<1>4. ASSUME fetch'.stage = "read", fetch'.missed = {}, NEW k \in Cards
      PROVE  SyncCard(fetch.cards[k], k, Committed \ fetch.before, fetch.read, {})'
  <2>1. fetch.missed = {} /\ ~body[c].respaces /\ fetch.before \subseteq Committed /\ fetch.stage = "read"
    BY <1>2, <1>4 DEF TInv, FetchOK
  <2>2. SyncCard(fetch.cards[k], k, Committed \ fetch.before, fetch.read, {})
    BY <2>1 DEF FetchSync
  <2>3. fetch.cards[k] = Gone \/ fetch.cards[k] \in CardRows
    BY <2>1 DEF TInv, FetchOK, CardRow
  <2>4. \A r, B, H : r = fetch'.cards[k] /\ B = Committed' \ fetch'.before /\ H = fetch'.read => SyncCard(r, k, B, H, {})'
    BY <1>1, <1>2, <2>1, <2>2, <2>3, CommitCardSync
  <2> QED
    BY <2>4
<1> QED
  BY <1>3, <1>4 DEF FetchSync
-----------------------------------------------------------------------------

LEMMA SameMutate ==
  ASSUME body' = body
  PROVE  /\ \A b, m, q, s : MutateCard(b, m, q, s)' <=> MutateCard(b, m, q, s)
         /\ \A b, m, x, s : MutateColumn(b, m, x, s)' <=> MutateColumn(b, m, x, s)
  BY DEF MutateCard, MutateColumn, Kind, Card, Target, Moved

\* The page of one open call, as far as its snapshot goes.
LEMMA SameEstimate ==
  ASSUME UNCHANGED <<body, cache, snapshot>>, NEW m \in Calls,
         \A q \in Cards : MutateCard(snapshot[m], m, q, cache.cards[q]),
         \A x \in Columns : MutateColumn(snapshot[m], m, x, cache.cols[x])
  PROVE  /\ \A q \in Cards : MutateCard(snapshot[m], m, q, cache.cards[q])'
         /\ \A x \in Columns : MutateColumn(snapshot[m], m, x, cache.cols[x])'
<1>1. ASSUME NEW q \in Cards PROVE MutateCard(snapshot[m], m, q, cache.cards[q])'
  <2>1. \A b, s : b = snapshot'[m] /\ s = cache'.cards[q] => MutateCard(b, m, q, s)'
    BY SameMutate
  <2> QED
    BY <2>1
<1>2. ASSUME NEW x \in Columns PROVE MutateColumn(snapshot[m], m, x, cache.cols[x])'
  <2>1. \A b, s : b = snapshot'[m] /\ s = cache'.cols[x] => MutateColumn(b, m, x, s)'
    BY SameMutate
  <2> QED
    BY <2>1
<1> QED
  BY <1>1, <1>2

LEMMA CommitSnapshotSync ==
  ASSUME TInv, HistoryInv, NewestInv, SnapshotSync, NEW c \in Calls, Commit(c)
  PROVE  SnapshotSync'
<1>1. /\ Coming' = Coming \cup {c} /\ Pending' = Pending /\ Committed' = Committed \cup {c}
      /\ trouble' = {} => trouble = {} /\ ~body[c].respaces
      /\ UNCHANGED <<body, cache, snapshot, newest, answer, heard, touched, ignored>>
      /\ \A m \in Calls : stage'[m] = "conflict" => m # c /\ stage[m] = "conflict"
      /\ \A d : Kind(d)' = Kind(d) /\ Card(d)' = Card(d) /\ Target(d)' = Target(d)
      /\ \A d \in Committed : payload'[d] = payload[d]
  BY CommitComing, CommitNames
<1>2. \A d \in Calls \ {c} : payload'[d] = payload[d]
  BY DEF Commit, TInv, ServerOK
<1> SUFFICES ASSUME trouble' = {}, NEW m \in Pending \ touched PROVE Restorable(m)'
  BY <1>1 DEF SnapshotSync
<1>3. /\ m \in Calls /\ IsCopy(snapshot[m]) /\ Restorable(m) /\ Coming \subseteq Committed /\ BodyOK
      /\ trouble = {} /\ ~body[c].respaces
  BY <1>1, ComingFacts DEF Pending, Mine, TInv, PageOK, ServerOK, SnapshotSync
<1>4. /\ Pending' = {m}
      /\ \A q \in Cards : MutateCard(snapshot[m], m, q, cache.cards[q])'
      /\ \A x \in Columns : MutateColumn(snapshot[m], m, x, cache.cols[x])'
  BY <1>1, <1>3, SameEstimate DEF Restorable
<1>5. ASSUME m \notin ignored, NEW x \in Columns PROVE SyncColumn(snapshot[m].cols[x], x, Coming, {})'
  <2>1. SyncColumn(snapshot[m].cols[x], x, Coming, {})
    BY <1>3, <1>5 DEF Restorable
  <2>2. \A r, B : r = snapshot'[m].cols[x] /\ B = Coming' => SyncColumn(r, x, B, {})'
    BY <1>1, <1>3, <2>1, CommitColumnSync
  <2> QED
    BY <2>2
<1>6. ASSUME m \notin ignored, NEW q \in Cards PROVE SyncCard(snapshot[m].cards[q], q, Coming, heard, {})'
  <2>1. SyncCard(snapshot[m].cards[q], q, Coming, heard, {})
    BY <1>3, <1>6 DEF Restorable
  <2>2. snapshot[m].cards[q] = Gone \/ snapshot[m].cards[q] \in CardRows
    BY <1>3, CopyDomains
  <2>3. \A r, B, H : r = snapshot'[m].cards[q] /\ B = Coming' /\ H = heard' => SyncCard(r, q, B, H, {})'
    BY <1>1, <1>3, <2>1, <2>2, CommitCardSync
  <2> QED
    BY <2>3
<1>7. ASSUME Kind(m) = "moveTask"
      PROVE  /\ newest'[Card(m)] = m
             /\ stage'[m] = "conflict" => SyncPlace(payload[m], Card(m), Coming \cup Seen(m), {})'
  <2>1. newest'[Card(m)] = m
    BY <1>1, <1>3, <1>7 DEF Restorable
  <2>2. ASSUME stage'[m] = "conflict" PROVE SyncPlace(payload[m], Card(m), Coming \cup Seen(m), {})'
    <3> DEFINE k == Card(m)
    <3>1. m # c /\ stage[m] = "conflict" /\ payload'[m] = payload[m] /\ payload[m] \in CardRows /\ k \in Cards
      BY <1>1, <1>2, <1>3, <1>7, <2>2, BodyFacts DEF TInv, ServerOK, PayloadOK, CardRow, TaskKinds
    <3>2. SyncPlace(payload[m], k, Coming \cup Seen(m), {})
      BY <1>3, <1>7, <3>1 DEF Restorable
    <3>3. Seen(m) \subseteq Committed /\ Seen(m) \subseteq Seen(m)'
      BY <1>1 DEF Seen
    <3>4. \A r, q, B : r = payload'[m] /\ q = k /\ B = Coming' \cup Seen(m)' => SyncPlace(r, q, B, {})'
      BY <1>1, <1>3, <3>1, <3>2, <3>3, CommitPlace
    <3>5. k' = k
      BY <1>1
    <3> QED
      BY <3>4, <3>5
  <2> QED
    BY <2>1, <2>2
<1>8. /\ stage' = stage' /\ Kind(m)' = Kind(m) /\ Card(m)' = Card(m) /\ ignored' = ignored
  BY <1>1
<1> QED
  BY <1>4, <1>5, <1>6, <1>7, <1>8 DEF Restorable
-----------------------------------------------------------------------------

\* Steps of the server, the wire and the refetch that change neither the board nor the page.
LEMMA CacheSyncKept ==
  ASSUME TInv, HeardInv, CacheSync, UNCHANGED <<board, order, body, cache, newest, heard>>,
         \A d \in Committed : payload'[d] = payload[d], Pending' = Pending,
         trouble' = {} => trouble = {} /\ Coming' = Coming
  PROVE  HeardInv' /\ CacheSync'
<1>1. Committed' = Committed /\ Coming \subseteq Committed
  BY SameHistory, ComingFacts
<1>2. HeardInv'
  BY <1>1 DEF HeardInv
<1> SUFFICES ASSUME trouble' = {}, cache # NoBoard PROVE CacheSync'
  BY <1>2 DEF CacheSync
<1>3. trouble = {} /\ Coming' = Coming
  OBVIOUS
<1>4. ASSUME NEW x \in Columns PROVE SyncColumn(cache.cols[x], x, Coming, Pending)'
  <2>1. SyncColumn(cache.cols[x], x, Coming, Pending)
    BY <1>3 DEF CacheSync
  <2>2. \A r, B, o : r = cache'.cols[x] /\ B = Coming' /\ o = Pending' => SyncColumn(r, x, B, o)'
    BY <1>3, <2>1, ColumnStays
  <2> QED
    BY <2>2
<1>5. ASSUME NEW k \in Cards PROVE SyncCard(cache.cards[k], k, Coming, heard, Pending)'
  <2>1. SyncCard(cache.cards[k], k, Coming, heard, Pending)
    BY <1>3 DEF CacheSync
  <2>2. newest'[k] = newest[k]
    OBVIOUS
  <2>3. \A r, B, H, o : r = cache'.cards[k] /\ B = Coming' /\ H = heard' /\ o = Pending' => SyncCard(r, k, B, H, o)'
    BY <1>1, <1>3, <2>1, <2>2, CardStays
  <2> QED
    BY <2>3
<1> QED
  BY <1>4, <1>5 DEF CacheSync

LEMMA FetchSyncKept ==
  ASSUME TInv, FetchSync, UNCHANGED <<board, order, body>>,
         \A d \in Committed : payload'[d] = payload[d], newest' = newest, heard \subseteq heard',
         fetch'.stage \in {"half", "read"} /\ fetch'.missed = {} =>
           /\ fetch.stage = fetch'.stage /\ fetch.cols = fetch'.cols /\ fetch.cards = fetch'.cards
           /\ fetch.before = fetch'.before /\ fetch.read = fetch'.read /\ fetch.missed = {}
           /\ \A d \in Coming \ fetch.before : d \in Coming' \/ d \in heard'
  PROVE  FetchSync'
<1>1. Committed' = Committed
  BY SameHistory
<1> SUFFICES ASSUME fetch'.stage \in {"half", "read"}, fetch'.missed = {} PROVE FetchSync'
  BY DEF FetchSync
<1>2. /\ fetch.stage = fetch'.stage /\ fetch.cols = fetch'.cols /\ fetch.cards = fetch'.cards
      /\ fetch.before = fetch'.before /\ fetch.read = fetch'.read /\ fetch.missed = {}
      /\ fetch.stage \in {"half", "read"}
      /\ \A d \in Coming \ fetch.before : d \in Coming' \/ d \in heard'
  OBVIOUS
<1>3. \A d \in Committed' \ fetch'.before : (d \in Coming' \/ d \in heard') /\ ~body'[d].respaces
  BY <1>1, <1>2 DEF FetchSync
<1>4. ASSUME NEW x \in Columns PROVE SyncColumn(fetch.cols[x], x, Committed \ fetch.before, {})'
  <2>1. SyncColumn(fetch.cols[x], x, Committed \ fetch.before, {})
    BY <1>2 DEF FetchSync
  <2>2. \A r, B : r = fetch'.cols[x] /\ B = Committed' \ fetch'.before => SyncColumn(r, x, B, {})'
    BY <1>1, <1>2, <2>1, ColumnStays
  <2> QED
    BY <2>2
<1>5. ASSUME fetch'.stage = "read", NEW k \in Cards
      PROVE  SyncCard(fetch.cards[k], k, Committed \ fetch.before, fetch.read, {})'
  <2>1. SyncCard(fetch.cards[k], k, Committed \ fetch.before, fetch.read, {})
    BY <1>2, <1>5 DEF FetchSync
  <2>2. newest'[k] = newest[k]
    OBVIOUS
  <2>3. \A r, B, H : r = fetch'.cards[k] /\ B = Committed' \ fetch'.before /\ H = fetch'.read => SyncCard(r, k, B, H, {})'
    BY <1>1, <1>2, <2>1, <2>2, CardStays
  <2> QED
    BY <2>3
<1> QED
  BY <1>3, <1>4, <1>5 DEF FetchSync

LEMMA SnapshotSyncKept ==
  ASSUME TInv, HistoryInv, SnapshotSync,
         UNCHANGED <<board, order, body, cache, snapshot, newest, heard, touched, ignored>>,
         \A d \in Committed : payload'[d] = payload[d], Pending' = Pending,
         trouble' = {} => trouble = {} /\ Coming' = Coming,
         \A m \in Pending : stage'[m] = "conflict" =>
           \/ stage[m] = "conflict" /\ payload'[m] = payload[m]
           \/ Card(m) \in Cards /\ board.cards[Card(m)] # Gone /\ payload'[m] = board.cards[Card(m)]
  PROVE  SnapshotSync'
<1> SUFFICES ASSUME trouble' = {}, NEW m \in Pending \ touched PROVE Restorable(m)'
  BY DEF SnapshotSync
<1>1. Committed' = Committed /\ Coming \subseteq Committed /\ trouble = {} /\ Coming' = Coming
  BY SameHistory, ComingFacts
<1>2. /\ m \in Calls /\ Restorable(m) /\ Kind(m)' = Kind(m) /\ Card(m)' = Card(m)
  BY <1>1 DEF Pending, Mine, SnapshotSync, Kind, Card
<1>3. /\ Pending' = {m}
      /\ \A q \in Cards : MutateCard(snapshot[m], m, q, cache.cards[q])'
      /\ \A x \in Columns : MutateColumn(snapshot[m], m, x, cache.cols[x])'
  BY <1>1, <1>2, SameEstimate DEF Restorable
<1>4. ASSUME m \notin ignored, NEW x \in Columns PROVE SyncColumn(snapshot[m].cols[x], x, Coming, {})'
  <2>1. SyncColumn(snapshot[m].cols[x], x, Coming, {})
    BY <1>2, <1>4 DEF Restorable
  <2>2. \A r, B : r = snapshot'[m].cols[x] /\ B = Coming' => SyncColumn(r, x, B, {})'
    BY <1>1, <2>1, ColumnStays
  <2> QED
    BY <2>2
<1>5. ASSUME m \notin ignored, NEW q \in Cards PROVE SyncCard(snapshot[m].cards[q], q, Coming, heard, {})'
  <2>1. SyncCard(snapshot[m].cards[q], q, Coming, heard, {})
    BY <1>2, <1>5 DEF Restorable
  <2>2. newest'[q] = newest[q]
    OBVIOUS
  <2>3. \A r, B, H : r = snapshot'[m].cards[q] /\ B = Coming' /\ H = heard' => SyncCard(r, q, B, H, {})'
    BY <1>1, <2>1, <2>2, CardStays
  <2> QED
    BY <2>3
<1>6. ASSUME Kind(m) = "moveTask", stage'[m] = "conflict"
      PROVE  SyncPlace(payload[m], Card(m), Coming \cup Seen(m), {})'
  <2> DEFINE k == Card(m)
  <2>1. Seen(m) \subseteq Committed /\ Seen(m) \subseteq Seen(m)' /\ newest'[k] = newest[k]
    BY <1>1, <1>2 DEF Seen, Kind, Card
  <2>2. CASE stage[m] = "conflict" /\ payload'[m] = payload[m]
    <3>1. SyncPlace(payload[m], k, Coming \cup Seen(m), {})
      BY <1>2, <1>6, <2>2 DEF Restorable
    <3>2. \A r, q, B : r = payload'[m] /\ q = k /\ B = Coming' \cup Seen(m)' => SyncPlace(r, q, B, {})'
      BY <1>1, <2>1, <2>2, <3>1, PlaceStays
    <3> QED
      BY <1>2, <3>2
  <2>3. CASE k \in Cards /\ board.cards[k] # Gone /\ payload'[m] = board.cards[k]
    <3>1. SyncPlace(board.cards[k], k, Coming, {})
      BY <2>3, OwnPlace
    <3>2. \A r, q, B : r = payload'[m] /\ q = k /\ B = Coming' \cup Seen(m)' => SyncPlace(r, q, B, {})'
      BY <1>1, <2>1, <2>3, <3>1, PlaceStays
    <3> QED
      BY <1>2, <3>2
  <2> QED
    BY <1>6, <2>2, <2>3
<1>7. Kind(m) = "moveTask" => newest'[Card(m)] = m
  BY <1>2 DEF Restorable
<1> QED
  BY <1>2, <1>3, <1>4, <1>5, <1>6, <1>7 DEF Restorable
-----------------------------------------------------------------------------

LEMMA RefuseSInv ==
  ASSUME TInv, HistoryInv, SInv, NEW c \in Calls, Refuse(c)
  PROVE  SInv'
<1>1. /\ UNCHANGED <<board, order, body, told, inbox, cache, snapshot, newest, answer, heard, touched, ignored>>
      /\ UNCHANGED <<trouble, fetch>>
  BY DEF Refuse, wire, page, ghosts
<1>2. Arrived(c) /\ c \notin Committed /\ stage \in [Calls -> {"idle", "sent", "committed", "conflict", "refused"}]
  BY DEF Refuse, Arrived, TInv, ServerOK, Accepted
<1>3. Committed' = Committed /\ Coming' = Coming
  BY <1>1, SameHistory DEF Coming
<1>4. Pending' = Pending
  <2>1. Mine' = Mine /\ \A m \in Mine : stage'[m] = "idle" <=> stage[m] = "idle"
    BY <1>1, <1>2 DEF Refuse, Arrived, Mine
  <2> QED
    BY <1>1, <2>1 DEF Pending
<1>5. \A d \in Calls \ {c} : payload'[d] = payload[d] /\ stage'[d] = stage[d]
  BY <1>2 DEF Refuse, TInv, ServerOK
<1>6. \A d \in Committed : payload'[d] = payload[d]
  BY <1>2, <1>5, ComingFacts
<1>7. \A m \in Pending : stage'[m] = "conflict" =>
           \/ stage[m] = "conflict" /\ payload'[m] = payload[m]
           \/ Card(m) \in Cards /\ board.cards[Card(m)] # Gone /\ payload'[m] = board.cards[Card(m)]
  <2> SUFFICES ASSUME NEW m \in Pending, stage'[m] = "conflict", m = c
               PROVE  Card(m) \in Cards /\ board.cards[Card(m)] # Gone /\ payload'[m] = board.cards[Card(m)]
    BY <1>5 DEF Pending, Mine
  <2>1. Kind(c) = "moveTask" /\ Exists(c) /\ payload' = [payload EXCEPT ![c] = board.cards[Card(c)]]
    BY <1>2 DEF Refuse
  <2> QED
    BY <2>1, BodyFacts DEF Exists, TaskKinds, TInv, ServerOK
<1> QED
  BY <1>1, <1>3, <1>4, <1>6, <1>7, CacheSyncKept, FetchSyncKept, SnapshotSyncKept DEF SInv

LEMMA AnnounceSInv ==
  ASSUME TInv, HistoryInv, SInv, NEW c \in Calls, Announce(c)
  PROVE  SInv'
<1>1. /\ UNCHANGED <<board, stage, payload, order, body, cache, snapshot, newest, answer, heard, touched, ignored>>
      /\ told' = told \cup {c}
  BY DEF Announce, page, ghosts
<1>2. Committed' = Committed /\ Pending' = Pending
  BY <1>1, SameHistory DEF Pending, Mine
<1>3. CASE link = "joined"
  <2>1. inbox' = Append(inbox, c) /\ UNCHANGED <<fetch, trouble>>
    BY <1>3 DEF Announce
  <2>2. Coming' = Coming
    <3>1. inbox \in Seq(Calls) /\ c \notin told
      BY DEF TInv, WireOK, Announce
    <3>2. \A d : (\E i \in 1 .. Len(inbox') : inbox'[i] = d) <=> (\E i \in 1 .. Len(inbox) : inbox[i] = d) \/ d = c
      BY <2>1, <3>1
    <3> QED
      BY <1>1, <1>2, <3>1, <3>2 DEF Coming
  <2> QED
    BY <1>1, <1>2, <2>1, <2>2, CacheSyncKept, FetchSyncKept, SnapshotSyncKept DEF SInv
<1>4. CASE link # "joined"
  <2>1. /\ inbox' = inbox /\ trouble' # {}
        /\ fetch' = IF fetch.stage \in {"half", "read"} /\ c \notin fetch.before
                      THEN [fetch EXCEPT !.missed = @ \cup {"missed"}] ELSE fetch
    BY <1>4 DEF Announce
  <2>2. \A d \in Coming \ {c} : d \in Coming'
    BY <1>1, <1>2, <2>1 DEF Coming
  <2>3. fetch'.stage \in {"half", "read"} /\ fetch'.missed = {} => fetch' = fetch /\ c \in fetch.before
    <3>1. DOMAIN fetch = {"stage", "cols", "cards", "before", "read", "missed"}
      BY DEF TInv, FetchOK
    <3>2. CASE fetch.stage \in {"half", "read"} /\ c \notin fetch.before
      BY <2>1, <3>1, <3>2
    <3>3. CASE ~(fetch.stage \in {"half", "read"} /\ c \notin fetch.before)
      <4>1. fetch' = fetch
        BY <2>1, <3>3
      <4> QED
        BY <3>3, <4>1
    <3> QED
      BY <3>2, <3>3
  <2>4. FetchSync'
    BY <1>1, <2>2, <2>3, FetchSyncKept DEF SInv
  <2> QED
    BY <2>1, <2>4 DEF SInv, HeardInv, CacheSync, SnapshotSync
<1> QED
  BY <1>3, <1>4

LEMMA LinkSInv ==
  ASSUME TInv, HistoryInv, SInv, Connect \/ Join \/ Disconnect \/ FetchFails \/ Idle \/ UNCHANGED vars
  PROVE  SInv'
<1>1. /\ UNCHANGED <<board, stage, payload, order, told, body, cache, snapshot, newest, answer>>
      /\ UNCHANGED <<heard, touched, ignored>>
  BY DEF Connect, Join, Disconnect, FetchFails, Idle, vars, server, page, ghosts
<1>2. Committed' = Committed /\ Pending' = Pending
  BY <1>1, SameHistory DEF Pending, Mine
<1>3. CASE Connect \/ Join \/ FetchFails \/ Idle \/ UNCHANGED vars
  <2>1. UNCHANGED <<inbox, trouble>> /\ fetch' \in {fetch, Asked, NoFetch}
    BY <1>3 DEF Connect, Join, FetchFails, Idle, vars, wire
  <2>2. Coming' = Coming
    BY <1>1, <1>2, <2>1 DEF Coming
  <2>3. fetch'.stage \in {"half", "read"} => fetch' = fetch
    BY <2>1 DEF Asked, NoFetch
  <2> QED
    BY <1>1, <1>2, <2>1, <2>2, <2>3, CacheSyncKept, FetchSyncKept, SnapshotSyncKept DEF SInv
<1>4. CASE Disconnect
  <2> DEFINE lost == {inbox[i] : i \in 1 .. Len(inbox)}
  <2>1. /\ inbox' = <<>> /\ trouble' = trouble \cup (IF lost = {} THEN {} ELSE {"missed"})
        /\ fetch' = IF fetch.stage \in {"half", "read"} /\ ~(lost \subseteq fetch.before)
                      THEN [fetch EXCEPT !.missed = @ \cup {"missed"}] ELSE fetch
    BY <1>4 DEF Disconnect
  <2>2. \A d \in Coming \ lost : d \in Coming'
    BY <1>1, <1>2, <2>1 DEF Coming
  <2>3. trouble' = {} => trouble = {} /\ Coming' = Coming
    BY <1>1, <1>2, <2>1 DEF Coming
  <2> HIDE DEF lost
  <2>4. fetch'.stage \in {"half", "read"} /\ fetch'.missed = {} => fetch' = fetch /\ lost \subseteq fetch.before
    <3>1. DOMAIN fetch = {"stage", "cols", "cards", "before", "read", "missed"}
      BY DEF TInv, FetchOK
    <3>2. CASE fetch.stage \in {"half", "read"} /\ ~(lost \subseteq fetch.before)
      BY <2>1, <3>1, <3>2
    <3>3. CASE ~(fetch.stage \in {"half", "read"} /\ ~(lost \subseteq fetch.before))
      <4>1. fetch' = fetch
        BY <2>1, <3>3
      <4> QED
        BY <3>3, <4>1
    <3> QED
      BY <3>2, <3>3
  <2>5. FetchSync'
    BY <1>1, <2>2, <2>4, FetchSyncKept DEF SInv
  <2> QED
    BY <1>1, <1>2, <2>3, <2>5, CacheSyncKept, SnapshotSyncKept DEF SInv
<1> QED
  BY <1>3, <1>4
-----------------------------------------------------------------------------

LEMMA ReadColumnsSInv ==
  ASSUME TInv, HistoryInv, SInv, ReadColumns
  PROVE  SInv'
<1>1. /\ UNCHANGED <<board, stage, payload, order, told, body, inbox, cache, snapshot, newest, answer>>
      /\ UNCHANGED <<heard, touched, ignored, trouble>>
  BY DEF ReadColumns, server, page, ghosts, wire
<1>2. Committed' = Committed /\ Pending' = Pending /\ Coming' = Coming
  BY <1>1, SameHistory DEF Pending, Mine, Coming
<1>3. fetch'.stage = "half" /\ fetch'.cols = board.cols /\ fetch'.before = Committed
  BY DEF ReadColumns, TInv, FetchOK
<1>4. ASSUME NEW x \in Columns PROVE SyncColumn(fetch.cols[x], x, Committed \ fetch.before, {})'
  <2>1. SyncColumn(board.cols[x], x, {}, {})
    BY OwnColumn
  <2>2. \A r, B : r = fetch'.cols[x] /\ B = Committed' \ fetch'.before => SyncColumn(r, x, B, {})'
    BY <1>1, <1>3, <2>1, ColumnStays
  <2> QED
    BY <2>2
<1>5. FetchSync'
  BY <1>2, <1>3, <1>4 DEF FetchSync
<1> QED
  BY <1>1, <1>2, <1>5, CacheSyncKept, SnapshotSyncKept DEF SInv

LEMMA ReadCardsSInv ==
  ASSUME TInv, HistoryInv, SInv, ReadCards
  PROVE  SInv'
<1>1. /\ UNCHANGED <<board, stage, payload, order, told, body, inbox, cache, snapshot, newest, answer>>
      /\ UNCHANGED <<heard, touched, ignored, trouble>>
  BY DEF ReadCards, server, page, ghosts, wire
<1>2. Committed' = Committed /\ Pending' = Pending /\ Coming' = Coming
  BY <1>1, SameHistory DEF Pending, Mine, Coming
<1>3. /\ fetch.stage = "half" /\ fetch'.stage = "read" /\ fetch'.cols = fetch.cols /\ fetch'.before = fetch.before
      /\ fetch'.read = Committed /\ fetch'.missed = fetch.missed
      /\ \A k \in Cards : fetch'.cards[k] = IF board.cards[k] # Gone /\ fetch.cols[board.cards[k].column] # Gone
                                            THEN board.cards[k] ELSE Gone
  BY DEF ReadCards, TInv, FetchOK
<1> SUFFICES ASSUME fetch.missed = {} PROVE FetchSync'
  <2>1. FetchSync'
    BY <1>3 DEF FetchSync
  <2> QED
    BY <1>1, <1>2, <2>1, CacheSyncKept, SnapshotSyncKept DEF SInv
<1> DEFINE A == Committed \ fetch.before
<1>4. \A d \in Committed' \ fetch'.before : (d \in Coming' \/ d \in heard') /\ ~body'[d].respaces
  BY <1>1, <1>2, <1>3 DEF SInv, FetchSync
<1>5. \A x \in Columns : SyncColumn(fetch.cols[x], x, A, {})
  BY <1>3 DEF SInv, FetchSync
<1>6. ASSUME NEW x \in Columns PROVE SyncColumn(fetch.cols[x], x, Committed \ fetch.before, {})'
  <2>1. SyncColumn(fetch.cols[x], x, A, {})
    BY <1>5
  <2>2. \A r, B : r = fetch'.cols[x] /\ B = Committed' \ fetch'.before => SyncColumn(r, x, B, {})'
    BY <1>1, <1>2, <1>3, <2>1, ColumnStays
  <2> QED
    BY <2>2
<1>7. ASSUME NEW k \in Cards PROVE SyncCard(fetch.cards[k], k, Committed \ fetch.before, fetch.read, {})'
  <2> DEFINE s == fetch'.cards[k]
  <2>1. \A r : r = s => SyncCard(r, k, A, Committed, {})
    <3>1. CASE board.cards[k] = Gone
      BY <1>3, <3>1 DEF SyncCard
    <3>2. CASE board.cards[k] # Gone /\ fetch.cols[board.cards[k].column] # Gone
      BY <1>3, <3>2, OwnPlace DEF SyncCard
    <3>3. CASE board.cards[k] # Gone /\ fetch.cols[board.cards[k].column] = Gone
      <4>1. board.cards[k].column \in Columns
        BY <3>3, BoardFacts, RowFields DEF TInv, ServerOK
      <4>2. SyncColumn(Gone, board.cards[k].column, A, {})
        BY <1>5, <3>3, <4>1
      <4>3. Missing(k, A, Committed, {})
        BY <3>3, <4>2, NoColumn
      <4> QED
        BY <1>3, <3>3, <4>3 DEF SyncCard
    <3> QED
      BY <3>1, <3>2, <3>3
  <2>2. newest'[k] = newest[k]
    BY <1>1
  <2> HIDE DEF s
  <2>3. \A r, B, H : r = s /\ B = Committed' \ fetch'.before /\ H = fetch'.read => SyncCard(r, k, B, H, {})'
    BY <1>1, <1>2, <1>3, <2>1, <2>2, CardStays
  <2> QED
    BY <2>3 DEF s
<1> QED
  BY <1>4, <1>6, <1>7 DEF FetchSync

LEMMA LandSInv ==
  ASSUME TInv, HistoryInv, SInv, Land
  PROVE  SInv'
<1>1. /\ UNCHANGED <<board, stage, payload, order, told, body, inbox, snapshot, newest, answer, ignored>>
      /\ fetch.stage = "read" /\ fetch' = NoFetch
      /\ cache' = Landed(fetch.cols, fetch.cards)
      /\ trouble' = fetch.missed \cup (IF heard \subseteq fetch.before THEN {} ELSE {"landed"})
      /\ heard' = fetch.read /\ touched' = touched \cup Pending
  BY DEF Land, server, wire
<1>2. Committed' = Committed /\ Pending' = Pending /\ Coming' = Coming
  BY <1>1, SameHistory DEF Pending, Mine, Coming
<1>3. FetchSync' /\ SnapshotSync'
  BY <1>1, <1>2 DEF FetchSync, SnapshotSync, NoFetch
<1> SUFFICES ASSUME trouble' = {} PROVE HeardInv' /\ CacheSync'
  BY <1>3 DEF SInv, HeardInv, CacheSync
<1> DEFINE A == Committed \ fetch.before
<1>4. /\ fetch.missed = {} /\ heard \subseteq fetch.before
      /\ fetch.before \subseteq fetch.read /\ fetch.read \subseteq Committed
  BY <1>1 DEF TInv, FetchOK
<1>5. /\ \A d \in A : (d \in Coming \/ d \in heard) /\ ~body[d].respaces
      /\ \A x \in Columns : SyncColumn(fetch.cols[x], x, A, {})
      /\ \A k \in Cards : SyncCard(fetch.cards[k], k, A, fetch.read, {})
  BY <1>1, <1>4 DEF SInv, FetchSync
<1>6. A \subseteq Coming
  BY <1>4, <1>5
<1> HIDE DEF A
<1>7. HeardInv'
  BY <1>1, <1>2, <1>4, <1>5, <1>6 DEF HeardInv, A
<1>8. /\ cache'.cols = fetch.cols /\ cache'.cards = fetch.cards
  BY <1>1 DEF Landed
<1>9. ASSUME NEW x \in Columns PROVE SyncColumn(cache.cols[x], x, Coming, Pending)'
  <2>1. SyncColumn(fetch.cols[x], x, A, {})
    BY <1>5
  <2>2. \A r, B, o : r = cache'.cols[x] /\ B = Coming' /\ o = Pending' => SyncColumn(r, x, B, o)'
    BY <1>1, <1>2, <1>6, <1>8, <2>1, ColumnStays
  <2> QED
    BY <2>2
<1>10. ASSUME NEW k \in Cards PROVE SyncCard(cache.cards[k], k, Coming, heard, Pending)'
  <2>1. SyncCard(fetch.cards[k], k, A, fetch.read, {})
    BY <1>5
  <2>2. newest'[k] = newest[k] /\ A \subseteq Committed
    BY <1>1 DEF A
  <2>3. \A r, B, H, o : r = cache'.cards[k] /\ B = Coming' /\ H = heard' /\ o = Pending' => SyncCard(r, k, B, H, o)'
    BY <1>1, <1>2, <1>6, <1>8, <2>1, <2>2, CardStays
  <2> QED
    BY <2>3
<1> QED
  BY <1>7, <1>9, <1>10 DEF CacheSync
-----------------------------------------------------------------------------

\* What c's payload, written into the page, would undo is still to come.
Unbeaten(c, B, H) ==
  /\ \A d \in Calls : Later(d, c) => ~Reranks(c, d)
  /\ Kind(c) # "moveTask" => \A d \in Calls : Later(d, c) /\ Undoes(c, d) => d \in B /\ d \notin H

\* A copy stays one when a call that it does not lack has come.
LEMMA ColumnFewer ==
  ASSUME NEW A, NEW B, NEW open, NEW x, NEW r, SyncColumn(r, x, A, open),
         \A d \in A : Kind(d) \in ColumnKinds /\ Target(d) = x => d \in B
  PROVE  SyncColumn(r, x, B, open)
<1>1. \A K \in SUBSET ColumnKinds : OnColumn(A, K, x) => OnColumn(B, K, x)
  BY DEF OnColumn, ColumnKinds
<1>2. /\ {"deleteColumn"} \in SUBSET ColumnKinds /\ {"createColumn"} \in SUBSET ColumnKinds
      /\ {"createColumn", "renameColumn"} \in SUBSET ColumnKinds
      /\ {"createColumn", "moveColumn"} \in SUBSET ColumnKinds
  BY DEF ColumnKinds
<1> QED
  BY <1>1, <1>2 DEF SyncColumn

LEMMA PlaceFewer ==
  ASSUME NEW A, A \subseteq Committed, NEW B, B \subseteq A, NEW open, NEW k, NEW r,
         SyncPlace(r, k, A, open), SyncText(r, k, A, open),
         \A d \in A \ B : Kind(d) \in TaskKinds /\ Card(d) = k =>
           Kind(d) = "moveTask" /\ payload[d].version <= r.version /\ ~(payload[d].version > r.version)
  PROVE  SyncPlace(r, k, B, open) /\ SyncText(r, k, B, open)
<1>1. /\ {"deleteTask", "editTask", "createTask", "moveTask"} = TaskKinds
  BY DEF TaskKinds
<1>2. Fresh(r.version, k, B)
  BY <1>1 DEF SyncPlace, Fresh
<1>3. Edited(k, A) => Edited(k, B)
  BY <1>1 DEF Edited
<1>4. /\ OnCard(A, {"deleteTask", "editTask"}, k) => OnCard(B, {"deleteTask", "editTask"}, k)
      /\ OnCard(A, {"createTask", "editTask"}, k) => OnCard(B, {"createTask", "editTask"}, k)
  BY <1>1 DEF OnCard
<1>5. board.cards[k] = Gone => Doomed(r, k, B, open)
  BY <1>1, <1>4 DEF SyncPlace, Doomed
<1>6. board.cards[k] # Gone => SyncRow(r, k, B, open)
  BY <1>3 DEF SyncPlace, SyncRow
<1>7. \A d \in Committed : Kind(d) = "deleteTask" /\ Card(d) = k => d \in B
  BY <1>1 DEF SyncPlace
<1> QED
  BY <1>2, <1>4, <1>5, <1>6, <1>7 DEF SyncPlace, SyncText

LEMMA MissingFewer ==
  ASSUME NEW A, NEW B, NEW open, NEW H, NEW J, H \subseteq J, NEW k, Missing(k, A, H, open),
         \A d \in A : Kind(d) \in TaskKinds /\ Card(d) = k => d \in B,
         \A e \in A : Kind(e) = "createColumn" /\ (\E d \in H : Later(d, e) /\ Undoes(e, d)) => e \in B
  PROVE  Missing(k, B, J, open)
<1>1. OnCard(A, {"createTask", "editTask", "moveTask"}, k) => OnCard(B, {"createTask", "editTask", "moveTask"}, k)
  BY DEF OnCard, TaskKinds
<1> QED
  BY <1>1 DEF Missing

\* The row of a create or an edit.
LEMMA PayloadPlace ==
  ASSUME TInv, HistoryInv, NEW c \in Committed, Kind(c) \in {"createTask", "editTask"},
         NEW k \in Cards, Card(c) = k, NEW B, NEW H, Unbeaten(c, B, H), NEW open
  PROVE  SyncPlace(payload[c], k, B, open) /\ SyncText(payload[c], k, B, open)
<1> DEFINE p == payload[c] t == board.cards[k]
<1>0. /\ CardPayload(c) /\ PayloadInv(c) /\ Committed \subseteq Calls
      /\ \A d, e \in Committed : d = e \/ Later(d, e) \/ Later(e, d)
      /\ \A d, e : Later(d, e) => d \in Committed /\ e \in Committed
      /\ p.version \in Nat /\ (t # Gone => t.version \in Nat)
  <2>1. order \in Seq(Calls) /\ stage[c] = "committed" /\ CardRow(p) /\ c \in Calls
    BY DEF TInv, ServerOK, Accepted, PayloadOK
  <2> QED
    BY <2>1, LaterFacts, RowFields, BoardFacts DEF HistoryInv, PayloadInv, TInv, ServerOK
<1>1. \A d \in Calls : Later(d, c) /\ Kind(d) \in TaskKinds /\ Card(d) = k => d \in B
  BY DEF Unbeaten, Undoes
<1>2. \A d \in Calls : Later(d, c) => ~Reranks(c, d)
  BY DEF Unbeaten
<1>3. {"deleteTask", "editTask", "createTask", "moveTask"} = TaskKinds
  BY DEF TaskKinds
<1>4. Fresh(p.version, k, B)
  <2> SUFFICES ASSUME NEW d \in Committed \ B, Kind(d) = "moveTask", Card(d) = k
               PROVE  payload[d].version <= p.version
    BY DEF Fresh
  <2>1. Later(c, d)
    BY <1>0, <1>1, <1>3
  <2>2. CardPayload(d)
    BY DEF HistoryInv, PayloadInv
  <2>3. CardRow(payload[d])
    BY <1>0 DEF TInv, ServerOK, Accepted, PayloadOK
  <2>4. Kind(c) = "editTask" /\ payload[c].version >= payload[d].version
    BY <1>0, <2>1, <2>2 DEF CardPayload
  <2> QED
    BY <1>0, <2>3, <2>4, RowFields
<1>5. \A d \in Committed : Kind(d) = "deleteTask" /\ Card(d) = k => d \in B
  <2> SUFFICES ASSUME NEW d \in Committed, Kind(d) = "deleteTask", Card(d) = k PROVE d \in B
    OBVIOUS
  <2>1. Later(d, c)
    BY <1>0, <1>3 DEF PayloadInv
  <2> QED
    BY <1>0, <1>1, <1>3, <2>1
<1>6. t = Gone => Doomed(p, k, B, open)
  <2> SUFFICES ASSUME t = Gone PROVE Doomed(p, k, B, open)
    OBVIOUS
  <2>1. CASE board.cols[p.column] = Gone
    BY <2>1 DEF Doomed
  <2>2. ASSUME NEW d \in Calls, Later(d, c), Kind(d) = "deleteTask", Card(d) = k PROVE Doomed(p, k, B, open)
    BY <1>1, <1>3, <2>2 DEF Doomed, OnCard
  <2>3. ASSUME NEW d \in Calls, Later(d, c), Kind(d) = "moveTask", Card(d) = k PROVE Doomed(p, k, B, open)
    <3>1. d \in B /\ payload[d].version > p.version
      BY <1>0, <1>1, <1>3, <2>3 DEF CardPayload
    <3> QED
      BY <2>3, <3>1 DEF Doomed
  <2> QED
    BY <1>0, <2>1, <2>2, <2>3 DEF CardPayload
<1>7. t # Gone => SyncRow(p, k, B, open)
  <2> SUFFICES ASSUME t # Gone PROVE SyncRow(p, k, B, open)
    OBVIOUS
  <2>1. p.version <= t.version /\ (p.version = t.version => p.column = t.column /\ p.rank = t.rank)
    BY <1>0, <1>2 DEF CardPayload
  <2>2. CASE p.version < t.version
    BY <2>2 DEF SyncRow
  <2>3. CASE p.version = t.version
    BY <2>1, <2>3 DEF SyncRow
  <2> QED
    BY <1>0, <2>1, <2>2, <2>3
<1>8. SyncText(p, k, B, open)
  <2> SUFFICES ASSUME t # Gone, p.text # t.text PROVE OnCard(B, {"createTask", "editTask"}, k)
    BY DEF SyncText
  <2>1. PICK d \in Calls : Later(d, c) /\ Kind(d) = "editTask" /\ Card(d) = k
    BY <1>0 DEF CardPayload
  <2> QED
    BY <1>1, <1>3, <2>1 DEF OnCard
<1>9. Born(k) /\ BornColumn(p.column) /\ NoLess(p.version, k)
  <2>1. Born(k)
    BY <1>0, <1>3 DEF PayloadInv
  <2> QED
    BY <1>0, <2>1 DEF CardPayload
<1> QED
  BY <1>4, <1>5, <1>6, <1>7, <1>8, <1>9 DEF SyncPlace

\* A card whose row goes where the copy has no column.
LEMMA PlaceGone ==
  ASSUME TInv, HistoryInv, NEW k \in Cards, board.cards[k] # Gone, NEW p, p.version \in Nat,
         NoLess(p.version, k), NEW B, B \subseteq Committed, Fresh(p.version, k, B), NEW J, Committed \subseteq B \cup J,
         NEW open, SyncColumn(Gone, p.column, B, open),
         p.version < board.cards[k].version \/ p.column = board.cards[k].column
  PROVE  Missing(k, B, J, open)
<1>1. CASE p.version < board.cards[k].version
  <2>1. PICK d \in B : Kind(d) = "moveTask" /\ Card(d) = k
    BY <1>1, BehindMove
  <2> QED
    BY <2>1 DEF Missing, OnCard
<1>2. CASE p.column = board.cards[k].column
  BY <1>2, NoColumn
<1> QED
  BY <1>1, <1>2

\* A card that is not where the board has it, taken away.
LEMMA OtherColumn ==
  ASSUME TInv, HistoryInv, NEW k \in Cards, board.cards[k] # Gone,
         NEW A, A \subseteq Committed, NEW H, Committed \subseteq A \cup H, NEW open,
         NEW r \in CardRows, SyncPlace(r, k, A, open), r.column # board.cards[k].column
  PROVE  Missing(k, A, H, open)
<1> DEFINE m == newest[k]
<1>1. CASE r.version < board.cards[k].version
  <2>1. r.version \in Nat
    BY DEF CardRows
  <2>2. PICK d \in A : Kind(d) = "moveTask" /\ Card(d) = k
    BY <1>1, <2>1, BehindMove DEF SyncPlace
  <2> QED
    BY <2>2 DEF Missing, OnCard
<1>2. CASE Edited(k, A)
  BY <1>2 DEF Missing, OnCard, Edited
<1>3. CASE m \in open \ Committed
  BY <1>3 DEF Missing
<1>4. ASSUME m \in open, NEW d \in Committed, Kind(d) = "moveTask", Card(d) = k, Later(d, m) PROVE Missing(k, A, H, open)
  <2>1. CASE d \in A
    BY <1>4, <2>1 DEF Missing, OnCard
  <2>2. CASE d \in H
    BY <1>4, <2>2 DEF Missing
  <2> QED
    BY <2>1, <2>2
<1>5. SyncRow(r, k, A, open)
  BY DEF SyncPlace
<1> QED
  BY <1>1, <1>2, <1>3, <1>4, <1>5 DEF SyncRow
-----------------------------------------------------------------------------

\* The row of a column's call.
LEMMA PayloadColumn ==
  ASSUME TInv, HistoryInv, NEW c \in Committed, NEW x \in Columns, Target(c) = x,
         NEW A, NEW B, A \ {c} \subseteq B, NEW H, Unbeaten(c, B, H), NEW open,
         NEW r, SyncColumn(r, x, A, open)
  PROVE  /\ Kind(c) = "createColumn" => SyncColumn(payload[c], x, B, open)
         /\ Kind(c) = "renameColumn" /\ r # Gone => SyncColumn(payload[c], x, B, open)
         /\ \A s : Kind(c) = "moveColumn" /\ Reordered(s, r, payload[c]) => SyncColumn(s, x, B, open)
<1> DEFINE p == payload[c] t == board.cols[x]
<1>0. ASSUME Kind(c) \in {"createColumn", "renameColumn", "moveColumn"}
      PROVE  ColumnPayload(c) /\ BornColumn(x) /\ p # Gone
  <2>1. stage[c] = "committed" /\ c \in Calls
    BY DEF TInv, ServerOK, Accepted
  <2>2. p \in ColumnRows
    BY <1>0, <2>1 DEF TInv, ServerOK, PayloadOK
  <2>3. PayloadInv(c)
    BY DEF HistoryInv
  <2> QED
    BY <1>0, <2>2, <2>3, IdAssumption DEF PayloadInv
<1>1. Kind(c) # "moveTask" => \A d \in Calls : Later(d, c) /\ Undoes(c, d) => d \in B
  BY DEF Unbeaten
<1>2. \A d \in Calls : Later(d, c) => ~Reranks(c, d)
  BY DEF Unbeaten
<1>3. CASE Kind(c) = "createColumn"
  <2>1. \A d \in Calls : Later(d, c) /\ Target(d) = x => d \in B
    BY <1>1, <1>3 DEF Unbeaten, Undoes
  <2>2. t = Gone => OnColumn(B, {"deleteColumn"}, x)
    BY <1>0, <1>3, <2>1 DEF ColumnPayload, OnColumn
  <2>3. t # Gone => p.title = t.title \/ OnColumn(B, {"createColumn", "renameColumn"}, x)
    BY <1>0, <1>3, <2>1 DEF ColumnPayload, OnColumn
  <2>4. t # Gone => p.rank = t.rank \/ OnColumn(B, {"createColumn", "moveColumn"}, x)
    BY <1>0, <1>2, <1>3, <2>1 DEF ColumnPayload, OnColumn
  <2> QED
    BY <1>0, <1>3, <2>2, <2>3, <2>4 DEF SyncColumn
<1>4. CASE Kind(c) = "renameColumn" /\ r # Gone
  <2>1. \A d \in Calls : Later(d, c) /\ Target(d) = x /\ Kind(d) \in {"renameColumn", "moveColumn"} => d \in B
    BY <1>1, <1>4 DEF Unbeaten, Undoes
  <2>2. t = Gone => OnColumn(B, {"deleteColumn"}, x)
    BY <1>4 DEF SyncColumn, OnColumn
  <2>3. t # Gone => p.title = t.title \/ OnColumn(B, {"createColumn", "renameColumn"}, x)
    BY <1>0, <1>4, <2>1 DEF ColumnPayload, OnColumn
  <2>4. t # Gone => p.rank = t.rank \/ OnColumn(B, {"createColumn", "moveColumn"}, x)
    BY <1>0, <1>2, <1>4, <2>1 DEF ColumnPayload, OnColumn
  <2> QED
    BY <1>0, <1>4, <2>2, <2>3, <2>4 DEF SyncColumn
<1>5. ASSUME Kind(c) = "moveColumn", NEW s, Reordered(s, r, p) PROVE SyncColumn(s, x, B, open)
  <2>1. \A d \in Calls : Later(d, c) /\ Target(d) = x /\ Kind(d) = "moveColumn" => d \in B
    BY <1>1, <1>5 DEF Unbeaten, Undoes
  <2>2. CASE r = Gone
    <3>1. OnColumn(A, {"createColumn"}, x) => OnColumn(B, {"createColumn"}, x)
      BY <1>5 DEF OnColumn
    <3> QED
      BY <1>5, <2>2, <3>1 DEF SyncColumn, Reordered
  <2>3. CASE r # Gone
    <3>1. s # Gone /\ s.title = r.title /\ s.rank = p.rank
      BY <1>5, <2>3 DEF Reordered
    <3>2. t = Gone => OnColumn(B, {"deleteColumn"}, x)
      BY <1>5, <2>3 DEF SyncColumn, OnColumn
    <3>3. OnColumn(A, {"createColumn", "renameColumn"}, x) => OnColumn(B, {"createColumn", "renameColumn"}, x)
      BY <1>5 DEF OnColumn
    <3>4. t # Gone => p.rank = t.rank \/ OnColumn(B, {"createColumn", "moveColumn"}, x)
      BY <1>0, <1>2, <1>5, <2>1 DEF ColumnPayload, OnColumn
    <3>5. BornColumn(x)
      BY <1>0, <1>5
    <3> QED
      BY <2>3, <3>1, <3>2, <3>3, <3>4, <3>5 DEF SyncColumn
  <2> QED
    BY <2>2, <2>3
<1> QED
  BY <1>3, <1>4, <1>5

\* What an event leaves of a column's copy.
LEMMA EventColumnSync ==
  ASSUME TInv, HistoryInv, NEW c \in Committed, NEW x \in Columns,
         NEW A, NEW B, A \ {c} \subseteq B, NEW H, Unbeaten(c, B, H), NEW open,
         NEW b, SyncColumn(b.cols[x], x, A, open), NEW s, EventColumn(b, c, x, s)
  PROVE  SyncColumn(s, x, B, open)
<1> DEFINE r == b.cols[x]
<1>1. CASE Target(c) = x /\ Kind(c) \in {"createColumn", "renameColumn", "moveColumn"}
  <2>1. /\ Kind(c) = "createColumn" => SyncColumn(payload[c], x, B, open)
        /\ Kind(c) = "renameColumn" /\ r # Gone => SyncColumn(payload[c], x, B, open)
        /\ \A u : Kind(c) = "moveColumn" /\ Reordered(u, r, payload[c]) => SyncColumn(u, x, B, open)
    BY <1>1, PayloadColumn
  <2>2. CASE Kind(c) = "renameColumn" /\ r = Gone
    <3>1. s = Gone
      BY <1>1, <2>2 DEF EventColumn
    <3>2. OnColumn(A, {"createColumn"}, x) => OnColumn(B, {"createColumn"}, x)
      BY <2>2 DEF OnColumn
    <3> QED
      BY <2>2, <3>1, <3>2 DEF SyncColumn
  <2>3. CASE Kind(c) = "renameColumn" /\ r # Gone
    BY <1>1, <2>1, <2>3 DEF EventColumn
  <2>4. CASE Kind(c) = "createColumn"
    BY <1>1, <2>1, <2>4 DEF EventColumn
  <2>5. CASE Kind(c) = "moveColumn"
    BY <1>1, <2>1, <2>5 DEF EventColumn
  <2> QED
    BY <1>1, <2>2, <2>3, <2>4, <2>5
<1>2. CASE Target(c) = x /\ Kind(c) = "deleteColumn"
  <2>1. s = Gone
    BY <1>2 DEF EventColumn
  <2>2. board.cols[x] = Gone
    BY <1>2 DEF HistoryInv, ColumnInv, OnColumn
  <2> QED
    BY <2>1, <2>2 DEF SyncColumn
<1>3. CASE ~(Kind(c) \in ColumnKinds /\ Target(c) = x)
  <2>1. s = r
    BY <1>3 DEF EventColumn, ColumnKinds
  <2>2. \A d \in A : Kind(d) \in ColumnKinds /\ Target(d) = x => d \in B
    BY <1>3
  <2> QED
    BY <2>1, <2>2, ColumnFewer
<1> QED
  BY <1>1, <1>2, <1>3 DEF ColumnKinds

\* The place that a move's row has.
LEMMA MovePlace ==
  ASSUME TInv, HistoryInv, NEW c \in Committed, Kind(c) = "moveTask", NEW k \in Cards, Card(c) = k,
         \A d \in Calls : Later(d, c) => ~Reranks(c, d),
         NEW B, Fresh(payload[c].version, k, B),
         \A d \in Calls : Later(d, c) /\ Kind(d) = "moveTask" /\ Card(d) = k => d \in B,
         \A d \in Committed : Kind(d) = "deleteTask" /\ Card(d) = k => d \in B,
         NEW open
  PROVE  SyncPlace(payload[c], k, B, open)
<1> DEFINE p == payload[c] t == board.cards[k]
<1>0. /\ CardPayload(c) /\ PayloadInv(c)
      /\ \A d, e : Later(d, e) => d \in Committed /\ e \in Committed
      /\ p.version \in Nat /\ (t # Gone => t.version \in Nat)
  <2>1. order \in Seq(Calls) /\ stage[c] = "committed" /\ CardRow(p) /\ c \in Calls
    BY DEF TInv, ServerOK, Accepted, PayloadOK
  <2> QED
    BY <2>1, LaterFacts, RowFields, BoardFacts DEF HistoryInv, PayloadInv, TInv, ServerOK
<1>1. t = Gone => Doomed(p, k, B, open)
  <2> SUFFICES ASSUME t = Gone PROVE Doomed(p, k, B, open)
    OBVIOUS
  <2>1. CASE board.cols[p.column] = Gone
    BY <2>1 DEF Doomed
  <2>2. ASSUME NEW d \in Calls, Later(d, c), Kind(d) = "deleteTask", Card(d) = k PROVE Doomed(p, k, B, open)
    BY <1>0, <2>2 DEF Doomed, OnCard
  <2>3. ASSUME NEW d \in Calls, Later(d, c), Kind(d) = "moveTask", Card(d) = k PROVE Doomed(p, k, B, open)
    <3>1. d \in B /\ payload[d].version > p.version
      BY <1>0, <2>3 DEF CardPayload
    <3> QED
      BY <2>3, <3>1 DEF Doomed
  <2> QED
    BY <1>0, <2>1, <2>2, <2>3 DEF CardPayload
<1>2. t # Gone => SyncRow(p, k, B, open)
  <2> SUFFICES ASSUME t # Gone PROVE SyncRow(p, k, B, open)
    OBVIOUS
  <2>1. p.version <= t.version /\ (p.version = t.version => p.column = t.column /\ p.rank = t.rank)
    BY <1>0 DEF CardPayload
  <2>2. CASE p.version < t.version
    BY <2>2 DEF SyncRow
  <2>3. CASE p.version = t.version
    BY <2>1, <2>3 DEF SyncRow
  <2> QED
    BY <1>0, <2>1, <2>2, <2>3
<1>3. Born(k) /\ BornColumn(p.column) /\ NoLess(p.version, k)
  <2>1. Born(k)
    BY <1>0 DEF PayloadInv, TaskKinds
  <2> QED
    BY <1>0, <2>1 DEF CardPayload
<1> QED
  BY <1>1, <1>2, <1>3 DEF SyncPlace

LEMMA SamePlace ==
  ASSUME NEW p, NEW s, NEW k, NEW A, NEW open, SyncPlace(p, k, A, open),
         s.column = p.column, s.version = p.version, s.rank = p.rank
  PROVE  SyncPlace(s, k, A, open)
BY DEF SyncPlace, Doomed, SyncRow
-----------------------------------------------------------------------------

\* What the event of a create or an edit leaves of its card.
LEMMA EventWritten ==
  ASSUME TInv, HistoryInv, NEW c \in Committed, Kind(c) \in {"createTask", "editTask"}, NEW k \in Cards, Card(c) = k,
         NEW A, A \subseteq Committed, NEW B, B \subseteq A, A \ {c} \subseteq B, NEW H, Unbeaten(c, B, H), NEW open,
         NEW J, Committed \subseteq B \cup J,
         NEW b, \A x \in Columns : SyncColumn(b.cols[x], x, A, open),
         NEW s, EventCard(b, c, k, s)
  PROVE  SyncCard(s, k, B, J, open)
<1> DEFINE p == payload[c] t == board.cards[k]
<1>1. SyncPlace(p, k, B, open) /\ SyncText(p, k, B, open)
  BY PayloadPlace
<1>2. CardRow(p) /\ CardPayload(c)
  BY DEF TInv, ServerOK, Accepted, PayloadOK, HistoryInv, PayloadInv
<1>3. p.column \in Columns /\ p.version \in Nat /\ p # Gone
  BY <1>2, RowFields
<1>4. s = IF b.cols[p.column] = Gone THEN Gone ELSE p
  BY DEF EventCard
<1>5. CASE b.cols[p.column] # Gone
  BY <1>1, <1>3, <1>4, <1>5 DEF SyncCard
<1>6. CASE b.cols[p.column] = Gone /\ t # Gone
  <2>1. SyncColumn(Gone, p.column, A, open)
    BY <1>3, <1>6
  <2>2. \A d \in A : Kind(d) \in ColumnKinds /\ Target(d) = p.column => d \in B
    BY DEF ColumnKinds
  <2>3. SyncColumn(Gone, p.column, B, open)
    BY <2>1, <2>2, ColumnFewer
  <2>4. p.version < t.version \/ p.column = t.column
    <3>1. t.version \in Nat
      BY <1>6, BoardFacts, RowFields DEF TInv, ServerOK
    <3> QED
      BY <1>2, <1>3, <1>6, <3>1 DEF CardPayload
  <2>5. NoLess(p.version, k) /\ Fresh(p.version, k, B)
    BY <1>1 DEF SyncPlace
  <2> HIDE DEF p
  <2>6. Missing(k, B, J, open)
    BY <1>3, <1>6, <2>3, <2>4, <2>5, PlaceGone
  <2> QED
    BY <1>4, <1>6, <2>6 DEF SyncCard
<1>7. CASE b.cols[p.column] = Gone /\ t = Gone
  BY <1>4, <1>7 DEF SyncCard
<1> QED
  BY <1>5, <1>6, <1>7

\* What a move that the page takes in leaves of its card.
LEMMA MoveTaken ==
  ASSUME TInv, HistoryInv, NEW c \in Committed, Kind(c) = "moveTask", NEW k \in Cards, Card(c) = k,
         \A d \in Calls : Later(d, c) => ~Reranks(c, d),
         NEW A, A \subseteq Committed, NEW B, B \subseteq A, A \ {c} \subseteq B, NEW open,
         NEW J, Committed \subseteq B \cup J,
         Fresh(payload[c].version, k, B),
         \A d \in Calls : Later(d, c) /\ Kind(d) = "moveTask" /\ Card(d) = k => d \in B,
         NEW b, \A x \in Columns : SyncColumn(b.cols[x], x, A, open),
         \A d \in Committed : Kind(d) = "deleteTask" /\ Card(d) = k => d \in A,
         NEW r, r # Gone, SyncText(r, k, A, open), NEW s,
         IF b.cols[payload[c].column] = Gone THEN s = Gone ELSE Moved(s, payload[c], r.text)
  PROVE  SyncCard(s, k, B, J, open)
<1> DEFINE p == payload[c] t == board.cards[k]
<1>1. \A d \in Committed : Kind(d) = "deleteTask" /\ Card(d) = k => d \in B
  OBVIOUS
<1>2. SyncPlace(p, k, B, open)
  BY <1>1, MovePlace
<1>3. CardRow(p) /\ CardPayload(c)
  BY DEF TInv, ServerOK, Accepted, PayloadOK, HistoryInv, PayloadInv
<1>4. p.column \in Columns /\ p.version \in Nat /\ p # Gone
  BY <1>3, RowFields
<1>5. CASE b.cols[p.column] # Gone
  <2>1. s # Gone /\ s.column = p.column /\ s.version = p.version /\ s.rank = p.rank /\ s.text = r.text
    BY <1>5 DEF Moved
  <2>2. SyncPlace(s, k, B, open)
    BY <1>2, <2>1, SamePlace
  <2>3. OnCard(A, {"createTask", "editTask"}, k) => OnCard(B, {"createTask", "editTask"}, k)
    BY DEF OnCard
  <2>4. SyncText(s, k, B, open)
    BY <2>1, <2>3 DEF SyncText
  <2> QED
    BY <2>1, <2>2, <2>4 DEF SyncCard
<1>6. CASE b.cols[p.column] = Gone /\ t # Gone
  <2>1. SyncColumn(Gone, p.column, A, open)
    BY <1>4, <1>6
  <2>2. \A d \in A : Kind(d) \in ColumnKinds /\ Target(d) = p.column => d \in B
    BY DEF ColumnKinds
  <2>3. SyncColumn(Gone, p.column, B, open)
    BY <2>1, <2>2, ColumnFewer
  <2>4. p.version < t.version \/ p.column = t.column
    <3>1. t.version \in Nat
      BY <1>6, BoardFacts, RowFields DEF TInv, ServerOK
    <3> QED
      BY <1>3, <1>4, <1>6, <3>1 DEF CardPayload
  <2>5. NoLess(p.version, k) /\ Fresh(p.version, k, B)
    BY <1>2 DEF SyncPlace
  <2> HIDE DEF p
  <2>6. Missing(k, B, J, open)
    BY <1>4, <1>6, <2>3, <2>4, <2>5, PlaceGone
  <2> QED
    BY <1>6, <2>6 DEF SyncCard, p
<1>7. CASE b.cols[p.column] = Gone /\ t = Gone
  BY <1>7 DEF SyncCard
<1> QED
  BY <1>5, <1>6, <1>7

\* What the event of a move leaves of its card.
LEMMA EventMoved ==
  ASSUME TInv, HistoryInv, NEW c \in Committed, Kind(c) = "moveTask", NEW k \in Cards, Card(c) = k,
         NEW A, A \subseteq Committed, NEW B, B \subseteq A, A \ {c} \subseteq B, NEW H, Unbeaten(c, B, H), NEW open,
         NEW J, Committed \subseteq B \cup J,
         NEW b, \A x \in Columns : SyncColumn(b.cols[x], x, A, open),
         b.cards[k] = Gone => board.cards[k] = Gone,
         b.cards[k] # Gone => SyncPlace(b.cards[k], k, A, open) /\ SyncText(b.cards[k], k, A, open)
                              /\ b.cards[k].version \in Nat,
         NEW s, EventCard(b, c, k, s)
  PROVE  SyncCard(s, k, B, J, open)
<1> DEFINE p == payload[c] r == b.cards[k]
<1>0. /\ CardPayload(c) /\ p.version \in Nat
      /\ \A d, e : Later(d, e) => d \in Committed /\ e \in Committed
  <2>1. order \in Seq(Calls) /\ stage[c] = "committed" /\ CardRow(p) /\ c \in Calls
    BY DEF TInv, ServerOK, Accepted, PayloadOK
  <2> QED
    BY <2>1, LaterFacts, RowFields DEF HistoryInv, PayloadInv
<1>1. CASE r = Gone
  <2>1. s = Gone
    BY <1>1 DEF EventCard
  <2> QED
    BY <1>1, <2>1 DEF SyncCard
<1>2. CASE r # Gone /\ ~(p.version > r.version)
  <2>1. s = r
    BY <1>2 DEF EventCard
  <2>2. \A d \in A \ B : payload[d].version <= r.version /\ ~(payload[d].version > r.version) /\ Kind(d) = "moveTask"
    BY <1>0, <1>2
  <2>3. SyncPlace(r, k, B, open) /\ SyncText(r, k, B, open)
    BY <1>2, <2>2, PlaceFewer
  <2> QED
    BY <1>2, <2>1, <2>3 DEF SyncCard
<1>3. CASE r # Gone /\ p.version > r.version
  <2>1. IF b.cols[p.column] = Gone THEN s = Gone ELSE Moved(s, p, r.text)
    BY <1>3 DEF EventCard
  <2>2. \A d \in Committed : Kind(d) = "moveTask" => payload[d].version \in Nat
    BY RowFields DEF TInv, ServerOK, Accepted, PayloadOK
  <2>3. ASSUME NEW d \in Committed \ B, Kind(d) = "moveTask", Card(d) = k PROVE payload[d].version <= p.version
    <3>1. CASE d = c
      BY <1>0, <3>1
    <3>2. CASE d \notin A
      <4>1. payload[d].version <= r.version
        BY <1>3, <2>3, <3>2 DEF SyncPlace, Fresh
      <4> QED
        BY <1>0, <1>3, <2>2, <2>3, <4>1
    <3> QED
      BY <2>3, <3>1, <3>2
  <2>4. ASSUME NEW d \in Calls, Later(d, c), Kind(d) = "moveTask", Card(d) = k PROVE d \in B
    <3>1. payload[d].version > p.version /\ d \in Committed
      BY <1>0, <2>4 DEF CardPayload
    <3> QED
      BY <1>0, <2>2, <2>3, <2>4, <3>1
  <2>5. \A d \in Calls : Later(d, c) => ~Reranks(c, d)
    BY DEF Unbeaten
  <2>6. Fresh(p.version, k, B)
    BY <2>3 DEF Fresh
  <2> HIDE DEF p, r
  <2>7. /\ \A d \in Committed : Kind(d) = "deleteTask" /\ Card(d) = k => d \in A
        /\ SyncText(r, k, A, open)
    BY <1>3 DEF r, SyncPlace
  <2> QED
    BY <1>3, <2>1, <2>4, <2>5, <2>6, <2>7, MoveTaken DEF p
<1> QED
  BY <1>1, <1>2, <1>3
-----------------------------------------------------------------------------

\* A column's event and an event of another card leave a card as it is, or take it away
\* with its column.
LEMMA EventElsewhere ==
  ASSUME TInv, HistoryInv, NEW c \in Committed, NEW k \in Cards, ~(Kind(c) \in TaskKinds /\ Card(c) = k),
         NEW A, A \subseteq Committed, NEW B, B \subseteq A, A \ {c} \subseteq B, NEW H, Unbeaten(c, B, H), NEW open,
         NEW J, H \subseteq J, Committed \subseteq B \cup J,
         NEW b, SyncCard(b.cards[k], k, A, H, open), b.cards[k] # Gone => b.cards[k] \in CardRows,
         NEW s, EventCard(b, c, k, s)
  PROVE  SyncCard(s, k, B, J, open)
<1> DEFINE r == b.cards[k] t == board.cards[k]
<1>1. \A d \in A : Kind(d) \in TaskKinds /\ Card(d) = k => d \in B
  OBVIOUS
<1>2. \A e \in A : Kind(e) = "createColumn" /\ (\E d \in H : Later(d, e) /\ Undoes(e, d)) => e \in B
  <2> SUFFICES ASSUME Kind(c) = "createColumn", NEW d \in H, Later(d, c), Undoes(c, d) PROVE FALSE
    OBVIOUS
  <2>1. d \in Calls
    <3>1. d \in Committed
      BY LaterFacts DEF TInv, ServerOK
    <3> QED
      BY <3>1, ComingFacts
  <2> QED
    BY <2>1 DEF Unbeaten
<1>3. CASE Kind(c) = "deleteColumn" /\ r # Gone /\ r.column = Target(c)
  <2>1. s = Gone
    BY <1>3 DEF EventCard, TaskKinds
  <2>2. ASSUME t # Gone PROVE Missing(k, B, J, open)
    <3>1. t.column \in Columns /\ board.cols[t.column] # Gone
      BY <2>2, BoardFacts, RowFields DEF TInv, ServerOK
    <3>2. t.column # Target(c)
      BY <1>3, <3>1 DEF HistoryInv, ColumnInv, OnColumn
    <3>3. SyncPlace(r, k, A, open) /\ r \in CardRows
      BY <1>3 DEF SyncCard
    <3>4. SyncPlace(r, k, B, open)
      BY <1>1, <1>3, <3>3, PlaceFewer DEF SyncCard
    <3>5. B \subseteq Committed
      OBVIOUS
    <3> HIDE DEF r
    <3> QED
      BY <1>3, <2>2, <3>2, <3>3, <3>4, <3>5, OtherColumn
  <2> QED
    BY <2>1, <2>2 DEF SyncCard
<1>4. CASE ~(Kind(c) = "deleteColumn" /\ r # Gone /\ r.column = Target(c))
  <2>1. s = r
    BY <1>4 DEF EventCard, TaskKinds
  <2>2. r # Gone => SyncPlace(r, k, B, open) /\ SyncText(r, k, B, open)
    BY <1>1, PlaceFewer DEF SyncCard
  <2>3. r = Gone /\ t # Gone => Missing(k, B, J, open)
    BY <1>1, <1>2, MissingFewer DEF SyncCard
  <2> QED
    BY <2>1, <2>2, <2>3 DEF SyncCard
<1> QED
  BY <1>3, <1>4

\* What an event leaves of a card's copy.
LEMMA EventCardSync ==
  ASSUME TInv, HistoryInv, NEW c \in Committed, NEW k \in Cards,
         NEW A, A \subseteq Committed, NEW B, B \subseteq A, A \ {c} \subseteq B, NEW H, Unbeaten(c, B, H), NEW open,
         NEW J, H \subseteq J, Committed \subseteq B \cup J,
         NEW b, \A x \in Columns : SyncColumn(b.cols[x], x, A, open),
         Kind(c) = "moveTask" /\ Card(c) = k /\ b.cards[k] = Gone => board.cards[k] = Gone,
         SyncCard(b.cards[k], k, A, H, open), b.cards[k] # Gone => b.cards[k] \in CardRows,
         NEW s, EventCard(b, c, k, s)
  PROVE  SyncCard(s, k, B, J, open)
<1>1. CASE ~(Kind(c) \in TaskKinds /\ Card(c) = k)
  BY <1>1, EventElsewhere
<1>2. CASE Kind(c) \in {"createTask", "editTask"} /\ Card(c) = k
  BY <1>2, EventWritten
<1>3. CASE Kind(c) = "moveTask" /\ Card(c) = k
  <2>1. b.cards[k] # Gone => /\ SyncPlace(b.cards[k], k, A, open) /\ SyncText(b.cards[k], k, A, open)
                             /\ b.cards[k].version \in Nat
    BY DEF SyncCard, CardRows
  <2> QED
    BY <1>3, <2>1, EventMoved
<1>4. CASE Kind(c) = "deleteTask" /\ Card(c) = k
  <2>1. s = Gone
    BY <1>4 DEF EventCard
  <2>2. board.cards[k] = Gone
    BY <1>4 DEF HistoryInv, CardInv, OnCard
  <2> QED
    BY <2>1, <2>2 DEF SyncCard
<1> QED
  BY <1>1, <1>2, <1>3, <1>4 DEF TaskKinds
-----------------------------------------------------------------------------

LEMMA NotACopy == ~IsCopy(NoBoard)
<1>1. \A i \in DOMAIN NoBoard : i \in 1 .. 0
  BY DEF NoBoard
<1>2. DOMAIN NoBoard = {}
  BY <1>1
<1> QED
  BY <1>2, CopyDomains

\* A call is not later than itself.
LEMMA NeverLater ==
  ASSUME TInv, HistoryInv
  PROVE  \A c : ~Later(c, c)
BY DEF Later, HistoryInv, OnceEach, TInv, ServerOK

LEMMA DeliverComing ==
  ASSUME TInv, HistoryInv, HeardInv, Deliver, NEW c, c = Head(inbox)
  PROVE  /\ UNCHANGED <<board, stage, payload, order, told, body, snapshot, newest, answer, fetch>>
         /\ c \in Committed /\ c \in Calls /\ stage[c] = "committed"
         /\ Committed' = Committed /\ Pending' = Pending /\ heard' = heard \cup {c}
         /\ Coming' \subseteq Coming /\ Coming \ {c} \subseteq Coming'
         /\ cache' = IF cache = NoBoard THEN NoBoard ELSE OnEvent(cache, c)
         /\ trouble' = trouble \cup EventTrouble(c)
         /\ touched' = IF cache' # cache THEN touched \cup Pending ELSE touched
         /\ ignored' = IF cache' # cache THEN ignored ELSE ignored \cup Pending
         /\ HeardInv'
<1>1. /\ inbox # <<>> /\ inbox' = Tail(inbox)
      /\ cache' = IF cache = NoBoard THEN NoBoard ELSE OnEvent(cache, c)
      /\ heard' = heard \cup {c}
      /\ trouble' = trouble \cup EventTrouble(c)
      /\ touched' = IF cache' # cache THEN touched \cup Pending ELSE touched
      /\ ignored' = IF cache' # cache THEN ignored ELSE ignored \cup Pending
      /\ UNCHANGED <<board, stage, payload, order, told, body, snapshot, newest, answer, fetch>>
  BY DEF Deliver, server
<1>2. /\ inbox' \in Seq(Calls) /\ c = inbox[1] /\ Len(inbox) \in Nat /\ Len(inbox) >= 1
      /\ Len(inbox') = Len(inbox) - 1
      /\ \A i \in 1 .. Len(inbox') : inbox'[i] = inbox[i + 1]
  BY <1>1 DEF TInv, WireOK
<1>3. c \in Calls /\ c \in Committed /\ stage[c] = "committed"
  BY <1>2 DEF TInv, WireOK, ServerOK, Accepted
<1>4. Committed' = Committed /\ Pending' = Pending
  BY <1>1, SameHistory DEF Pending, Mine
<1>5. Coming' \subseteq Coming
  <2> SUFFICES ASSUME NEW d \in Coming' PROVE d \in Coming
    OBVIOUS
  <2>1. d \in Committed /\ (d \notin told \/ \E i \in 1 .. Len(inbox') : inbox'[i] = d)
    BY <1>1, <1>4 DEF Coming
  <2>2. ASSUME NEW i \in 1 .. Len(inbox'), inbox'[i] = d PROVE d \in Coming
    <3>1. i + 1 \in 1 .. Len(inbox) /\ inbox[i + 1] = d
      BY <1>2, <2>2
    <3> QED
      BY <2>1, <3>1 DEF Coming
  <2> QED
    BY <2>1, <2>2 DEF Coming
<1>6. Coming \ {c} \subseteq Coming'
  <2> SUFFICES ASSUME NEW d \in Coming, d # c PROVE d \in Coming'
    OBVIOUS
  <2>1. d \in Committed /\ (d \notin told \/ \E i \in 1 .. Len(inbox) : inbox[i] = d)
    BY DEF Coming
  <2>2. ASSUME NEW i \in 1 .. Len(inbox), inbox[i] = d PROVE d \in Coming'
    <3>1. i - 1 \in 1 .. Len(inbox') /\ inbox'[i - 1] = d
      BY <1>2, <2>2
    <3> QED
      BY <1>4, <2>1, <3>1 DEF Coming
  <2> QED
    BY <1>1, <1>4, <2>1, <2>2 DEF Coming
<1>7. HeardInv'
  BY <1>1, <1>4, <1>6 DEF HeardInv
<1> QED
  BY <1>1, <1>3, <1>4, <1>5, <1>6, <1>7

\* What the page takes in without trouble is not outdated.
LEMMA DeliverUnbeaten ==
  ASSUME TInv, HistoryInv, HeardInv, Deliver, NEW c, c = Head(inbox), cache # NoBoard, trouble' = {}
  PROVE  /\ trouble = {}
         /\ Unbeaten(c, Coming', heard)
         /\ Kind(c) = "moveTask" /\ cache.cards[Card(c)] = Gone => board.cards[Card(c)] = Gone
<1>1. /\ trouble' = trouble \cup EventTrouble(c) /\ c \in Committed
      /\ Coming \ {c} \subseteq Coming'
  BY DeliverComing
<1>2. trouble = {} /\ EventTrouble(c) = {}
  BY <1>1
<1>3. ~EventOutdated(c)
  <2> SUFFICES ASSUME EventOutdated(c) PROVE FALSE
    OBVIOUS
  <2>1. "outdated" \in EventTrouble(c)
    BY DEF EventTrouble
  <2> QED
    BY <1>2, <2>1
<1>4. Kind(c) = "moveTask" /\ cache.cards[Card(c)] = Gone => board.cards[Card(c)] = Gone
  <2> SUFFICES ASSUME Kind(c) = "moveTask", cache.cards[Card(c)] = Gone, board.cards[Card(c)] # Gone PROVE FALSE
    OBVIOUS
  <2>1. "orphaned" \in EventTrouble(c)
    BY DEF EventTrouble
  <2> QED
    BY <1>2, <2>1
<1>5. \A d \in Calls : Later(d, c) => d \in Committed /\ d # c
  BY NeverLater, LaterFacts DEF TInv, ServerOK
<1>6. ASSUME NEW d \in Calls, Later(d, c) PROVE ~Reranks(c, d)
  <2>1. Reranks(c, d) => d \in heard
    BY <1>2, <1>5, <1>6 DEF HeardInv, Reranks
  <2> QED
    BY <1>3, <1>6, <2>1 DEF EventOutdated, Outdated, Undoes
<1>7. ASSUME Kind(c) # "moveTask", NEW d \in Calls, Later(d, c), Undoes(c, d) PROVE d \in Coming' /\ d \notin heard
  <2>1. d \notin heard
    BY <1>3, <1>7 DEF EventOutdated, Outdated
  <2>2. d \in Coming
    BY <1>2, <1>5, <1>7, <2>1 DEF HeardInv
  <2> QED
    BY <1>1, <1>5, <1>7, <2>1, <2>2
<1> QED
  BY <1>2, <1>4, <1>6, <1>7 DEF Unbeaten

LEMMA DeliverCacheSync ==
  ASSUME TInv, HistoryInv, HeardInv, CacheSync, Deliver
  PROVE  CacheSync'
<1> DEFINE c == Head(inbox)
<1> SUFFICES ASSUME trouble' = {}, cache' # NoBoard PROVE CacheSync'
  BY DEF CacheSync
<1>0. /\ UNCHANGED <<board, stage, payload, order, told, body, snapshot, newest, answer, fetch>>
      /\ c \in Committed /\ c \in Calls /\ stage[c] = "committed"
      /\ Committed' = Committed /\ Pending' = Pending /\ heard' = heard \cup {c}
      /\ Coming' \subseteq Coming /\ Coming \ {c} \subseteq Coming'
      /\ cache' = IF cache = NoBoard THEN NoBoard ELSE OnEvent(cache, c)
      /\ HeardInv'
  BY DeliverComing
<1>1. cache # NoBoard /\ cache' = OnEvent(cache, c)
  BY <1>0
<1> HIDE DEF c
<1>2. /\ trouble = {}
      /\ Unbeaten(c, Coming', heard)
      /\ Kind(c) = "moveTask" /\ cache.cards[Card(c)] = Gone => board.cards[Card(c)] = Gone
  BY <1>1, DeliverUnbeaten DEF c
<1>3. IsCopy(cache)
  BY <1>1 DEF TInv, PageOK
<1>4. /\ \A q \in Cards : EventCard(cache, c, q, cache'.cards[q])
      /\ \A x \in Columns : EventColumn(cache, c, x, cache'.cols[x])
  BY <1>0, <1>1, <1>3, EventEffect DEF TInv, ServerOK
<1>5. /\ \A x \in Columns : SyncColumn(cache.cols[x], x, Coming, Pending)
      /\ \A k \in Cards : SyncCard(cache.cards[k], k, Coming, heard, Pending)
  BY <1>1, <1>2 DEF CacheSync
<1>6. Coming \subseteq Committed /\ Committed \subseteq Coming' \cup heard'
  BY <1>0, <1>2, ComingFacts DEF HeardInv
<1>7. ASSUME NEW x \in Columns PROVE SyncColumn(cache.cols[x], x, Coming, Pending)'
  <2>1. \A s, B : s = cache'.cols[x] /\ B = Coming' => SyncColumn(s, x, B, Pending)
    BY <1>0, <1>2, <1>4, <1>5, EventColumnSync
  <2>2. \A s, B, o : s = cache'.cols[x] /\ B = Coming' /\ o = Pending' => SyncColumn(s, x, B, o)'
    BY <1>0, <2>1, ColumnStays
  <2> QED
    BY <2>2
<1>8. ASSUME NEW k \in Cards PROVE SyncCard(cache.cards[k], k, Coming, heard, Pending)'
  <2>1. cache.cards[k] # Gone => cache.cards[k] \in CardRows
    BY <1>3, CopyDomains
  <2>2. \A s, B, J : s = cache'.cards[k] /\ B = Coming' /\ J = heard' => SyncCard(s, k, B, J, Pending)
    <3> SUFFICES ASSUME NEW s, s = cache'.cards[k], NEW B, B = Coming', NEW J, J = heard'
                 PROVE  SyncCard(s, k, B, J, Pending)
      OBVIOUS
    <3>1. EventCard(cache, c, k, s) /\ SyncCard(cache.cards[k], k, Coming, heard, Pending)
      BY <1>4, <1>5
    <3>2. B \subseteq Coming /\ Coming \ {c} \subseteq B /\ heard \subseteq J /\ Committed \subseteq B \cup J
          /\ Coming \subseteq Committed /\ Unbeaten(c, B, heard) /\ c \in Committed
      BY <1>0, <1>2, <1>6
    <3>3. Kind(c) = "moveTask" /\ Card(c) = k /\ cache.cards[k] = Gone => board.cards[k] = Gone
      BY <1>2
    <3> QED
      BY <1>5, <2>1, <3>1, <3>2, <3>3, EventCardSync
  <2>3. newest'[k] = newest[k] /\ Coming' \subseteq Committed /\ (\A d \in Committed : payload'[d] = payload[d])
    BY <1>0, <1>6
  <2>4. \A s, B, J, o : s = cache'.cards[k] /\ B = Coming' /\ J = heard' /\ o = Pending' => SyncCard(s, k, B, J, o)'
    BY <1>0, <2>2, <2>3, CardStays
  <2> QED
    BY <2>4
<1> QED
  BY <1>7, <1>8 DEF CacheSync
-----------------------------------------------------------------------------

\* An event that leaves a moved card at the page's estimate is of a move the page had seen
\* coming.
LEMMA EventSeen ==
  ASSUME TInv, NEW m \in Calls, NEW k \in Cards, Kind(m) = "moveTask", Card(m) = k,
         NEW o, NEW b, MutateCard(o, m, k, b.cards[k]), o.cards[k] # Gone => o.cards[k].version \in Nat,
         NEW c \in Committed, EventCard(b, c, k, b.cards[k]), Kind(c) \in TaskKinds, Card(c) = k
  PROVE  Kind(c) = "moveTask" /\ payload[c].version <= o.cards[k].version + 1
<1> DEFINE r == b.cards[k] p == payload[c]
<1>1. /\ o.cards[k] # Gone /\ r # Gone /\ r.version = o.cards[k].version + 1 /\ r.rank = Guess
      /\ o.cards[k].version \in Nat
  BY DEF MutateCard
<1>2. c \in Calls /\ stage[c] = "committed" /\ (Kind(c) # "deleteTask" => CardRow(p))
  BY DEF TInv, ServerOK, Accepted, PayloadOK, TaskKinds
<1>3. Kind(c) # "deleteTask" => p.rank # Guess /\ p.version \in Nat
  BY <1>2, RowFields
<1>4. CASE Kind(c) = "deleteTask"
  BY <1>1, <1>4 DEF EventCard
<1>5. CASE Kind(c) \in {"createTask", "editTask"}
  BY <1>1, <1>3, <1>5 DEF EventCard
<1>6. CASE Kind(c) = "moveTask"
  <2>1. ~(p.version > r.version)
    <3> SUFFICES ASSUME p.version > r.version PROVE FALSE
      OBVIOUS
    <3>1. IF b.cols[p.column] = Gone THEN r = Gone ELSE Moved(r, p, r.text)
      BY <1>1, <1>6 DEF EventCard
    <3>2. r.rank = p.rank
      BY <1>1, <3>1 DEF Moved
    <3> QED
      BY <1>1, <1>3, <1>6, <3>2
  <2> QED
    BY <1>1, <1>3, <1>6, <2>1
<1> QED
  BY <1>4, <1>5, <1>6 DEF TaskKinds

LEMMA DeliverSnapshotSync ==
  ASSUME TInv, HistoryInv, HeardInv, SnapshotSync, Deliver
  PROVE  SnapshotSync'
<1> DEFINE c == Head(inbox)
<1>0. /\ UNCHANGED <<board, stage, payload, order, told, body, snapshot, newest, answer, fetch>>
      /\ c \in Committed /\ c \in Calls /\ stage[c] = "committed"
      /\ Committed' = Committed /\ Pending' = Pending
      /\ Coming' \subseteq Coming /\ Coming \ {c} \subseteq Coming'
      /\ cache' = IF cache = NoBoard THEN NoBoard ELSE OnEvent(cache, c)
      /\ trouble' = trouble \cup EventTrouble(c)
      /\ touched' = IF cache' # cache THEN touched \cup Pending ELSE touched
      /\ ignored' = IF cache' # cache THEN ignored ELSE ignored \cup Pending
  BY DeliverComing
<1> HIDE DEF c
<1> SUFFICES ASSUME trouble' = {}, NEW m \in Pending' \ touched' PROVE Restorable(m)'
  BY DEF SnapshotSync
<1>1. /\ cache' = cache /\ m \in Pending /\ m \notin touched /\ m \in ignored' /\ ignored' = ignored \cup Pending
      /\ trouble = {}
  BY <1>0
<1>2. m \in Calls /\ Loaded
  BY <1>1 DEF Pending, Mine, Loaded
<1>3. Restorable(m)
  BY <1>1 DEF SnapshotSync
<1>4. IsCopy(cache) /\ IsCopy(snapshot[m]) /\ cache # NoBoard
  BY <1>1, <1>2, NotACopy DEF TInv, PageOK
<1>5. /\ \A q \in Cards : MutateCard(snapshot[m], m, q, cache.cards[q])
      /\ \A x \in Columns : MutateColumn(snapshot[m], m, x, cache.cols[x])
      /\ Pending = {m}
  BY <1>3 DEF Restorable
<1>6. /\ \A q \in Cards : MutateCard(snapshot[m], m, q, cache.cards[q])'
      /\ \A x \in Columns : MutateColumn(snapshot[m], m, x, cache.cols[x])'
  BY <1>0, <1>1, <1>2, <1>5, SameEstimate
<1>7. ASSUME Kind(m)' = "moveTask"
      PROVE  /\ newest'[Card(m)'] = m
             /\ stage'[m] = "conflict" => SyncPlace(payload[m], Card(m), Coming \cup Seen(m), {})'
  <2> DEFINE k == Card(m)
  <2>1. Kind(m) = "moveTask" /\ Card(m)' = k /\ k \in Cards
    <3>1. Kind(m) = "moveTask" /\ Card(m)' = k
      BY <1>0, <1>7 DEF Kind, Card
    <3> QED
      BY <1>2, <3>1, BodyFacts DEF TInv, ServerOK, TaskKinds
  <2>2. newest[k] = m
    BY <1>3, <2>1 DEF Restorable
  <2> SUFFICES ASSUME stage'[m] = "conflict" PROVE SyncPlace(payload[m], Card(m), Coming \cup Seen(m), {})'
    BY <1>0, <2>1, <2>2
  <2>3. SyncPlace(payload[m], k, Coming \cup Seen(m), {})
    BY <1>0, <1>3, <2>1 DEF Restorable
  <2>4. Seen(m)' = {d \in Committed : /\ Kind(d) = "moveTask" /\ Card(d) = k
                                      /\ payload[d].version <= snapshot[m].cards[k].version + 1}
    BY <1>0, <1>1, <2>1 DEF Seen, Kind, Card
  <2>5. Seen(m) \subseteq Seen(m)' /\ Seen(m) \subseteq Committed
    BY <2>4 DEF Seen
  <2>6. EventCard(cache, c, k, cache.cards[k])
    <3>1. EventCard(cache, c, k, OnEvent(cache, c).cards[k])
      BY <1>0, <1>4, <2>1, EventEffect DEF TInv, ServerOK
    <3> QED
      BY <1>0, <1>1, <1>4, <3>1
  <2>7. Kind(c) \in TaskKinds /\ Card(c) = k => c \in Seen(m)'
    <3> SUFFICES ASSUME Kind(c) \in TaskKinds, Card(c) = k PROVE c \in Seen(m)'
      OBVIOUS
    <3>1. MutateCard(snapshot[m], m, k, cache.cards[k])
      BY <1>5, <2>1
    <3>2. snapshot[m].cards[k] # Gone => snapshot[m].cards[k].version \in Nat
      BY <1>4, <2>1, CopyDomains
    <3> HIDE DEF k
    <3>3. Kind(c) = "moveTask" /\ payload[c].version <= snapshot[m].cards[k].version + 1
      BY <1>0, <1>2, <2>1, <2>6, <3>1, <3>2, EventSeen DEF k
    <3> QED
      BY <1>0, <2>4, <3>3
  <2>8. \A d \in Coming \cup Seen(m) : Kind(d) \in TaskKinds /\ Card(d) = k => d \in Coming' \cup Seen(m)'
    BY <1>0, <2>5, <2>7
  <2>9. Coming \cup Seen(m) \subseteq Committed
    BY <2>5, ComingFacts
  <2>10. newest'[k] = newest[k] /\ \A d \in Committed : payload'[d] = payload[d]
    BY <1>0
  <2> HIDE DEF k
  <2>11. \A r, q, B : r = payload'[m] /\ q = k /\ B = Coming' \cup Seen(m)' => SyncPlace(r, q, B, {})'
    BY <1>0, <2>3, <2>8, <2>9, <2>10, PlaceStays
  <2> QED
    BY <2>1, <2>11
<1> QED
  BY <1>0, <1>1, <1>5, <1>6, <1>7 DEF Restorable

LEMMA DeliverSInv ==
  ASSUME TInv, HistoryInv, SInv, Deliver
  PROVE  SInv'
<1>1. HeardInv' /\ CacheSync' /\ SnapshotSync'
  BY DeliverComing, DeliverCacheSync, DeliverSnapshotSync DEF SInv
<1>2. FetchSync'
  <2> DEFINE c == Head(inbox)
  <2>1. /\ UNCHANGED <<board, stage, payload, order, told, body, snapshot, newest, answer, fetch>>
        /\ heard' = heard \cup {c} /\ Coming \ {c} \subseteq Coming'
    BY DeliverComing DEF SInv
  <2> QED
    BY <2>1, FetchSyncKept DEF SInv
<1> QED
  BY <1>1, <1>2 DEF SInv
-----------------------------------------------------------------------------

\* A committed call may close when nothing of the copy rests on its being open.
LEMMA ClosedColumn ==
  ASSUME NEW m \in Committed, NEW A, NEW open, NEW x, NEW r, SyncColumn(r, x, A, open)
  PROVE  SyncColumn(r, x, A, open \ {m})
<1>1. (open \ {m}) \ Committed = open \ Committed
  OBVIOUS
<1> QED
  BY <1>1 DEF SyncColumn

LEMMA ClosedText ==
  ASSUME NEW m \in Committed, NEW A, NEW open, NEW k, NEW r, SyncText(r, k, A, open)
  PROVE  SyncText(r, k, A, open \ {m})
<1>1. (open \ {m}) \ Committed = open \ Committed
  OBVIOUS
<1> QED
  BY <1>1 DEF SyncText

LEMMA ClosedPlace ==
  ASSUME NEW m \in Committed, NEW A, NEW open, NEW k, newest[k] # m, NEW r, SyncPlace(r, k, A, open)
  PROVE  SyncPlace(r, k, A, open \ {m})
<1>1. (newest[k] \in open \ {m}) <=> newest[k] \in open
  OBVIOUS
<1> QED
  BY <1>1 DEF SyncPlace, Doomed, SyncRow

LEMMA ClosedMissing ==
  ASSUME NEW m \in Committed, NEW A, NEW open, NEW k, NEW H, Missing(k, A, H, open),
         \/ newest[k] # m
         \/ \A d \in H : ~(Kind(d) = "moveTask" /\ Card(d) = k /\ Later(d, m))
  PROVE  Missing(k, A, H, open \ {m})
<1>1. (open \ {m}) \ Committed = open \ Committed
  OBVIOUS
<1> QED
  BY <1>1 DEF Missing

LEMMA ClosedCard ==
  ASSUME NEW m \in Committed, NEW A, NEW open, NEW k, newest[k] # m, NEW H, NEW J, H \subseteq J,
         NEW r, SyncCard(r, k, A, H, open)
  PROVE  SyncCard(r, k, A, J, open \ {m})
<1>1. r # Gone => SyncPlace(r, k, A, open \ {m}) /\ SyncText(r, k, A, open \ {m})
  BY ClosedPlace, ClosedText DEF SyncCard
<1>2. ASSUME Missing(k, A, H, open) PROVE Missing(k, A, J, open \ {m})
  <2>1. Missing(k, A, H, open \ {m})
    BY <1>2, ClosedMissing
  <2> QED
    BY <2>1, MissingFewer
<1> QED
  BY <1>1, <1>2 DEF SyncCard

\* What an answer leaves of a column's copy.
LEMMA AnswerColumnSync ==
  ASSUME TInv, HistoryInv, NEW m \in Committed, NEW x \in Columns,
         NEW A, NEW H, Kind(m) # "renameColumn" => Unbeaten(m, A, H), NEW open,
         NEW b, SyncColumn(b.cols[x], x, A, open),
         Kind(m) = "createColumn" /\ Target(m) = x /\ b.temps[m] = Gone => b.cols[x] = Gone,
         NEW s, AnswerColumn(b, m, x, s)
  PROVE  SyncColumn(s, x, A, open \ {m})
<1> DEFINE r == b.cols[x]
<1>1. CASE Target(m) = x /\ Kind(m) \in {"createColumn", "moveColumn"}
  <2>1. /\ Kind(m) = "createColumn" => SyncColumn(payload[m], x, A, open)
        /\ \A u : Kind(m) = "moveColumn" /\ Reordered(u, r, payload[m]) => SyncColumn(u, x, A, open)
    <3>1. A \ {m} \subseteq A
      OBVIOUS
    <3> QED
      BY <1>1, <3>1, PayloadColumn
  <2>2. SyncColumn(s, x, A, open)
    <3>1. CASE Kind(m) = "createColumn" /\ b.temps[m] = Gone
      <4>1. s = r
        BY <1>1, <3>1 DEF AnswerColumn
      <4> QED
        BY <4>1
    <3>2. CASE Kind(m) = "createColumn" /\ b.temps[m] # Gone
      BY <1>1, <2>1, <3>2 DEF AnswerColumn
    <3>3. CASE Kind(m) = "moveColumn"
      BY <1>1, <2>1, <3>3 DEF AnswerColumn
    <3> QED
      BY <1>1, <3>1, <3>2, <3>3
  <2> QED
    BY <2>2, ClosedColumn
<1>2. CASE ~(Target(m) = x /\ Kind(m) \in {"createColumn", "moveColumn"})
  <2>1. s = r
    BY <1>2 DEF AnswerColumn
  <2> QED
    BY <2>1, ClosedColumn
<1> QED
  BY <1>1, <1>2
-----------------------------------------------------------------------------

\* What an edit's answer leaves of its card: the row, in the column the page has it in.
LEMMA AnswerEdited ==
  ASSUME TInv, HistoryInv, NEW m \in Committed, Kind(m) = "editTask", NEW k \in Cards, Card(m) = k, newest[k] # m,
         NEW A, A \subseteq Committed, NEW H, Unbeaten(m, A, H), Committed \subseteq A \cup H, NEW open,
         NEW r, r # Gone, r.version \in Nat, SyncPlace(r, k, A, open),
         m \in H => ~(r.version < payload[m].version),
         NEW s, s # Gone, s.column = r.column, s.version = payload[m].version, s.rank = payload[m].rank,
         s.text = payload[m].text
  PROVE  SyncPlace(s, k, A, open \ {m}) /\ SyncText(s, k, A, open \ {m})
<1> DEFINE p == payload[m] t == board.cards[k] o == open \ {m}
<1>0. /\ SyncPlace(p, k, A, o) /\ SyncText(p, k, A, o)
  BY PayloadPlace
<1>1. p.version \in Nat
  BY RowFields DEF TInv, ServerOK, Accepted, PayloadOK
<1>2. SyncPlace(r, k, A, o)
  BY ClosedPlace
<1>3. SyncText(s, k, A, o)
  BY <1>0 DEF SyncText
<1>4. ASSUME t = Gone PROVE Doomed(s, k, A, o)
  <2>1. Doomed(p, k, A, o) /\ Doomed(r, k, A, o)
    BY <1>0, <1>2, <1>4 DEF SyncPlace
  <2>2. CASE m \in A
    BY <2>2 DEF Doomed, OnCard
  <2>3. CASE m \notin A
    <3>1. m \in H /\ r.version >= p.version
      BY <1>1, <2>3
    <3>2. \A d \in A : Kind(d) = "moveTask" => payload[d].version \in Nat
      BY RowFields DEF TInv, ServerOK, Accepted, PayloadOK
    <3>3. ASSUME NEW d \in A, Kind(d) = "moveTask", Card(d) = k, payload[d].version > r.version
          PROVE  payload[d].version > s.version
      BY <1>1, <3>1, <3>2, <3>3
    <3> QED
      BY <2>1, <3>3 DEF Doomed
  <2> QED
    BY <2>2, <2>3
<1>5. ASSUME t # Gone PROVE SyncRow(s, k, A, o)
  <2>1. SyncRow(r, k, A, o) /\ CardPayload(m) /\ t.version \in Nat
    BY <1>2, <1>5, BoardFacts, RowFields DEF SyncPlace, HistoryInv, PayloadInv, TInv, ServerOK
  <2>2. p.version <= t.version /\ (p.version = t.version => p.rank = t.rank)
    BY <1>5, <2>1 DEF CardPayload, Unbeaten
  <2>3. CASE p.version < t.version
    BY <2>3 DEF SyncRow
  <2>4. CASE p.version = t.version /\ m \in A
    <3>1. Edited(k, A)
      BY <2>4 DEF Edited
    <3> QED
      BY <2>2, <2>4, <3>1 DEF SyncRow
  <2>5. CASE p.version = t.version /\ m \notin A
    <3>1. ~(r.version < t.version)
      BY <1>1, <2>5
    <3>2. s.version = t.version /\ s.rank = t.rank /\ s.version <= t.version /\ s.column = r.column
      BY <2>1, <2>2, <2>5
    <3> HIDE DEF o
    <3> QED
      BY <2>1, <3>1, <3>2 DEF SyncRow
  <2> QED
    BY <1>1, <2>1, <2>2, <2>3, <2>4, <2>5
<1>6. Fresh(s.version, k, A) /\ NoLess(s.version, k)
  BY <1>0 DEF SyncPlace
<1> HIDE DEF o
<1>7. SyncPlace(s, k, A, o)
  BY <1>2, <1>4, <1>5, <1>6 DEF SyncPlace
<1> QED
  BY <1>3, <1>7 DEF o

\* What a move's answer leaves of its card.
LEMMA AnswerMoved ==
  ASSUME TInv, HistoryInv, NEW m \in Committed, Kind(m) = "moveTask", NEW k \in Cards, Card(m) = k,
         NEW A, A \subseteq Committed, NEW H, Unbeaten(m, A, H), Committed \subseteq A \cup H, NEW open,
         \A d \in Calls : Later(d, m) /\ Undoes(m, d) => d \in A /\ d \notin H,
         NEW b, \A x \in Columns : SyncColumn(b.cols[x], x, A, open),
         SyncCard(b.cards[k], k, A, H, open),
         NEW s, AnswerCard(b, m, k, s)
  PROVE  SyncCard(s, k, A, H, open \ {m})
<1> DEFINE p == payload[m] r == b.cards[k] t == board.cards[k] o == open \ {m}
<1>0. /\ CardPayload(m) /\ p.version \in Nat
      /\ \A d, e : Later(d, e) => d \in Committed /\ e \in Committed
      /\ \A d, e \in Committed : d = e \/ Later(d, e) \/ Later(e, d)
      /\ Committed \subseteq Calls
  <2>1. order \in Seq(Calls) /\ stage[m] = "committed" /\ CardRow(p) /\ m \in Calls
    BY DEF TInv, ServerOK, Accepted, PayloadOK
  <2> QED
    BY <2>1, LaterFacts, RowFields DEF HistoryInv, PayloadInv
<1>1. \A d \in Calls : Later(d, m) /\ Kind(d) = "moveTask" /\ Card(d) = k => d \in A /\ d \notin H
  BY DEF Undoes, TaskKinds
<1>2. CASE r = Gone
  <2>1. s = Gone
    BY <1>2 DEF AnswerCard
  <2>2. ASSUME t # Gone PROVE Missing(k, A, H, o)
    <3>1. Missing(k, A, H, open)
      BY <1>2, <2>2 DEF SyncCard
    <3>2. \A d \in H : ~(Kind(d) = "moveTask" /\ Card(d) = k /\ Later(d, m))
      BY <1>0, <1>1
    <3> QED
      BY <3>1, <3>2, ClosedMissing
  <2> QED
    BY <2>1, <2>2 DEF SyncCard
<1>3. CASE r # Gone
  <2>1. IF b.cols[p.column] = Gone THEN s = Gone ELSE Moved(s, p, r.text)
    BY <1>3 DEF AnswerCard
  <2>2. ASSUME NEW d \in Committed \ A, Kind(d) = "moveTask", Card(d) = k PROVE payload[d].version <= p.version
    <3>1. d = m \/ Later(m, d)
      BY <1>0, <1>1, <2>2
    <3>2. CardPayload(d) /\ payload[d].version \in Nat
      BY <2>2, RowFields DEF HistoryInv, PayloadInv, TInv, ServerOK, Accepted, PayloadOK
    <3>3. CASE d = m
      BY <1>0, <3>3
    <3>4. CASE Later(m, d)
      <4>1. p.version > payload[d].version
        BY <1>0, <2>2, <3>2, <3>4 DEF CardPayload
      <4> QED
        BY <1>0, <3>2, <4>1
    <3> QED
      BY <3>1, <3>3, <3>4
  <2>3. Fresh(p.version, k, A)
    BY <2>2 DEF Fresh
  <2>4. \A d \in Calls : Later(d, m) => ~Reranks(m, d)
    BY DEF Unbeaten
  <2>5. /\ SyncText(r, k, A, o)
        /\ \A d \in Committed : Kind(d) = "deleteTask" /\ Card(d) = k => d \in A
    BY <1>3, ClosedText DEF SyncCard, SyncPlace
  <2>6. \A x \in Columns : SyncColumn(b.cols[x], x, A, o)
    BY ClosedColumn
  <2>7. A \ {m} \subseteq A
    OBVIOUS
  <2> HIDE DEF p, r, o
  <2>8. SyncCard(s, k, A, H, o)
    BY <1>1, <1>3, <2>1, <2>3, <2>4, <2>5, <2>6, <2>7, MoveTaken DEF p
  <2> QED
    BY <2>8 DEF o
<1> QED
  BY <1>2, <1>3
-----------------------------------------------------------------------------

\* What the answer of a create leaves of its card: the row, in the place of the placeholder.
LEMMA AnswerCreated ==
  ASSUME TInv, HistoryInv, NEW m \in Committed, Kind(m) = "createTask", NEW k \in Cards, Card(m) = k, newest[k] # m,
         NEW A, A \subseteq Committed, NEW H, Unbeaten(m, A, H), NEW open,
         NEW b, SyncCard(b.cards[k], k, A, H, open), b.temps[m] = Gone => b.cards[k] = Gone,
         NEW s, AnswerCard(b, m, k, s)
  PROVE  SyncCard(s, k, A, H, open \ {m})
<1> DEFINE p == payload[m]
<1>1. CASE b.temps[m] = Gone
  <2>1. s = b.cards[k]
    BY <1>1 DEF AnswerCard
  <2> QED
    BY <2>1, ClosedCard
<1>2. CASE b.temps[m] # Gone
  <2>1. Moved(s, [p EXCEPT !.column = Target(m)], p.text)
    BY <1>2 DEF AnswerCard
  <2>2. CardRow(p) /\ CardPayload(m)
    BY DEF TInv, ServerOK, Accepted, PayloadOK, HistoryInv, PayloadInv
  <2>3. p.column = Target(m) /\ p \in CardRows
    BY <2>2, RowFields DEF CardPayload
  <2>4. [p EXCEPT !.column = Target(m)] = p
    BY <2>3 DEF CardRows
  <2>5. s # Gone /\ s.column = p.column /\ s.version = p.version /\ s.rank = p.rank /\ s.text = p.text
    BY <2>1, <2>4 DEF Moved
  <2>6. SyncPlace(p, k, A, open \ {m}) /\ SyncText(p, k, A, open \ {m})
    BY PayloadPlace
  <2>7. SyncPlace(s, k, A, open \ {m})
    BY <2>5, <2>6, SamePlace
  <2>8. SyncText(s, k, A, open \ {m})
    BY <2>5, <2>6 DEF SyncText
  <2> QED
    BY <2>5, <2>7, <2>8 DEF SyncCard
<1> QED
  BY <1>1, <1>2

\* A new column has no cards: what the page had in it is brought.
LEMMA AnswerEmptied ==
  ASSUME TInv, HistoryInv, NEW m \in Committed, Kind(m) = "createColumn", NEW k \in Cards, newest[k] # m,
         NEW A, A \subseteq Committed, NEW H, Committed \subseteq A \cup H, NEW open,
         \A d \in Calls : Later(d, m) /\ Undoes(m, d) => d \in A,
         NEW r \in CardRows, r.column = Target(m), SyncPlace(r, k, A, open), board.cards[k] # Gone
  PROVE  Missing(k, A, H, open \ {m})
<1> DEFINE t == board.cards[k]
<1>1. CASE t.column # Target(m)
  <2>1. Missing(k, A, H, open)
    BY <1>1, OtherColumn
  <2> QED
    BY <2>1, ClosedMissing
<1>2. CASE t.column = Target(m)
  <2>1. PICK d \in Committed : Kind(d) \in {"createTask", "moveTask"} /\ Card(d) = k /\ Later(d, m) /\ Target(d) = t.column
    BY <1>2 DEF HistoryInv, CardInv
  <2>2. d \in A
    BY <1>2, <2>1, ComingFacts DEF Undoes
  <2> QED
    BY <2>1, <2>2 DEF Missing, OnCard
<1> QED
  BY <1>1, <1>2

\* What an answer leaves of a card's copy.
LEMMA AnswerCardSync ==
  ASSUME TInv, HistoryInv, NewestInv, NEW m \in Committed, IsCurrent(m), NEW k \in Cards,
         NEW A, A \subseteq Committed, NEW H, Committed \subseteq A \cup H, NEW open,
         Kind(m) # "renameColumn" =>
           /\ Unbeaten(m, A, H)
           /\ \A d \in Calls : Later(d, m) /\ Undoes(m, d) => d \in A /\ d \notin H,
         NEW b, \A x \in Columns : SyncColumn(b.cols[x], x, A, open),
         SyncCard(b.cards[k], k, A, H, open), b.cards[k] # Gone => b.cards[k] \in CardRows,
         Kind(m) = "createTask" /\ Card(m) = k /\ b.temps[m] = Gone => b.cards[k] = Gone,
         Kind(m) = "editTask" /\ Card(m) = k /\ m \in H /\ b.cards[k] # Gone =>
           ~(b.cards[k].version < payload[m].version),
         NEW s, AnswerCard(b, m, k, s)
  PROVE  SyncCard(s, k, A, H, open \ {m})
<1> DEFINE r == b.cards[k]
<1>0. ~(Kind(m) = "moveTask" /\ Card(m) = k) => newest[k] # m
  <2>1. m # Gone
    BY IdAssumption, ComingFacts
  <2> QED
    BY <2>1 DEF NewestInv
<1>1. CASE Kind(m) = "createTask" /\ Card(m) = k
  BY <1>0, <1>1, AnswerCreated
<1>2. CASE Kind(m) = "editTask" /\ Card(m) = k
  <2>1. CASE r = Gone
    <3>1. s = r
      BY <1>2, <2>1 DEF AnswerCard
    <3> QED
      BY <1>0, <1>2, <3>1, ClosedCard
  <2>2. CASE r # Gone
    <3>1. s # Gone /\ s.column = r.column /\ s.version = payload[m].version /\ s.rank = payload[m].rank
          /\ s.text = payload[m].text
      BY <1>2, <2>2 DEF AnswerCard
    <3>2. SyncPlace(r, k, A, open) /\ r.version \in Nat /\ Unbeaten(m, A, H) /\ (m \in H => ~(r.version < payload[m].version))
      BY <1>2, <2>2 DEF SyncCard, CardRows
    <3>3. SyncPlace(s, k, A, open \ {m}) /\ SyncText(s, k, A, open \ {m})
      <4> HIDE DEF r
      <4> QED
        BY <1>0, <1>2, <2>2, <3>1, <3>2, AnswerEdited
    <3> QED
      BY <3>1, <3>3 DEF SyncCard
  <2> QED
    BY <2>1, <2>2
<1>3. CASE Kind(m) = "moveTask" /\ Card(m) = k
  BY <1>3, AnswerMoved
<1>4. CASE Kind(m) = "createColumn" /\ r # Gone /\ r.column = Target(m)
  <2>1. s = Gone
    BY <1>4 DEF AnswerCard
  <2>2. SyncPlace(r, k, A, open) /\ r \in CardRows
    BY <1>4 DEF SyncCard
  <2> HIDE DEF r
  <2>3. board.cards[k] # Gone => Missing(k, A, H, open \ {m})
    BY <1>0, <1>4, <2>2, AnswerEmptied
  <2> QED
    BY <2>1, <2>3 DEF SyncCard
<1>5. CASE /\ ~(Kind(m) \in {"createTask", "editTask", "moveTask"} /\ Card(m) = k)
           /\ ~(Kind(m) = "createColumn" /\ r # Gone /\ r.column = Target(m))
  <2>1. s = r
    BY <1>5 DEF AnswerCard
  <2>2. newest[k] # m
    BY <1>0, <1>5
  <2> QED
    BY <2>1, <2>2, ClosedCard
<1> QED
  BY <1>1, <1>2, <1>3, <1>4, <1>5

LEMMA AnswerNames ==
  ASSUME TInv, HistoryInv, NEW m \in Calls, Answer(m)
  PROVE  /\ UNCHANGED <<board, stage, payload, order, told, body, inbox, newest, fetch>>
         /\ m \in Committed /\ m \in Pending /\ stage[m] = "committed"
         /\ Committed' = Committed /\ Coming' = Coming
         /\ Pending' = Pending \ {m} /\ heard' = heard \cup {m}
         /\ cache' = IF IsCurrent(m) THEN OnSuccess(cache, m) ELSE cache
         /\ trouble' = trouble \cup (IF IsCurrent(m) THEN AnswerTrouble(m) ELSE {})
         /\ touched' = touched \cup (Pending \ {m})
         /\ IsCopy(cache)
<1>1. /\ m \in Mine /\ stage[m] = "committed" /\ answer[m] = "none"
      /\ answer' = [answer EXCEPT ![m] = "ok"]
      /\ cache' = IF IsCurrent(m) THEN OnSuccess(cache, m) ELSE cache
      /\ trouble' = trouble \cup (IF IsCurrent(m) THEN AnswerTrouble(m) ELSE {})
      /\ heard' = heard \cup {m}
      /\ touched' = touched \cup (Pending \ {m})
      /\ UNCHANGED <<board, stage, payload, order, told, body, inbox, newest, fetch>>
  BY DEF Answer, server, wire
<1>2. m \in Committed /\ m \in Pending
  BY <1>1 DEF TInv, ServerOK, Accepted, Pending
<1>3. Committed' = Committed /\ Coming' = Coming
  BY <1>1, SameHistory DEF Coming
<1>4. Pending' = Pending \ {m}
  BY <1>1 DEF Pending, Mine, TInv, PageOK
<1>5. IsCopy(cache)
  BY <1>1 DEF TInv, PageOK, Loaded
<1> QED
  BY <1>1, <1>2, <1>3, <1>4, <1>5
-----------------------------------------------------------------------------

\* What an answer writes without trouble is not outdated.
LEMMA AnswerUnbeaten ==
  ASSUME TInv, HistoryInv, HeardInv, NEW m \in Calls, Answer(m), IsCurrent(m), trouble' = {}
  PROVE  /\ trouble = {}
         /\ Kind(m) # "renameColumn" =>
              /\ Unbeaten(m, Coming, heard)
              /\ \A d \in Calls : Later(d, m) /\ Undoes(m, d) => d \in Coming /\ d \notin heard
         /\ Kind(m) = "createTask" /\ cache.temps[m] = Gone => cache.cards[Card(m)] = Gone
         /\ Kind(m) = "createColumn" /\ cache.temps[m] = Gone => cache.cols[Target(m)] = Gone
         /\ Kind(m) = "editTask" /\ m \in heard /\ cache.cards[Card(m)] # Gone =>
              ~(cache.cards[Card(m)].version < payload[m].version)
<1>1. trouble = {} /\ AnswerTrouble(m) = {}
  BY AnswerNames
<1>2. ASSUME Kind(m) # "renameColumn" PROVE ~Outdated(m)
  <2> SUFFICES ASSUME Outdated(m) PROVE FALSE
    OBVIOUS
  <2>1. "outdated" \in AnswerTrouble(m)
    BY <1>2 DEF AnswerTrouble
  <2> QED
    BY <1>1, <2>1
<1>3. /\ Kind(m) = "createTask" /\ cache.temps[m] = Gone => cache.cards[Card(m)] = Gone
      /\ Kind(m) = "createColumn" /\ cache.temps[m] = Gone => cache.cols[Target(m)] = Gone
  <2> SUFFICES ASSUME cache.temps[m] = Gone,
                      \/ Kind(m) = "createTask" /\ cache.cards[Card(m)] # Gone
                      \/ Kind(m) = "createColumn" /\ cache.cols[Target(m)] # Gone
               PROVE  FALSE
    OBVIOUS
  <2>1. "swapped" \in AnswerTrouble(m)
    BY DEF AnswerTrouble
  <2> QED
    BY <1>1, <2>1
<1>4. Kind(m) = "editTask" /\ m \in heard /\ cache.cards[Card(m)] # Gone =>
        ~(cache.cards[Card(m)].version < payload[m].version)
  <2> SUFFICES ASSUME Kind(m) = "editTask", m \in heard, cache.cards[Card(m)] # Gone,
                      cache.cards[Card(m)].version < payload[m].version
               PROVE  FALSE
    OBVIOUS
  <2>1. "patched" \in AnswerTrouble(m)
    BY DEF AnswerTrouble
  <2> QED
    BY <1>1, <2>1
<1>5. \A d \in Calls : Later(d, m) => d \in Committed
  BY LaterFacts DEF TInv, ServerOK
<1>6. ASSUME Kind(m) # "renameColumn", NEW d \in Calls, Later(d, m), Undoes(m, d)
      PROVE  d \in Coming /\ d \notin heard
  <2>1. d \notin heard
    BY <1>2, <1>6 DEF Outdated
  <2> QED
    BY <1>1, <1>5, <1>6, <2>1 DEF HeardInv
<1>7. ASSUME Kind(m) # "renameColumn", NEW d \in Calls, Later(d, m) PROVE ~Reranks(m, d)
  <2>1. Reranks(m, d) => d \in heard /\ Undoes(m, d)
    BY <1>1, <1>5, <1>7 DEF HeardInv, Reranks, Undoes
  <2> QED
    BY <1>6, <1>7, <2>1
<1> QED
  BY <1>1, <1>3, <1>4, <1>6, <1>7 DEF Unbeaten

LEMMA AnswerCacheSync ==
  ASSUME TInv, HistoryInv, AInv, HeardInv, CacheSync, NEW m \in Calls, Answer(m)
  PROVE  HeardInv' /\ CacheSync'
<1>0. /\ UNCHANGED <<board, stage, payload, order, told, body, inbox, newest, fetch>>
      /\ m \in Committed /\ m \in Pending /\ stage[m] = "committed"
      /\ Committed' = Committed /\ Coming' = Coming
      /\ Pending' = Pending \ {m} /\ heard' = heard \cup {m}
      /\ cache' = IF IsCurrent(m) THEN OnSuccess(cache, m) ELSE cache
      /\ trouble' = trouble \cup (IF IsCurrent(m) THEN AnswerTrouble(m) ELSE {})
      /\ IsCopy(cache)
  BY AnswerNames
<1>1. HeardInv'
  BY <1>0 DEF HeardInv
<1> SUFFICES ASSUME trouble' = {}, trouble = {} PROVE CacheSync'
  BY <1>0, <1>1 DEF CacheSync
<1>2. /\ \A x \in Columns : SyncColumn(cache.cols[x], x, Coming, Pending)
      /\ \A k \in Cards : SyncCard(cache.cards[k], k, Coming, heard, Pending)
  BY <1>0, NotACopy DEF CacheSync
<1>3. Coming \subseteq Committed /\ Committed \subseteq Coming \cup heard
  BY ComingFacts DEF HeardInv
<1>4. CASE ~IsCurrent(m)
  <2>1. cache' = cache /\ Kind(m) = "moveTask" /\ newest[Card(m)] # m
    BY <1>0, <1>4 DEF IsCurrent
  <2>2. ASSUME NEW x \in Columns PROVE SyncColumn(cache.cols[x], x, Coming, Pending)'
    <3>1. \A s : s = cache'.cols[x] => SyncColumn(s, x, Coming, Pending \ {m})
      BY <1>0, <1>2, <2>1, ClosedColumn
    <3>2. \A s, B, o : s = cache'.cols[x] /\ B = Coming' /\ o = Pending' => SyncColumn(s, x, B, o)'
      BY <1>0, <3>1, ColumnStays
    <3> QED
      BY <3>2
  <2>3. ASSUME NEW k \in Cards PROVE SyncCard(cache.cards[k], k, Coming, heard, Pending)'
    <3>1. newest[k] # m
      <4>1. m # Gone
        BY IdAssumption
      <4> QED
        BY <2>1, <4>1 DEF AInv, NewestInv
    <3>2. \A s : s = cache'.cards[k] => SyncCard(s, k, Coming, heard, Pending \ {m})
      BY <1>0, <1>2, <2>1, <3>1, ClosedCard
    <3>3. newest'[k] = newest[k] /\ \A d \in Committed : payload'[d] = payload[d]
      BY <1>0
    <3>4. \A s, B, J, o : s = cache'.cards[k] /\ B = Coming' /\ J = heard' /\ o = Pending' => SyncCard(s, k, B, J, o)'
      BY <1>0, <1>3, <3>2, <3>3, CardStays
    <3> QED
      BY <3>4
  <2> QED
    BY <2>2, <2>3 DEF CacheSync
<1>5. CASE IsCurrent(m)
  <2>1. cache' = OnSuccess(cache, m)
    BY <1>0, <1>5
  <2>2. /\ \A q \in Cards : AnswerCard(cache, m, q, cache'.cards[q])
        /\ \A x \in Columns : AnswerColumn(cache, m, x, cache'.cols[x])
    BY <1>0, <2>1, AnswerEffect DEF TInv, ServerOK
  <2>3. /\ Kind(m) # "renameColumn" =>
             /\ Unbeaten(m, Coming, heard)
             /\ \A d \in Calls : Later(d, m) /\ Undoes(m, d) => d \in Coming /\ d \notin heard
        /\ Kind(m) = "createTask" /\ cache.temps[m] = Gone => cache.cards[Card(m)] = Gone
        /\ Kind(m) = "createColumn" /\ cache.temps[m] = Gone => cache.cols[Target(m)] = Gone
        /\ Kind(m) = "editTask" /\ m \in heard /\ cache.cards[Card(m)] # Gone =>
             ~(cache.cards[Card(m)].version < payload[m].version)
    BY <1>5, AnswerUnbeaten
  <2>4. ASSUME NEW x \in Columns PROVE SyncColumn(cache.cols[x], x, Coming, Pending)'
    <3>1. \A s : s = cache'.cols[x] => SyncColumn(s, x, Coming, Pending \ {m})
      BY <1>0, <1>2, <2>2, <2>3, AnswerColumnSync
    <3>2. \A s, B, o : s = cache'.cols[x] /\ B = Coming' /\ o = Pending' => SyncColumn(s, x, B, o)'
      BY <1>0, <3>1, ColumnStays
    <3> QED
      BY <3>2
  <2>5. ASSUME NEW k \in Cards PROVE SyncCard(cache.cards[k], k, Coming, heard, Pending)'
    <3>1. cache.cards[k] # Gone => cache.cards[k] \in CardRows
      BY <1>0, CopyDomains
    <3>2. \A s : s = cache'.cards[k] => SyncCard(s, k, Coming, heard, Pending \ {m})
      <4> SUFFICES ASSUME NEW s, s = cache'.cards[k] PROVE SyncCard(s, k, Coming, heard, Pending \ {m})
        OBVIOUS
      <4>1. AnswerCard(cache, m, k, s) /\ SyncCard(cache.cards[k], k, Coming, heard, Pending)
        BY <1>2, <2>2
      <4>2. /\ Kind(m) = "createTask" /\ Card(m) = k /\ cache.temps[m] = Gone => cache.cards[k] = Gone
            /\ Kind(m) = "editTask" /\ Card(m) = k /\ m \in heard /\ cache.cards[k] # Gone =>
                 ~(cache.cards[k].version < payload[m].version)
        BY <2>3
      <4>3. NewestInv /\ m \in Committed
        BY <1>0 DEF AInv
      <4> QED
        BY <1>2, <1>3, <1>5, <2>3, <3>1, <4>1, <4>2, <4>3, AnswerCardSync
    <3>3. newest'[k] = newest[k] /\ \A d \in Committed : payload'[d] = payload[d]
      BY <1>0
    <3>4. \A s, B, J, o : s = cache'.cards[k] /\ B = Coming' /\ J = heard' /\ o = Pending' => SyncCard(s, k, B, J, o)'
      BY <1>0, <1>3, <3>2, <3>3, CardStays
    <3> QED
      BY <3>4
  <2> QED
    BY <2>4, <2>5 DEF CacheSync
<1> QED
  BY <1>1, <1>4, <1>5

LEMMA AnswerSInv ==
  ASSUME TInv, HistoryInv, AInv, SInv, NEW m \in Calls, Answer(m)
  PROVE  SInv'
<1>0. /\ UNCHANGED <<board, stage, payload, order, told, body, inbox, newest, fetch>>
      /\ Committed' = Committed /\ Coming' = Coming
      /\ Pending' = Pending \ {m} /\ heard' = heard \cup {m}
      /\ touched' = touched \cup (Pending \ {m})
  BY AnswerNames
<1>1. HeardInv' /\ CacheSync'
  BY AnswerCacheSync DEF SInv
<1>2. SnapshotSync'
  BY <1>0 DEF SnapshotSync
<1>3. FetchSync'
  BY <1>0, FetchSyncKept DEF SInv
<1> QED
  BY <1>1, <1>2, <1>3 DEF SInv
-----------------------------------------------------------------------------

LEMMA OpenMore ==
  ASSUME NEW A, NEW H, NEW open, NEW o, open \subseteq o
  PROVE  /\ \A r, x : SyncColumn(r, x, A, open) => SyncColumn(r, x, A, o)
         /\ \A k : Missing(k, A, H, open) => Missing(k, A, H, o)
         /\ \A r, k : SyncPlace(r, k, A, open) => SyncPlace(r, k, A, o)
         /\ \A r, k : SyncText(r, k, A, open) => SyncText(r, k, A, o)
<1>1. /\ \A K, x : OnColumn(open \ Committed, K, x) => OnColumn(o \ Committed, K, x)
      /\ \A K, k : OnCard(open \ Committed, K, k) => OnCard(o \ Committed, K, k)
      /\ \A m : m \in open => m \in o
  BY DEF OnColumn, OnCard
<1>2. \A r, x : SyncColumn(r, x, A, open) => SyncColumn(r, x, A, o)
  BY <1>1 DEF SyncColumn
<1>3. \A k : Missing(k, A, H, open) => Missing(k, A, H, o)
  BY <1>1 DEF Missing
<1>4. \A r, k : SyncRow(r, k, A, open) => SyncRow(r, k, A, o)
  BY <1>1 DEF SyncRow
<1>5. \A r, k : Doomed(r, k, A, open) => Doomed(r, k, A, o)
  BY <1>1 DEF Doomed
<1>6. \A r, k : SyncText(r, k, A, open) => SyncText(r, k, A, o)
  BY <1>1 DEF SyncText
<1> QED
  BY <1>2, <1>3, <1>4, <1>5, <1>6 DEF SyncPlace

\* What an optimistic write leaves of a column's copy.
LEMMA MutateColumnSync ==
  ASSUME NEW m, m \notin Committed, NEW x \in Columns, NEW A, NEW open, NEW o, o = open \cup {m},
         NEW b, SyncColumn(b.cols[x], x, A, open), NEW s, MutateColumn(b, m, x, s)
  PROVE  SyncColumn(s, x, A, o)
<1> DEFINE r == b.cols[x]
<1>0. SyncColumn(r, x, A, o)
  BY OpenMore
<1>1. CASE Kind(m) = "renameColumn" /\ Target(m) = x
  <2>1. r # Gone /\ s # Gone /\ s.title = m /\ s.rank = r.rank
    BY <1>1 DEF MutateColumn
  <2>2. OnColumn(o \ Committed, {"renameColumn"}, x)
    BY <1>1 DEF OnColumn
  <2> QED
    BY <1>0, <2>1, <2>2 DEF SyncColumn
<1>2. CASE Kind(m) = "deleteColumn" /\ Target(m) = x
  <2>1. s = Gone
    BY <1>2 DEF MutateColumn
  <2>2. OnColumn(o \ Committed, {"deleteColumn"}, x)
    BY <1>2 DEF OnColumn
  <2> QED
    BY <2>1, <2>2 DEF SyncColumn
<1>3. CASE ~(Kind(m) \in {"renameColumn", "deleteColumn"} /\ Target(m) = x)
  BY <1>0, <1>3 DEF MutateColumn
<1> QED
  BY <1>1, <1>2, <1>3

\* What an optimistic write, other than a move of it, leaves of a card's copy.
LEMMA MutateCardSync ==
  ASSUME TInv, HistoryInv, NEW m, m \notin Committed, NEW k \in Cards, ~(Kind(m) = "moveTask" /\ Card(m) = k),
         NEW A, A \subseteq Committed, NEW H, Committed \subseteq A \cup H, NEW open, NEW o, o = open \cup {m},
         NEW b, SyncCard(b.cards[k], k, A, H, open), b.cards[k] # Gone => b.cards[k] \in CardRows,
         NEW s, MutateCard(b, m, k, s)
  PROVE  SyncCard(s, k, A, H, o)
<1> DEFINE r == b.cards[k]
<1>0. SyncCard(r, k, A, H, o)
  BY OpenMore DEF SyncCard
<1>1. CASE Kind(m) = "editTask" /\ Card(m) = k
  <2>1. r # Gone /\ Moved(s, r, m)
    BY <1>1 DEF MutateCard
  <2>2. SyncPlace(s, k, A, o)
    BY <1>0, <2>1, SamePlace DEF SyncCard, Moved
  <2>3. OnCard(o \ Committed, {"editTask"}, k)
    BY <1>1 DEF OnCard
  <2> QED
    BY <2>1, <2>2, <2>3 DEF SyncCard, SyncText, Moved
<1>2. CASE Kind(m) = "deleteTask" /\ Card(m) = k
  <2>1. s = Gone
    BY <1>2 DEF MutateCard
  <2>2. OnCard(o \ Committed, {"deleteTask"}, k)
    BY <1>2 DEF OnCard
  <2> QED
    BY <2>1, <2>2 DEF SyncCard, Missing
<1>3. CASE Kind(m) = "deleteColumn" /\ r # Gone /\ r.column = Target(m)
  <2>1. s = Gone
    BY <1>3 DEF MutateCard
  <2>2. ASSUME board.cards[k] # Gone PROVE Missing(k, A, H, o)
    <3>1. CASE board.cards[k].column = Target(m)
      <4>1. OnColumn(o \ Committed, {"deleteColumn"}, board.cards[k].column)
        BY <1>3, <3>1 DEF OnColumn
      <4> QED
        BY <4>1 DEF Missing
    <3>2. CASE board.cards[k].column # Target(m)
      <4>1. SyncPlace(r, k, A, o) /\ r \in CardRows /\ r.column # board.cards[k].column
        BY <1>0, <1>3, <3>2 DEF SyncCard
      <4> HIDE DEF r
      <4> QED
        BY <2>2, <4>1, OtherColumn
    <3> QED
      BY <3>1, <3>2
  <2> QED
    BY <2>1, <2>2 DEF SyncCard
<1>4. CASE /\ ~(Kind(m) \in {"editTask", "deleteTask"} /\ Card(m) = k)
           /\ ~(Kind(m) = "deleteColumn" /\ r # Gone /\ r.column = Target(m))
  <2>1. s = r
    BY <1>4 DEF MutateCard
  <2> QED
    BY <1>0, <2>1
<1> QED
  BY <1>1, <1>2, <1>3, <1>4

LEMMA MutateNames ==
  ASSUME TInv, NEW m \in Calls, Mutate(m)
  PROVE  /\ UNCHANGED <<board, body, payload, order, told, inbox, heard, ignored, trouble>>
         /\ m \notin Pending /\ m \notin Committed /\ Pending' = Pending \cup {m}
         /\ Committed' = Committed /\ Coming' = Coming
         /\ cache # NoBoard /\ IsCopy(cache) /\ Shown(m) /\ cache' = OnMutate(cache, m)
         /\ fetch' = NoFetch /\ stage'[m] = "sent" /\ snapshot'[m] = cache
         /\ touched' = touched \cup Pending \cup (IF Pending = {} THEN {} ELSE {m})
         /\ \A k \in Cards : newest'[k] = IF Kind(m) = "moveTask" /\ Card(m) = k THEN m ELSE newest[k]
<1>1. /\ m \in Mine /\ stage[m] = "idle" /\ cache # NoBoard /\ Shown(m)
      /\ stage' = [stage EXCEPT ![m] = "sent"]
      /\ snapshot' = [snapshot EXCEPT ![m] = cache]
      /\ fetch' = NoFetch /\ cache' = OnMutate(cache, m)
      /\ touched' = touched \cup Pending \cup (IF Pending = {} THEN {} ELSE {m})
      /\ newest' = IF Kind(m) = "moveTask" THEN [newest EXCEPT ![Card(m)] = m] ELSE newest
      /\ UNCHANGED <<board, body, payload, order, told, inbox, answer, heard, ignored, trouble>>
  BY DEF Mutate, wire
<1>2. m \notin Pending /\ m \notin Committed /\ answer[m] = "none"
  BY <1>1 DEF Pending, TInv, ServerOK, Accepted, PageOK
<1>3. Pending' = Pending \cup {m}
  BY <1>1, <1>2 DEF Pending, Mine, TInv, ServerOK
<1>4. Committed' = Committed /\ Coming' = Coming
  BY <1>1, SameHistory DEF Coming
<1>5. IsCopy(cache)
  BY <1>1 DEF TInv, PageOK
<1>6. \A k \in Cards : newest'[k] = IF Kind(m) = "moveTask" /\ Card(m) = k THEN m ELSE newest[k]
  BY <1>1 DEF TInv, PageOK
<1>7. stage'[m] = "sent" /\ snapshot'[m] = cache
  BY <1>1 DEF TInv, PageOK, ServerOK
<1> QED
  BY <1>1, <1>2, <1>3, <1>4, <1>5, <1>6, <1>7
-----------------------------------------------------------------------------

\* The page's estimate of a move is the newest there is.
LEMMA MutateMoved ==
  ASSUME TInv, HistoryInv, NEW m \in Calls, Mutate(m), Kind(m) = "moveTask", NEW k \in Cards, Card(m) = k,
         NEW A, A \subseteq Committed, NEW H,
         NEW b, SyncCard(b.cards[k], k, A, H, Pending), b.cards[k] # Gone => b.cards[k] \in CardRows,
         BornColumn(Target(m)),
         NEW s, MutateCard(b, m, k, s)
  PROVE  SyncCard(s, k, A, H, Pending)'
<1> DEFINE r == b.cards[k] t == board.cards[k]
<1>0. /\ UNCHANGED <<board, body, payload, order>>
      /\ m \notin Committed /\ Pending' = Pending \cup {m} /\ Committed' = Committed /\ newest'[k] = m
  BY MutateNames
<1>1. /\ r # Gone /\ s # Gone /\ s.column = Target(m) /\ s.version = r.version + 1 /\ s.text = r.text
  BY DEF MutateCard
<1>2. SyncPlace(r, k, A, Pending) /\ SyncText(r, k, A, Pending) /\ r.version \in Nat
  BY <1>1 DEF SyncCard, CardRows
<1>3. /\ Born(k)' <=> Born(k)
      /\ \A x : BornColumn(x)' <=> BornColumn(x)
      /\ \A d : Kind(d)' = Kind(d) /\ Card(d)' = Card(d) /\ Target(d)' = Target(d)
  BY <1>0, SameHistory DEF Kind, Card, Target
<1>4. \A d \in Committed : Kind(d) = "moveTask" => payload[d].version \in Nat
  BY RowFields DEF TInv, ServerOK, Accepted, PayloadOK
<1>5. Fresh(s.version, k, A)'
  <2> SUFFICES ASSUME NEW d \in Committed \ A, Kind(d) = "moveTask", Card(d) = k PROVE payload[d].version <= s.version
    BY <1>0, <1>3 DEF Fresh
  <2>1. payload[d].version <= r.version
    BY <1>2 DEF SyncPlace, Fresh
  <2> QED
    BY <1>1, <1>2, <1>4, <2>1
<1>6. NoLess(s.version, k)'
  <2>1. InitialBoard.cards[k] # Gone => InitialBoard.cards[k].version \in Nat
    BY BoardAssumption, BoardFacts, RowFields
  <2> QED
    BY <1>1, <1>2, <2>1 DEF SyncPlace, NoLess
<1>7. Born(k)' /\ BornColumn(s.column)' /\ (\A d \in Committed : Kind(d) = "deleteTask" /\ Card(d) = k => d \in A)
  BY <1>1, <1>2, <1>3 DEF SyncPlace
<1>8. Doomed(s, k, A, Pending)'
  BY <1>0 DEF Doomed
<1>9. SyncRow(s, k, A, Pending)'
  BY <1>0, <1>1, <1>3 DEF SyncRow
<1>10. SyncPlace(s, k, A, Pending)'
  BY <1>0, <1>3, <1>5, <1>6, <1>7, <1>8, <1>9 DEF SyncPlace
<1>11. SyncText(s, k, A, Pending)'
  <2>1. SyncText(s, k, A, Pending)
    BY <1>1, <1>2 DEF SyncText
  <2>2. \A o : o = Pending' => SyncText(s, k, A, o)'
    BY <1>0, <2>1, TextStays
  <2> QED
    BY <2>2
<1> QED
  BY <1>1, <1>10, <1>11 DEF SyncCard

LEMMA MutateCacheSync ==
  ASSUME TInv, HistoryInv, HeardInv, CacheSync, NEW m \in Calls, Mutate(m)
  PROVE  HeardInv' /\ CacheSync'
<1>0. /\ UNCHANGED <<board, body, payload, order, told, inbox, heard, ignored, trouble>>
      /\ m \notin Pending /\ m \notin Committed /\ Pending' = Pending \cup {m}
      /\ Committed' = Committed /\ Coming' = Coming
      /\ cache # NoBoard /\ IsCopy(cache) /\ Shown(m) /\ cache' = OnMutate(cache, m)
      /\ \A k \in Cards : newest'[k] = IF Kind(m) = "moveTask" /\ Card(m) = k THEN m ELSE newest[k]
  BY MutateNames
<1>1. HeardInv'
  BY <1>0 DEF HeardInv
<1> SUFFICES ASSUME trouble = {} PROVE CacheSync'
  BY <1>0, <1>1 DEF CacheSync
<1>2. /\ \A x \in Columns : SyncColumn(cache.cols[x], x, Coming, Pending)
      /\ \A k \in Cards : SyncCard(cache.cards[k], k, Coming, heard, Pending)
  BY <1>0 DEF CacheSync
<1>3. Coming \subseteq Committed /\ Committed \subseteq Coming \cup heard
  BY ComingFacts DEF HeardInv
<1>4. /\ \A q \in Cards : MutateCard(cache, m, q, cache'.cards[q])
      /\ \A x \in Columns : MutateColumn(cache, m, x, cache'.cols[x])
  BY <1>0, MutateEffect DEF TInv, ServerOK
<1>5. ASSUME NEW x \in Columns PROVE SyncColumn(cache.cols[x], x, Coming, Pending)'
  <2>1. \A s : s = cache'.cols[x] => SyncColumn(s, x, Coming, Pending \cup {m})
    BY <1>0, <1>2, <1>4, MutateColumnSync
  <2>2. \A s, B, o : s = cache'.cols[x] /\ B = Coming' /\ o = Pending' => SyncColumn(s, x, B, o)'
    BY <1>0, <2>1, ColumnStays
  <2> QED
    BY <2>2
<1>6. ASSUME NEW k \in Cards PROVE SyncCard(cache.cards[k], k, Coming, heard, Pending)'
  <2>0. cache.cards[k] # Gone => cache.cards[k] \in CardRows
    BY <1>0, CopyDomains
  <2>1. CASE ~(Kind(m) = "moveTask" /\ Card(m) = k)
    <3>1. \A s : s = cache'.cards[k] => SyncCard(s, k, Coming, heard, Pending \cup {m})
      <4> SUFFICES ASSUME NEW s, s = cache'.cards[k] PROVE SyncCard(s, k, Coming, heard, Pending \cup {m})
        OBVIOUS
      <4>1. MutateCard(cache, m, k, s) /\ SyncCard(cache.cards[k], k, Coming, heard, Pending)
        BY <1>2, <1>4
      <4> QED
        BY <1>0, <1>3, <2>0, <2>1, <4>1, MutateCardSync
    <3>2. newest'[k] = newest[k] /\ \A d \in Committed : payload'[d] = payload[d]
      BY <1>0, <2>1
    <3>3. \A s, B, J, o : s = cache'.cards[k] /\ B = Coming' /\ J = heard' /\ o = Pending' => SyncCard(s, k, B, J, o)'
      BY <1>0, <1>3, <3>1, <3>2, CardStays
    <3> QED
      BY <3>3
  <2>2. CASE Kind(m) = "moveTask" /\ Card(m) = k
    <3>1. BornColumn(Target(m))
      <4>1. Target(m) \in Columns /\ cache.cols[Target(m)] # Gone
        BY <1>0, <2>2, BodyFacts DEF Shown, TInv, ServerOK
      <4> QED
        BY <1>2, <4>1 DEF SyncColumn
    <3>2. \A s, B, J : s = cache'.cards[k] /\ B = Coming' /\ J = heard' => SyncCard(s, k, B, J, Pending)'
      <4> SUFFICES ASSUME NEW s, s = cache'.cards[k] PROVE SyncCard(s, k, Coming, heard, Pending)'
        BY <1>0
      <4>1. MutateCard(cache, m, k, s) /\ SyncCard(cache.cards[k], k, Coming, heard, Pending)
        BY <1>2, <1>4
      <4> DEFINE A == Coming
      <4> DEFINE H == heard
      <4>2. \A B, J : B = Coming /\ J = heard => SyncCard(s, k, B, J, Pending)'
        BY <1>3, <2>0, <2>2, <3>1, <4>1, MutateMoved
      <4> QED
        BY <1>0, <4>2
    <3> QED
      BY <3>2
  <2> QED
    BY <2>1, <2>2
<1> QED
  BY <1>1, <1>5, <1>6 DEF CacheSync

LEMMA MutateSnapshotSync ==
  ASSUME TInv, HistoryInv, CacheSync, NEW m \in Calls, Mutate(m)
  PROVE  SnapshotSync'
<1>0. /\ UNCHANGED <<board, body, payload, order, told, inbox, heard, ignored, trouble>>
      /\ m \notin Pending /\ m \notin Committed /\ Pending' = Pending \cup {m}
      /\ Committed' = Committed /\ Coming' = Coming
      /\ cache # NoBoard /\ IsCopy(cache) /\ Shown(m) /\ cache' = OnMutate(cache, m)
      /\ stage'[m] = "sent" /\ snapshot'[m] = cache
      /\ touched' = touched \cup Pending \cup (IF Pending = {} THEN {} ELSE {m})
      /\ \A k \in Cards : newest'[k] = IF Kind(m) = "moveTask" /\ Card(m) = k THEN m ELSE newest[k]
  BY MutateNames
<1> SUFFICES ASSUME trouble = {}, Pending = {} PROVE Restorable(m)'
  BY <1>0 DEF SnapshotSync
<1>1. Pending' = {m}
  BY <1>0
<1>2. /\ \A x \in Columns : SyncColumn(cache.cols[x], x, Coming, {})
      /\ \A k \in Cards : SyncCard(cache.cards[k], k, Coming, heard, {})
  BY <1>0 DEF CacheSync
<1>3. /\ \A q \in Cards : MutateCard(cache, m, q, cache'.cards[q])
      /\ \A x \in Columns : MutateColumn(cache, m, x, cache'.cols[x])
  BY <1>0, MutateEffect DEF TInv, ServerOK
<1>4. /\ \A q \in Cards : MutateCard(snapshot[m], m, q, cache.cards[q])'
      /\ \A x \in Columns : MutateColumn(snapshot[m], m, x, cache.cols[x])'
  <2>1. /\ \A b, q, s : MutateCard(b, m, q, s)' <=> MutateCard(b, m, q, s)
        /\ \A b, x, s : MutateColumn(b, m, x, s)' <=> MutateColumn(b, m, x, s)
    BY <1>0, SameMutate
  <2>2. /\ \A b, s, q : q \in Cards /\ b = snapshot'[m] /\ s = cache'.cards[q] => MutateCard(b, m, q, s)'
        /\ \A b, s, x : x \in Columns /\ b = snapshot'[m] /\ s = cache'.cols[x] => MutateColumn(b, m, x, s)'
    BY <1>0, <1>3, <2>1
  <2> QED
    BY <2>2
<1>5. ASSUME NEW x \in Columns PROVE SyncColumn(snapshot[m].cols[x], x, Coming, {})'
  <2>1. SyncColumn(cache.cols[x], x, Coming, {})
    BY <1>2
  <2>2. \A s, B : s = snapshot'[m].cols[x] /\ B = Coming' => SyncColumn(s, x, B, {})'
    BY <1>0, <2>1, ColumnStays
  <2> QED
    BY <2>2
<1>6. ASSUME NEW q \in Cards PROVE SyncCard(snapshot[m].cards[q], q, Coming, heard, {})'
  <2>1. SyncCard(cache.cards[q], q, Coming, heard, {})
    BY <1>2
  <2>2. Coming \subseteq Committed /\ \A d \in Committed : payload'[d] = payload[d]
    BY <1>0, ComingFacts
  <2>3. \A s, B, J : s = snapshot'[m].cards[q] /\ B = Coming' /\ J = heard' => SyncCard(s, q, B, J, {})'
    BY <1>0, <2>1, <2>2, CardStays
  <2> QED
    BY <2>3
<1>7. Kind(m)' = "moveTask" => newest'[Card(m)'] = m
  <2> SUFFICES ASSUME Kind(m)' = "moveTask" PROVE newest'[Card(m)'] = m
    OBVIOUS
  <2>1. Kind(m) = "moveTask" /\ Card(m)' = Card(m) /\ Card(m) \in Cards
    <3>1. Kind(m) = "moveTask" /\ Card(m)' = Card(m)
      BY <1>0 DEF Kind, Card
    <3> QED
      BY <3>1, BodyFacts DEF TInv, ServerOK, TaskKinds
  <2> QED
    BY <1>0, <2>1
<1>8. stage'[m] # "conflict"
  BY <1>0
<1> QED
  BY <1>1, <1>4, <1>5, <1>6, <1>7, <1>8 DEF Restorable

LEMMA MutateSInv ==
  ASSUME TInv, HistoryInv, SInv, NEW m \in Calls, Mutate(m)
  PROVE  SInv'
<1>1. HeardInv' /\ CacheSync' /\ SnapshotSync'
  BY MutateCacheSync, MutateSnapshotSync DEF SInv
<1>2. fetch' = NoFetch
  BY MutateNames
<1>3. FetchSync'
  BY <1>2 DEF FetchSync, NoFetch
<1> QED
  BY <1>1, <1>3 DEF SInv
-----------------------------------------------------------------------------

\* A move that is no longer open, and of which nothing rests on the copy.
LEMMA MoveClosed ==
  ASSUME NEW m, Kind(m) = "moveTask", NEW A, NEW H, NEW open
  PROVE  /\ \A r, x : SyncColumn(r, x, A, open) => SyncColumn(r, x, A, open \ {m})
         /\ \A r, k : SyncText(r, k, A, open) => SyncText(r, k, A, open \ {m})
         /\ \A r, k : newest[k] # m /\ SyncCard(r, k, A, H, open) => SyncCard(r, k, A, H, open \ {m})
<1>1. /\ \A K, x : "moveTask" \notin K /\ OnColumn(open \ Committed, K, x) => OnColumn((open \ {m}) \ Committed, K, x)
      /\ \A K, k : "moveTask" \notin K /\ OnCard(open \ Committed, K, k) => OnCard((open \ {m}) \ Committed, K, k)
  BY DEF OnColumn, OnCard
<1>2. ASSUME NEW r, NEW x, SyncColumn(r, x, A, open) PROVE SyncColumn(r, x, A, open \ {m})
  <2>1. "moveTask" \notin {"deleteColumn"} /\ "moveTask" \notin {"renameColumn"}
    OBVIOUS
  <2> QED
    BY <1>1, <1>2, <2>1 DEF SyncColumn
<1>3. ASSUME NEW r, NEW k, SyncText(r, k, A, open) PROVE SyncText(r, k, A, open \ {m})
  <2>1. "moveTask" \notin {"editTask"}
    OBVIOUS
  <2> QED
    BY <1>1, <1>3, <2>1 DEF SyncText
<1>4. ASSUME NEW r, NEW k, newest[k] # m, SyncPlace(r, k, A, open) PROVE SyncPlace(r, k, A, open \ {m})
  <2>1. Doomed(r, k, A, open) => Doomed(r, k, A, open \ {m})
    BY <1>4 DEF Doomed
  <2>2. SyncRow(r, k, A, open) => SyncRow(r, k, A, open \ {m})
    BY <1>4 DEF SyncRow
  <2> QED
    BY <1>4, <2>1, <2>2 DEF SyncPlace
<1>5. ASSUME NEW k, newest[k] # m, Missing(k, A, H, open) PROVE Missing(k, A, H, open \ {m})
  <2>1. "moveTask" \notin {"deleteTask"} /\ "moveTask" \notin {"deleteColumn"}
    OBVIOUS
  <2> QED
    BY <1>1, <1>5, <2>1 DEF Missing
<1>6. ASSUME NEW r, NEW k, newest[k] # m, SyncCard(r, k, A, H, open) PROVE SyncCard(r, k, A, H, open \ {m})
  BY <1>3, <1>4, <1>5, <1>6 DEF SyncCard
<1> QED
  BY <1>2, <1>3, <1>6

\* The row a 409 carries, when it is ahead of the moves that the page may have ignored.
LEMMA ConflictPlace ==
  ASSUME NEW A, NEW S, NEW k, NEW p, SyncPlace(p, k, A \cup S, {}),
         \A d \in S : /\ Kind(d) = "moveTask" /\ Card(d) = k
                      /\ payload[d].version <= p.version /\ ~(payload[d].version > p.version)
  PROVE  SyncPlace(p, k, A, {})
<1>1. Fresh(p.version, k, A)
  BY DEF SyncPlace, Fresh
<1>2. Edited(k, A \cup S) => Edited(k, A)
  BY DEF Edited
<1>3. OnCard(A \cup S, {"deleteTask", "editTask"}, k) => OnCard(A, {"deleteTask", "editTask"}, k)
  BY DEF OnCard
<1>4. board.cards[k] = Gone => Doomed(p, k, A, {})
  BY <1>3 DEF SyncPlace, Doomed
<1>5. board.cards[k] # Gone => SyncRow(p, k, A, {})
  BY <1>2 DEF SyncPlace, SyncRow
<1>6. \A d \in Committed : Kind(d) = "deleteTask" /\ Card(d) = k => d \in A
  BY DEF SyncPlace
<1> QED
  BY <1>1, <1>4, <1>5, <1>6 DEF SyncPlace

\* The card of a refused move, with the row that the 409 carries.
LEMMA ConflictCard ==
  ASSUME TInv, HistoryInv, NEW k \in Cards, NEW A, A \subseteq Committed, NEW H, Committed \subseteq A \cup H,
         NEW p, p.version \in Nat, p.column \in Columns, SyncPlace(p, k, A, {}),
         NEW b, \A x \in Columns : SyncColumn(b.cols[x], x, A, {}),
         NEW t, SyncText([text |-> t], k, A, {}),
         NEW s, b.cols[p.column] = Gone => s = Gone, b.cols[p.column] # Gone => Moved(s, p, t)
  PROVE  SyncCard(s, k, A, H, {})
<1>1. CASE b.cols[p.column] # Gone
  <2>1. s # Gone /\ s.column = p.column /\ s.version = p.version /\ s.rank = p.rank /\ s.text = t
    BY <1>1 DEF Moved
  <2>2. SyncPlace(s, k, A, {})
    <3>1. Doomed(p, k, A, {}) => Doomed(s, k, A, {})
      BY <2>1 DEF Doomed
    <3>2. SyncRow(p, k, A, {}) => SyncRow(s, k, A, {})
      BY <2>1 DEF SyncRow
    <3> QED
      BY <2>1, <3>1, <3>2 DEF SyncPlace
  <2>3. SyncText(s, k, A, {})
    BY <2>1 DEF SyncText
  <2> QED
    BY <2>1, <2>2, <2>3 DEF SyncCard
<1>2. CASE b.cols[p.column] = Gone
  <2> SUFFICES ASSUME board.cards[k] # Gone PROVE Missing(k, A, H, {})
    BY <1>2 DEF SyncCard
  <2>1. SyncColumn(Gone, p.column, A, {})
    BY <1>2
  <2>2. NoLess(p.version, k) /\ Fresh(p.version, k, A) /\ SyncRow(p, k, A, {})
    BY DEF SyncPlace
  <2>3. CASE Edited(k, A)
    BY <2>3 DEF Missing, OnCard, Edited
  <2>4. CASE p.version < board.cards[k].version \/ p.column = board.cards[k].column
    BY <2>1, <2>2, <2>4, PlaceGone
  <2> QED
    BY <2>2, <2>3, <2>4 DEF SyncRow
<1> QED
  BY <1>1, <1>2
-----------------------------------------------------------------------------

LEMMA FailNames ==
  ASSUME TInv, NEW m \in Pending, NEW conflict \in BOOLEAN, Fail(m, conflict)
  PROVE  /\ UNCHANGED <<board, stage, payload, order, told, body, inbox, newest, snapshot, fetch, heard, ignored>>
         /\ m \in Mine /\ m \in Calls /\ IsCopy(cache) /\ IsCopy(snapshot[m])
         /\ Committed' = Committed /\ Coming' = Coming /\ Pending' = Pending \ {m} /\ Pending' \subseteq touched'
         /\ cache' = RolledBack(m, conflict)
         /\ trouble' = {} => trouble = {}
         /\ IsCurrent(m) /\ trouble' = {} =>
              /\ m \notin touched
              /\ m \in ignored => conflict /\ payload[m].version > snapshot[m].cards[Card(m)].version
<1>1. /\ UNCHANGED <<board, stage, payload, order, told, body, inbox, newest, snapshot, fetch, heard, ignored>>
      /\ answer' = [answer EXCEPT ![m] = "failed"]
      /\ cache' = RolledBack(m, conflict)
      /\ touched' = touched \cup (Pending \ {m})
      /\ trouble \subseteq trouble'
  BY DEF Fail, server, wire
<1>2. m \in Mine /\ m \in Calls /\ IsCopy(cache) /\ IsCopy(snapshot[m])
  BY DEF Pending, Mine, TInv, PageOK, Loaded
<1>3. Committed' = Committed /\ Coming' = Coming
  BY <1>1, SameHistory DEF Coming
<1>4. Pending' = Pending \ {m}
  BY <1>1, <1>2 DEF Pending, Mine, TInv, PageOK
<1>5. ASSUME IsCurrent(m), trouble' = {} PROVE m \notin touched
  <2>1. m \in touched => "rollback" \in trouble'
    BY <1>5 DEF Fail
  <2> QED
    BY <1>5, <2>1
<1>6. ASSUME IsCurrent(m), trouble' = {}, m \in ignored
      PROVE  conflict /\ payload[m].version > snapshot[m].cards[Card(m)].version
  <2>1. ~(conflict /\ payload[m].version > snapshot[m].cards[Card(m)].version) => "mistaken" \in trouble'
    BY <1>6 DEF Fail
  <2> QED
    BY <1>6, <2>1
<1> QED
  BY <1>1, <1>2, <1>3, <1>4, <1>5, <1>6

\* A failure that leaves the cache as it is.
LEMMA FailSuperseded ==
  ASSUME TInv, AInv, HeardInv, CacheSync, NEW m \in Pending, ~IsCurrent(m), trouble = {}, cache # NoBoard
  PROVE  /\ \A x \in Columns : SyncColumn(cache.cols[x], x, Coming, Pending \ {m})
         /\ \A k \in Cards : SyncCard(cache.cards[k], k, Coming, heard, Pending \ {m})
<1>1. Kind(m) = "moveTask" /\ newest[Card(m)] # m /\ m # Gone
  BY IdAssumption DEF IsCurrent, Pending, Mine
<1>2. \A k \in Cards : newest[k] # m
  BY <1>1 DEF AInv, NewestInv
<1> QED
  BY <1>1, <1>2, MoveClosed DEF CacheSync

\* A failure that puts back what was there before the call.
LEMMA FailRestored ==
  ASSUME NEW m \in Pending, Restorable(m), m \notin ignored
  PROVE  /\ \A x \in Columns : SyncColumn(snapshot[m].cols[x], x, Coming, Pending \ {m})
         /\ \A k \in Cards : SyncCard(snapshot[m].cards[k], k, Coming, heard, Pending \ {m})
<1>1. Pending \ {m} = {}
  BY DEF Restorable
<1> QED
  BY <1>1 DEF Restorable

\* A failure that puts it back, and then the row of the 409.
LEMMA FailConflict ==
  ASSUME TInv, HistoryInv, AInv, HeardInv, CacheSync, trouble = {}, cache # NoBoard,
         NEW m \in Pending, Restorable(m), stage[m] = "conflict",
         m \in ignored => payload[m].version > snapshot[m].cards[Card(m)].version,
         NEW a, a = UpsertTask(snapshot[m], Card(m), payload[m])
  PROVE  /\ \A x \in Columns : SyncColumn(a.cols[x], x, Coming, Pending \ {m})
         /\ \A k \in Cards : SyncCard(a.cards[k], k, Coming, heard, Pending \ {m})
<1> DEFINE p == payload[m] b == snapshot[m] j == Card(m)
<1>0. /\ m \in Mine /\ m \in Calls /\ IsCopy(cache) /\ IsCopy(b) /\ m # Gone
      /\ Coming \subseteq Committed /\ Committed \subseteq Calls /\ Committed \subseteq Coming \cup heard
  BY ComingFacts, IdAssumption DEF HeardInv, Pending, Mine, TInv, PageOK, Loaded
<1>1. /\ Kind(m) = "moveTask" /\ CardRow(p) /\ j \in Cards
  BY <1>0, BodyFacts DEF TInv, ServerOK, PayloadOK, TaskKinds
<1>2. /\ p \in CardRows /\ p.version \in Nat /\ p.column \in Columns
  BY <1>1, RowFields
<1>3. /\ Pending = {m} /\ Pending \ {m} = {} /\ newest[j] = m
      /\ \A q \in Cards : MutateCard(b, m, q, cache.cards[q])
      /\ \A x \in Columns : MutateColumn(b, m, x, cache.cols[x])
      /\ SyncPlace(p, j, Coming \cup Seen(m), {})
  BY <1>1 DEF Restorable
<1>4. ASSUME NEW x \in Columns PROVE SyncColumn(b.cols[x], x, Coming, {})
  <2>1. cache.cols[x] = b.cols[x]
    BY <1>1, <1>3 DEF MutateColumn
  <2>2. SyncColumn(cache.cols[x], x, Coming, Pending)
    BY DEF CacheSync
  <2> QED
    BY <1>1, <1>3, <2>1, <2>2, MoveClosed
<1>5. ASSUME NEW q \in Cards, q # j PROVE SyncCard(b.cards[q], q, Coming, heard, {})
  <2>1. cache.cards[q] = b.cards[q]
    BY <1>1, <1>3, <1>5 DEF MutateCard
  <2>2. SyncCard(cache.cards[q], q, Coming, heard, Pending)
    BY DEF CacheSync
  <2>3. newest[q] # m
    BY <1>0, <1>5 DEF AInv, NewestInv
  <2> QED
    BY <1>1, <1>3, <2>1, <2>2, <2>3, MoveClosed
<1>6. SyncPlace(p, j, Coming, {})
  <2>1. ASSUME NEW d \in Seen(m)
        PROVE  /\ Kind(d) = "moveTask" /\ Card(d) = j
               /\ payload[d].version <= p.version /\ ~(payload[d].version > p.version)
    <3>1. /\ m \in ignored /\ d \in Committed /\ Kind(d) = "moveTask" /\ Card(d) = j
          /\ payload[d].version <= b.cards[j].version + 1
      BY <2>1 DEF Seen
    <3>2. payload[d].version \in Nat
      BY <1>0, <3>1, RowFields DEF TInv, ServerOK, Accepted, PayloadOK
    <3>3. b.cards[j].version \in Nat
      <4>1. b.cards[j] # Gone
        BY <1>1, <1>3 DEF MutateCard
      <4> QED
        BY <1>0, <1>1, <4>1, CopyDomains
    <3>4. p.version > b.cards[j].version
      BY <3>1
    <3> HIDE DEF p, b, j
    <3> QED
      BY <1>2, <3>1, <3>2, <3>3, <3>4
  <2> QED
    BY <1>3, <2>1, ConflictPlace
<1>7. PICK s : /\ OnlyCard(UpsertTask(b, j, p), b, j, s)
               /\ b.cards[j] = Gone => s = Gone
               /\ b.cards[j] # Gone /\ b.cols[p.column] = Gone => s = Gone
               /\ b.cards[j] # Gone /\ b.cols[p.column] # Gone => Moved(s, p, b.cards[j].text)
  BY <1>0, <1>1, <1>2, TaskWrites
<1>8. a.cols = b.cols /\ \A q \in Cards : a.cards[q] = IF q = j THEN s ELSE b.cards[q]
  BY <1>7 DEF OnlyCard
<1>9. SyncCard(s, j, Coming, heard, {})
  <2>1. b.cards[j] # Gone /\ cache.cards[j] # Gone /\ cache.cards[j].text = b.cards[j].text
    BY <1>1, <1>3 DEF MutateCard
  <2>2. SyncText(cache.cards[j], j, Coming, Pending)
    BY <1>1, <2>1 DEF CacheSync, SyncCard
  <2>3. SyncText(cache.cards[j], j, Coming, {})
    <3>1. \A r, k : SyncText(r, k, Coming, Pending) => SyncText(r, k, Coming, Pending \ {m})
      BY <1>1, MoveClosed
    <3>2. SyncText(cache.cards[j], j, Coming, Pending \ {m})
      BY <2>2, <3>1
    <3> QED
      BY <1>3, <3>2
  <2>4. SyncText([text |-> b.cards[j].text], j, Coming, {})
    BY <2>1, <2>3 DEF SyncText
  <2>5. (b.cols[p.column] = Gone => s = Gone) /\ (b.cols[p.column] # Gone => Moved(s, p, b.cards[j].text))
    BY <1>7, <2>1
  <2> QED
    BY <1>0, <1>1, <1>2, <1>4, <1>6, <2>4, <2>5, ConflictCard
<1>10. ASSUME NEW k \in Cards PROVE SyncCard(a.cards[k], k, Coming, heard, {})
  <2>1. CASE k = j
    BY <1>8, <1>9, <2>1
  <2>2. CASE k # j
    BY <1>5, <1>8, <2>2
  <2> QED
    BY <2>1, <2>2
<1> QED
  BY <1>3, <1>4, <1>8, <1>10

LEMMA FailSInv ==
  ASSUME TInv, HistoryInv, AInv, SInv, NEW m \in Pending, NEW conflict \in BOOLEAN,
         conflict => stage[m] = "conflict", Fail(m, conflict)
  PROVE  SInv'
<1>0. /\ UNCHANGED <<board, stage, payload, order, told, body, inbox, newest, snapshot, fetch, heard, ignored>>
      /\ m \in Mine /\ m \in Calls /\ IsCopy(cache) /\ IsCopy(snapshot[m])
      /\ Committed' = Committed /\ Coming' = Coming /\ Pending' = Pending \ {m} /\ Pending' \subseteq touched'
      /\ cache' = RolledBack(m, conflict)
      /\ trouble' = {} => trouble = {}
      /\ IsCurrent(m) /\ trouble' = {} =>
           /\ m \notin touched
           /\ m \in ignored => conflict /\ payload[m].version > snapshot[m].cards[Card(m)].version
  BY FailNames
<1>1. HeardInv'
  BY <1>0 DEF SInv, HeardInv
<1>2. SnapshotSync'
  BY <1>0 DEF SnapshotSync
<1>3. \A d \in Committed : payload'[d] = payload[d]
  BY <1>0
<1>4. FetchSync'
  BY <1>0, <1>3, FetchSyncKept DEF SInv
<1>5. ASSUME trouble' = {}
      PROVE  /\ \A x \in Columns : SyncColumn(cache'.cols[x], x, Coming, Pending \ {m})
             /\ \A k \in Cards : SyncCard(cache'.cards[k], k, Coming, heard, Pending \ {m})
  <2>1. cache # NoBoard
    BY <1>0, NotACopy
  <2>2. CASE ~IsCurrent(m)
    <3>1. cache' = cache
      BY <1>0, <2>2 DEF RolledBack
    <3> QED
      BY <1>0, <1>5, <2>1, <2>2, <3>1, FailSuperseded DEF SInv
  <2>3. CASE IsCurrent(m) /\ ~conflict
    <3>1. cache' = snapshot[m] /\ m \notin touched /\ m \notin ignored
      BY <1>0, <1>5, <2>3 DEF RolledBack
    <3>2. Restorable(m)
      BY <1>0, <1>5, <3>1 DEF SInv, SnapshotSync
    <3> QED
      BY <3>1, <3>2, FailRestored
  <2>4. CASE IsCurrent(m) /\ conflict
    <3>1. /\ cache' = UpsertTask(snapshot[m], Card(m), payload[m]) /\ m \notin touched
          /\ m \in ignored => payload[m].version > snapshot[m].cards[Card(m)].version
      BY <1>0, <1>5, <2>4 DEF RolledBack
    <3>2. Restorable(m)
      BY <1>0, <1>5, <3>1 DEF SInv, SnapshotSync
    <3>3. stage[m] = "conflict" /\ trouble = {}
      BY <1>0, <1>5, <2>4
    <3> HIDE DEF SInv
    <3> QED
      BY <2>1, <3>1, <3>2, <3>3, FailConflict DEF SInv
  <2> QED
    BY <2>2, <2>3, <2>4
<1>6. CacheSync'
  <2> SUFFICES ASSUME trouble' = {} PROVE CacheSync'
    BY DEF CacheSync
  <2>1. ASSUME NEW x \in Columns PROVE SyncColumn(cache.cols[x], x, Coming, Pending)'
    <3>1. \A s, B, o : s = cache'.cols[x] /\ B = Coming' /\ o = Pending' => SyncColumn(s, x, B, o)'
      BY <1>0, <1>5, ColumnStays
    <3> QED
      BY <3>1
  <2>2. ASSUME NEW k \in Cards PROVE SyncCard(cache.cards[k], k, Coming, heard, Pending)'
    <3>1. Coming \subseteq Committed /\ newest'[k] = newest[k]
      BY <1>0, ComingFacts
    <3>2. \A s, B, J, o : s = cache'.cards[k] /\ B = Coming' /\ J = heard' /\ o = Pending' => SyncCard(s, k, B, J, o)'
      BY <1>0, <1>3, <1>5, <3>1, CardStays
    <3> QED
      BY <3>2
  <2> QED
    BY <2>1, <2>2 DEF CacheSync
<1> QED
  BY <1>1, <1>2, <1>4, <1>6 DEF SInv
-----------------------------------------------------------------------------

LEMMA InitSInv == Init => SInv
<1> SUFFICES ASSUME Init PROVE SInv
  OBVIOUS
<1>1. Committed = {} /\ Pending = {} /\ Coming = {}
  BY DEF Init, Committed, Pending, Mine, Coming
<1>2. HeardInv /\ SnapshotSync
  BY <1>1 DEF HeardInv, SnapshotSync
<1>3. CacheSync
  BY DEF Init, CacheSync
<1>4. FetchSync
  BY DEF Init, FetchSync, Asked, NoFetch
<1> QED
  BY <1>2, <1>3, <1>4 DEF SInv

\* Every step keeps what each copy of the board may lack accounted for.
LEMMA NextSInv == TInv /\ HistoryInv /\ AInv /\ SInv /\ [Next]_vars => SInv'
<1> SUFFICES ASSUME TInv, HistoryInv, AInv, SInv, [Next]_vars PROVE SInv'
  OBVIOUS
<1>1. ASSUME NEW c \in Calls, Commit(c) PROVE SInv'
  <2>1. NewestInv /\ HeardInv /\ CacheSync /\ FetchSync /\ SnapshotSync
    BY DEF AInv, SInv
  <2>2. HeardInv' /\ CacheSync'
    BY <1>1, <2>1, CommitCacheSync
  <2>3. FetchSync'
    BY <1>1, <2>1, CommitFetchSync
  <2>4. SnapshotSync'
    BY <1>1, <2>1, CommitSnapshotSync
  <2> QED
    BY <2>2, <2>3, <2>4 DEF SInv
<1>2. ASSUME NEW c \in Calls, Refuse(c) PROVE SInv'
  BY <1>2, RefuseSInv
<1>3. ASSUME NEW c \in Calls, Announce(c) PROVE SInv'
  BY <1>3, AnnounceSInv
<1>4. ASSUME NEW m \in Calls, Mutate(m) PROVE SInv'
  BY <1>4, MutateSInv
<1>5. ASSUME NEW m \in Calls, Answer(m) PROVE SInv'
  BY <1>5, AnswerSInv
<1>6. ASSUME NEW m \in Calls, Refused(m) PROVE SInv'
  <2>1. m \in Pending
    BY <1>6 DEF Refused, Pending
  <2>2. Fail(m, stage[m] = "conflict")
    BY <1>6 DEF Refused
  <2>3. (stage[m] = "conflict") \in BOOLEAN
    OBVIOUS
  <2> QED
    BY <2>1, <2>2, <2>3, FailSInv
<1>7. ASSUME NEW m \in Calls, Lose(m) PROVE SInv'
  BY <1>7, FailSInv DEF Lose
<1>8. CASE Deliver
  BY <1>8, DeliverSInv
<1>9. CASE ReadColumns
  BY <1>9, ReadColumnsSInv
<1>10. CASE ReadCards
  BY <1>10, ReadCardsSInv
<1>11. CASE Land
  BY <1>11, LandSInv
<1>12. CASE Connect \/ Join \/ Disconnect \/ FetchFails \/ Idle \/ UNCHANGED vars
  BY <1>12, LinkSInv
<1> QED
  BY <1>1, <1>2, <1>3, <1>4, <1>5, <1>6, <1>7, <1>8, <1>9, <1>10, <1>11, <1>12 DEF Next

\* With nothing to come and nothing open, a copy lacks nothing.
LEMMA SettledColumn ==
  ASSUME NEW x, NEW r, r = Gone \/ r \in ColumnRows, board.cols[x] = Gone \/ board.cols[x] \in ColumnRows,
         SyncColumn(r, x, {}, {})
  PROVE  r = board.cols[x]
<1>1. \A K : ~OnColumn({}, K, x) /\ ~OnColumn({} \ Committed, K, x)
  BY DEF OnColumn
<1>2. (r = Gone) <=> (board.cols[x] = Gone)
  BY <1>1 DEF SyncColumn
<1>3. CASE r # Gone /\ board.cols[x] # Gone
  <2>1. r.title = board.cols[x].title /\ r.rank = board.cols[x].rank
    BY <1>1, <1>3 DEF SyncColumn
  <2> QED
    BY <1>3, <2>1 DEF ColumnRows
<1> QED
  BY <1>2, <1>3

LEMMA SettledCard ==
  ASSUME TInv, HistoryInv, NEW k \in Cards, NEW r, r = Gone \/ r \in CardRows,
         r # Gone => board.cols[r.column] # Gone, NEW H, SyncCard(r, k, {}, H, {})
  PROVE  r = board.cards[k]
<1> DEFINE t == board.cards[k]
<1>1. /\ \A K : ~OnCard({}, K, k) /\ ~OnCard({} \ Committed, K, k)
      /\ \A K, x : ~OnColumn({} \ Committed, K, x)
      /\ ~Edited(k, {})
  BY DEF OnCard, OnColumn, Edited
<1>2. ASSUME r = Gone, t # Gone PROVE FALSE
  BY <1>1, <1>2 DEF SyncCard, Missing
<1>3. ASSUME r # Gone, t = Gone PROVE FALSE
  BY <1>1, <1>3 DEF SyncCard, SyncPlace, Doomed
<1>4. CASE r # Gone /\ t # Gone
  <2>1. SyncPlace(r, k, {}, {}) /\ SyncText(r, k, {}, {}) /\ r \in CardRows
    BY <1>4 DEF SyncCard
  <2>2. t \in CardRows /\ r.version \in Nat
    BY <1>4, <2>1, BoardFacts, RowFields DEF TInv, ServerOK, CardRows
  <2>3. ~(r.version < t.version)
    BY <1>4, <2>1, <2>2, BehindMove DEF SyncPlace
  <2>4. r.version = t.version /\ r.rank = t.rank /\ r.column = t.column
    BY <1>1, <1>4, <2>1, <2>3 DEF SyncPlace, SyncRow
  <2>5. r.text = t.text
    BY <1>1, <1>4, <2>1 DEF SyncText
  <2>6. \A q \in CardRows :
          r.version = q.version /\ r.rank = q.rank /\ r.column = q.column /\ r.text = q.text => r = q
    BY <2>1 DEF CardRows
  <2> QED
    BY <2>1, <2>2, <2>4, <2>5, <2>6
<1> QED
  BY <1>2, <1>3, <1>4

LEMMA SInvImplies == PInv /\ TInv /\ HistoryInv /\ SInv => SettledMeansSynced
<1> SUFFICES ASSUME PInv, TInv, HistoryInv, SInv, Quiet, trouble = {}
             PROVE  /\ cache.cols = board.cols
                    /\ cache.cards = board.cards
                    /\ cache.temps = [c \in Calls |-> Gone]
  BY DEF SettledMeansSynced
<1>1. cache # NoBoard /\ IsCopy(cache) /\ Loaded /\ Pending = {}
  BY DEF Quiet, TInv, PageOK, Loaded
<1>2. Coming = {}
  <2>1. \A d \in Committed : d \in told
    BY DEF Quiet, TInv, ServerOK, Accepted
  <2>2. Len(inbox) = 0
    BY DEF Quiet
  <2> QED
    BY <2>1, <2>2 DEF Coming
<1>3. /\ DOMAIN board = {"cols", "cards"}
      /\ board.cols \in [Columns -> ColumnRows \cup {Gone}]
      /\ board.cards = [q \in Cards |-> board.cards[q]]
  BY BoardFacts DEF TInv, ServerOK
<1>4. /\ cache.cards = [q \in Cards |-> cache.cards[q]]
      /\ cache.cols \in [Columns -> ColumnRows \cup {Gone}]
      /\ cache.temps \in [Calls -> Columns \cup {TopLevel, Gone}]
      /\ \A k \in Cards : cache.cards[k] # Gone =>
           cache.cards[k] \in CardRows /\ cache.cards[k].column \in Columns /\ cache.cols[cache.cards[k].column] # Gone
  BY <1>1, CopyDomains
<1>5. /\ \A x \in Columns : SyncColumn(cache.cols[x], x, {}, {})
      /\ \A k \in Cards : SyncCard(cache.cards[k], k, {}, heard, {})
  BY <1>1, <1>2 DEF SInv, CacheSync
<1>6. \A x \in Columns : cache.cols[x] = board.cols[x]
  <2> SUFFICES ASSUME NEW x \in Columns PROVE cache.cols[x] = board.cols[x]
    OBVIOUS
  <2>1. /\ cache.cols[x] = Gone \/ cache.cols[x] \in ColumnRows
        /\ board.cols[x] = Gone \/ board.cols[x] \in ColumnRows
    BY <1>3, <1>4
  <2> QED
    BY <1>5, <2>1, SettledColumn
<1>7. \A k \in Cards : cache.cards[k] = board.cards[k]
  <2> SUFFICES ASSUME NEW k \in Cards PROVE cache.cards[k] = board.cards[k]
    OBVIOUS
  <2>1. /\ cache.cards[k] = Gone \/ cache.cards[k] \in CardRows
        /\ cache.cards[k] # Gone => board.cols[cache.cards[k].column] # Gone
    BY <1>4, <1>6
  <2>2. SyncCard(cache.cards[k], k, {}, heard, {})
    BY <1>5
  <2> QED
    BY <2>1, <2>2, SettledCard
<1>8. cache.temps = [c \in Calls |-> Gone]
  <2>1. Tame(cache)
    BY <1>1 DEF PInv, CacheInv
  <2>2. \A c \in Calls : cache.temps[c] = Gone
    BY <1>1, <2>1 DEF Tame
  <2> QED
    BY <1>4, <2>2
<1>9. cache.cols = board.cols
  BY <1>3, <1>4, <1>6
<1>10. cache.cards = board.cards
  BY <1>3, <1>4, <1>7
<1> QED
  BY <1>8, <1>9, <1>10

\* When nothing is under way the page shows the board as the server has it, card for card
\* and column for column, unless one of the cases has happened that the protocol does not
\* cover (realtime.ts 75-90, tasks.ts 204-267).
THEOREM SettledIsSynced == Spec => []SettledMeansSynced
<1> DEFINE IInv == PInv /\ TInv /\ HistoryInv /\ AInv /\ SInv
<1>1. Init => IInv
  BY InitPInv, InitTInv, InitHistory, InitAInv, InitSInv
<1>2. IInv /\ [Next]_vars => IInv'
  BY NextPInv, NextTInv, NextHistory, NextAInv, NextSInv
<1>3. IInv => SettledMeansSynced
  BY SInvImplies
<1> QED
  BY <1>1, <1>2, <1>3, PTL DEF Spec
=============================================================================
